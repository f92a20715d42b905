------------------------- MODULE ClosedLoop_proofs --------------------------
(***************************************************************************)
(* Theorems about ClosedLoop, for every number of connections, every plan  *)
(* and every behaviour of the target.                                      *)
(***************************************************************************)
EXTENDS ClosedLoop, CountingLaws

Histograms == [Samples -> Nat]
Tallies == [attempted : Nat, errors : [ErrorKinds -> Nat], opened : Nat,
            latency : Histograms]
States == {"unborn", "top", "connecting", "ready", "pause", "exchange",
           "account", "done"}

(* What the variables hold.                                                 *)
Types ==
  /\ now \in Samples
  /\ main \in {"spawn", "warm", "join", "merge", "done"}
  /\ started \in 0 .. Connections
  /\ joined \in 0 .. started /\ merged \in 0 .. started
  /\ run \in Tallies
  /\ pc \in [Workers -> States]
  /\ begun \in [Workers -> Samples] /\ turn \in [Workers -> Samples]
  /\ result \in [Workers -> [outcome : AllOutcomes \cup {"none"}, elapsed : Samples]]
  /\ tally \in [Workers -> Tallies]
  /\ pending \in [Workers -> Histograms] /\ current \in [Workers -> Nat]
  /\ seconds \in Seq(Histograms)

(* A worker reads the clock at the head of its turn, and again later.       *)
ClocksOrdered == \A w \in Workers : turn[w] <= begun[w] /\ begun[w] <= now

(* A worker that has to account for an exchange has one.                    *)
HasResult == \A w \in Workers : pc[w] = "account" => result[w].outcome \in AllOutcomes

IType == Types /\ ClocksOrdered /\ HasResult

(* The samples of length v in the shared series.                            *)
InSeries(series, v) == Sum([i \in DOMAIN series |-> series[i][v]])

(* What the workers merged so far counted.                                  *)
MergedAttempts == Sum([w \in Workers |-> IF w <= merged THEN tally[w].attempted ELSE 0])
MergedSamples(v) ==
  Sum([w \in Workers |-> IF w <= merged THEN tally[w].latency[v] ELSE 0])

(* The driver merges only workers that are done, one after the other, and   *)
(* those whose threads were never started have nothing.                     *)
Phases ==
  /\ main \in {"spawn", "warm", "join"} => merged = 0
  /\ main \in {"spawn", "warm"} => joined = 0
  /\ main \in {"merge", "done"} => joined = started
  /\ main = "done" => merged = started
  /\ \A w \in Workers : w <= joined => pc[w] = "done"
  /\ \A w \in Workers : w <= merged => pending[w] = EmptyHistogram
  /\ \A w \in Workers : w > started =>
       pc[w] = "unborn" /\ tally[w] = EmptyTally /\ pending[w] = EmptyHistogram

RunIsTheMerged ==
  /\ run.attempted = MergedAttempts
  /\ \A v \in Samples : run.latency[v] = MergedSamples(v)

-----------------------------------------------------------------------------
(* What the workers count with.                                             *)

LEMMA SamplesFinite ==
  /\ IsFiniteSet(Samples) /\ IsFiniteSet(Workers) /\ Workers \subseteq Nat
  /\ Samples \subseteq Nat /\ 0 \in Samples
BY HorizonAssumption, ConnectionsAssumption, FS_Interval DEF Samples, Workers

(* Counting the samples of a histogram is summing it.                       *)
LEMMA CountIsNatural == \A h \in Histograms : Count(h) = Sum(h) /\ Count(h) \in Nat
<1> SUFFICES ASSUME NEW h \in Histograms PROVE Count(h) = Sum(h) /\ Count(h) \in Nat
  OBVIOUS
<1>1. Count(h) = Sum(h)
  BY DEF Count, Sum
<1>2. Sum(h) \in Nat
  BY SamplesFinite, SumIsNatural DEF Histograms
<1> QED
  BY <1>1, <1>2

LEMMA EmptyCounts ==
  /\ EmptyHistogram \in Histograms /\ Count(EmptyHistogram) = 0
  /\ \A v \in Samples : EmptyHistogram[v] = 0
<1>1. EmptyHistogram \in Histograms /\ \A v \in Samples : EmptyHistogram[v] = 0
  BY DEF EmptyHistogram, Histograms
<1>2. Sum(EmptyHistogram) = 0
  BY <1>1, SamplesFinite, SumOfZeros DEF Histograms
<1> QED
  BY <1>1, <1>2, CountIsNatural

(* A sample recorded is one more sample, of its own length.                 *)
LEMMA RecordCounts ==
  ASSUME NEW h \in Histograms, NEW e \in Samples
  PROVE  /\ Record(h, e) \in Histograms
         /\ Count(Record(h, e)) = Count(h) + 1
         /\ \A v \in Samples : Record(h, e)[v] = h[v] + (IF v = e THEN 1 ELSE 0)
<1> DEFINE r == Record(h, e)
<1>1. r \in [Samples -> Nat] /\ h \in [Samples -> Nat] /\ r[e] = h[e] + 1
  BY DEF Record, Histograms
<1>2. \A v \in Samples \ {e} : r[v] = h[v]
  BY DEF Record, Histograms
<1>3. h[e] \in Nat /\ r[e] \in Nat /\ \A v \in Samples : h[v] \in Nat
  BY <1>1
<1> HIDE DEF r
<1>4. Sum(r) + h[e] = Sum(h) + r[e]
  BY <1>1, <1>2, SamplesFinite, SumOfTheRest, ZenonT(60)
<1>5. r \in Histograms
  BY <1>1 DEF Histograms
<1>6. Count(r) = Count(h) + 1
  BY <1>1, <1>3, <1>4, <1>5, CountIsNatural
<1>7. \A v \in Samples : r[v] = h[v] + (IF v = e THEN 1 ELSE 0)
  BY <1>1, <1>2, <1>3
<1> QED
  BY <1>5, <1>6, <1>7 DEF r

(* Merging adds, length by length.                                          *)
LEMMA MergeCounts ==
  ASSUME NEW h \in Histograms, NEW g \in Histograms
  PROVE  /\ MergedInto(h, g) \in Histograms
         /\ Count(MergedInto(h, g)) = Count(h) + Count(g)
         /\ \A v \in Samples : MergedInto(h, g)[v] = h[v] + g[v]
<1> DEFINE m == MergedInto(h, g)
<1>1. \A v \in Samples : h[v] \in Nat /\ g[v] \in Nat
  BY DEF Histograms
<1>2. m \in Histograms /\ \A v \in Samples : m[v] = h[v] + g[v]
  BY <1>1 DEF MergedInto, Histograms
<1> HIDE DEF m
<1>3. Sum(m) = Sum(h) + Sum(g)
  <2>1. h \in [Samples -> Nat] /\ g \in [Samples -> Nat] /\ m \in [Samples -> Nat]
    BY <1>2 DEF Histograms
  <2>2. IsFiniteSet(Samples)
    BY SamplesFinite
  <2>3. \A v \in Samples : m[v] = h[v] + g[v]
    BY <1>2
  <2> QED  BY <2>1, <2>2, <2>3, SumOfBoth
<1> QED
  BY <1>2, <1>3, CountIsNatural DEF m

LEMMA TallyFields ==
  \A t \in Tallies :
    /\ t.attempted \in Nat /\ t.opened \in Nat
    /\ t.errors \in [ErrorKinds -> Nat] /\ t.latency \in Histograms
  BY DEF Tallies

LEMMA EmptyTallyBalances ==
  /\ EmptyTally \in Tallies /\ Balanced(EmptyTally)
  /\ EmptyTally.attempted = 0 /\ EmptyTally.latency = EmptyHistogram
<1>1. NoErrors \in [ErrorKinds -> Nat] /\ Untimed(NoErrors) = 0
  BY DEF NoErrors, Untimed, ErrorKinds
<1>2. EmptyTally \in Tallies
  BY <1>1, EmptyCounts DEF EmptyTally, Tallies
<1>3. /\ EmptyTally.attempted = 0 /\ EmptyTally.errors = NoErrors
      /\ EmptyTally.latency = EmptyHistogram
  BY DEF EmptyTally
<1> QED
  BY <1>1, <1>2, <1>3, EmptyCounts DEF Balanced

(* A tally with some counts rewritten is a tally.                           *)
LEMMA TallyRewritten ==
  \A t \in Tallies, n \in Nat, e \in [ErrorKinds -> Nat], h \in Histograms :
    /\ [t EXCEPT !.attempted = n, !.errors = e] \in Tallies
    /\ [t EXCEPT !.attempted = n, !.errors = e, !.latency = h] \in Tallies
<1> SUFFICES ASSUME NEW t \in Tallies, NEW n \in Nat,
                    NEW e \in [ErrorKinds -> Nat], NEW h \in Histograms
             PROVE  /\ [t EXCEPT !.attempted = n, !.errors = e] \in Tallies
                    /\ [t EXCEPT !.attempted = n, !.errors = e, !.latency = h] \in Tallies
  OBVIOUS
<1> DEFINE E == [ErrorKinds -> Nat]
<1>1. e \in E /\ Tallies = [attempted : Nat, errors : E, opened : Nat, latency : Histograms]
  BY DEF Tallies
<1> HIDE DEF E
<1> QED
  BY <1>1

LEMMA OpenedBalances ==
  ASSUME NEW t \in Tallies
  PROVE  LET a == [t EXCEPT !.opened = @ + 1]
         IN  /\ a \in Tallies /\ (Balanced(t) => Balanced(a))
             /\ a.attempted = t.attempted /\ a.latency = t.latency
<1> DEFINE a == [t EXCEPT !.opened = @ + 1]
<1>1. /\ a \in Tallies /\ a.attempted = t.attempted
      /\ a.errors = t.errors /\ a.latency = t.latency
  BY DEF Tallies
<1> QED
  BY <1>1 DEF Balanced

LEMMA ConnectFailureBalances ==
  ASSUME NEW t \in Tallies
  PROVE  LET a == AddConnectFailure(t)
         IN  /\ a \in Tallies /\ (Balanced(t) => Balanced(a))
             /\ a.attempted = t.attempted + 1 /\ a.latency = t.latency
<1> DEFINE a == AddConnectFailure(t)
<1>1. /\ t.errors \in [ErrorKinds -> Nat] /\ t.latency \in Histograms
      /\ t.attempted \in Nat
  BY TallyFields
<1>2. /\ Bump(t.errors, "connect") \in [ErrorKinds -> Nat]
      /\ Untimed(Bump(t.errors, "connect")) = Untimed(t.errors) + 1
  BY <1>1, ConnectCounted
<1>3. /\ a.attempted = t.attempted + 1 /\ a.opened = t.opened
      /\ a.errors = Bump(t.errors, "connect") /\ a.latency = t.latency
  BY DEF AddConnectFailure, Tallies
<1>4. a \in Tallies
  <2>1. a = [t EXCEPT !.attempted = t.attempted + 1, !.errors = Bump(t.errors, "connect")]
    BY DEF AddConnectFailure, Tallies
  <2>2. t.attempted + 1 \in Nat
    BY <1>1
  <2> HIDE DEF a
  <2> QED  BY <1>1, <1>2, <2>1, <2>2, TallyRewritten
<1>5. Count(t.latency) \in Nat /\ Untimed(t.errors) \in Nat
  BY <1>1, CountIsNatural, UntimedNat
<1> HIDE DEF a
<1>6. Balanced(t) => Balanced(a)
  BY <1>1, <1>2, <1>3, <1>5 DEF Balanced
<1> QED
  BY <1>3, <1>4, <1>6 DEF a

LEMMA ExchangeBalances ==
  ASSUME NEW t \in Tallies, NEW o \in AllOutcomes, NEW e \in Samples
  PROVE  LET a == AddExchange(t, o, e)
         IN  /\ a \in Tallies /\ (Balanced(t) => Balanced(a))
             /\ a.attempted = t.attempted + 1
             /\ a.latency = IF o \in Timed THEN Record(t.latency, e) ELSE t.latency
<1> DEFINE a == AddExchange(t, o, e)
           h == IF o \in Timed THEN Record(t.latency, e) ELSE t.latency
<1>1. /\ t.errors \in [ErrorKinds -> Nat] /\ t.latency \in Histograms
      /\ t.attempted \in Nat
  BY TallyFields
<1>2. /\ Counted(t.errors, o) \in [ErrorKinds -> Nat]
      /\ Untimed(Counted(t.errors, o)) = Untimed(t.errors) + (IF o \in Timed THEN 0 ELSE 1)
  BY <1>1, CountedOnce
<1>3. h \in Histograms /\ Count(h) = Count(t.latency) + (IF o \in Timed THEN 1 ELSE 0)
  <2>1. Count(t.latency) \in Nat
    BY <1>1, CountIsNatural
  <2> QED  BY <1>1, <2>1, RecordCounts
<1>4. /\ a.attempted = t.attempted + 1 /\ a.opened = t.opened
      /\ a.errors = Counted(t.errors, o) /\ a.latency = h
  BY DEF AddExchange, Tallies
<1>5. a \in Tallies
  <2> HIDE DEF h
  <2>1. a = [t EXCEPT !.attempted = t.attempted + 1, !.errors = Counted(t.errors, o),
                      !.latency = h]
    BY DEF AddExchange, Tallies, h
  <2>2. t.attempted + 1 \in Nat
    BY <1>1
  <2> HIDE DEF a
  <2> QED  BY <1>1, <1>2, <1>3, <2>1, <2>2, TallyRewritten
<1>6. Count(t.latency) \in Nat /\ Untimed(t.errors) \in Nat
  BY <1>1, CountIsNatural, UntimedNat
<1> HIDE DEF a, h
<1>7. Balanced(t) => Balanced(a)
  <2>1. CASE o \in Timed
    BY <2>1, <1>1, <1>2, <1>3, <1>4, <1>6 DEF Balanced
  <2>2. CASE o \notin Timed
    BY <2>2, <1>1, <1>2, <1>3, <1>4, <1>6 DEF Balanced
  <2> QED  BY <2>1, <2>2
<1> QED
  BY <1>4, <1>5, <1>7 DEF a, h

LEMMA MergeBalances ==
  ASSUME NEW r \in Tallies, NEW t \in Tallies
  PROVE  LET m == Merge(r, t)
         IN  /\ m \in Tallies /\ (Balanced(r) /\ Balanced(t) => Balanced(m))
             /\ m.attempted = r.attempted + t.attempted
             /\ \A v \in Samples : m.latency[v] = r.latency[v] + t.latency[v]
<1> DEFINE m == Merge(r, t)
           e == Added(r.errors, t.errors)
           h == MergedInto(r.latency, t.latency)
<1>1. /\ t.errors \in [ErrorKinds -> Nat] /\ t.latency \in Histograms
      /\ t.attempted \in Nat /\ t.opened \in Nat
      /\ r.errors \in [ErrorKinds -> Nat] /\ r.latency \in Histograms
      /\ r.attempted \in Nat /\ r.opened \in Nat
  BY TallyFields
<1>2. e \in [ErrorKinds -> Nat] /\ Untimed(e) = Untimed(r.errors) + Untimed(t.errors)
  BY <1>1, ErrorsAdd
<1>3. /\ h \in Histograms /\ Count(h) = Count(r.latency) + Count(t.latency)
      /\ \A v \in Samples : h[v] = r.latency[v] + t.latency[v]
  BY <1>1, MergeCounts
<1>4. m.attempted = r.attempted + t.attempted /\ m.errors = e /\ m.latency = h
  BY DEF Merge
<1>5. m = [attempted |-> r.attempted + t.attempted, errors |-> e,
           opened |-> r.opened + t.opened, latency |-> h]
  BY DEF Merge
<1>6. /\ Count(r.latency) \in Nat /\ Untimed(r.errors) \in Nat
      /\ Count(t.latency) \in Nat /\ Untimed(t.errors) \in Nat
  BY <1>1, CountIsNatural, UntimedNat
<1> HIDE DEF m, e, h
<1>7. m \in Tallies
  BY <1>1, <1>2, <1>3, <1>5 DEF Tallies
<1>8. Balanced(r) /\ Balanced(t) => Balanced(m)
  BY <1>1, <1>2, <1>3, <1>4, <1>6 DEF Balanced
<1> QED
  BY <1>3, <1>4, <1>7, <1>8 DEF m

-----------------------------------------------------------------------------
(* The series.                                                              *)

(* A second absorbed into the series adds its samples, and only them,       *)
(* whether or not the series had grown to it.                               *)
LEMMA AbsorbAdds ==
  ASSUME NEW s \in Seq(Histograms), NEW second \in Nat, NEW h \in Histograms
  PROVE  /\ Absorb(s, second, h) \in Seq(Histograms)
         /\ \A v \in Samples :
              /\ InSeries(s, v) \in Nat
              /\ InSeries(Absorb(s, second, h), v) = InSeries(s, v) + h[v]
<1> DEFINE n == IF Len(s) > second THEN Len(s) ELSE second + 1
           old(i) == IF i \in DOMAIN s THEN s[i] ELSE EmptyHistogram
           new(i) == IF i = second + 1 THEN h ELSE EmptyHistogram
           a == [i \in 1 .. n |-> MergedInto(old(i), new(i))]
<1>1. /\ Len(s) \in Nat /\ DOMAIN s = 1 .. Len(s) /\ n \in Nat
      /\ Len(s) <= n /\ second + 1 \in 1 .. n
  OBVIOUS
<1>2. \A i \in 1 .. n : old(i) \in Histograms /\ new(i) \in Histograms
  BY EmptyCounts
<1> HIDE DEF n
<1>3. a = Absorb(s, second, h)
  BY DEF Absorb, n
<1>4. a \in [1 .. n -> Histograms]
  <2> HIDE DEF old, new
  <2> QED  BY <1>2, MergeCounts
<1>5. a \in Seq(Histograms)
  <2> HIDE DEF a
  <2> QED  BY <1>1, <1>4
<1>6. ASSUME NEW v \in Samples
      PROVE  /\ InSeries(s, v) \in Nat
             /\ InSeries(a, v) = InSeries(s, v) + h[v]
  <2> DEFINE f == [i \in 1 .. Len(s) |-> s[i][v]]
             o == [i \in 1 .. n |-> old(i)[v]]
             w == [i \in 1 .. n |-> new(i)[v]]
             b == [i \in 1 .. n |-> a[i][v]]
  <2>1. IsFiniteSet(1 .. n) /\ IsFiniteSet(1 .. Len(s)) /\ 1 .. Len(s) \subseteq 1 .. n
    BY <1>1, FS_Interval
  <2>2. \A g \in Histograms : g[v] \in Nat
    BY DEF Histograms
  <2>3. f \in [1 .. Len(s) -> Nat]
    BY <1>1, <2>2
  <2>4. o \in [1 .. n -> Nat] /\ w \in [1 .. n -> Nat] /\ b \in [1 .. n -> Nat]
    <3> HIDE DEF old, new, a
    <3> QED  BY <1>2, <1>4, <2>2
  <2>5. \A i \in 1 .. n : b[i] = o[i] + w[i]
    <3>1. \A i \in 1 .. n : a[i][v] = old(i)[v] + new(i)[v]
      <4> HIDE DEF old, new
      <4> QED  BY <1>2, MergeCounts
    <3> HIDE DEF old, new, a
    <3> QED  BY <3>1
  <2>6. /\ \A i \in 1 .. Len(s) : f[i] = o[i]
        /\ \A i \in (1 .. n) \ (1 .. Len(s)) : o[i] = 0
    BY <1>1, <2>1, EmptyCounts
  <2>7. /\ w[second + 1] = h[v]
        /\ \A i \in (1 .. n) \ {second + 1} : w[i] = 0
    BY <1>1, EmptyCounts
  <2>8. InSeries(s, v) = Sum(f)
    BY <1>1 DEF InSeries
  <2>9. InSeries(a, v) = Sum(b)
    <3>1. DOMAIN a = 1 .. n
      OBVIOUS
    <3> HIDE DEF a
    <3> QED  BY <3>1 DEF InSeries
  <2> HIDE DEF f, o, w, b, a, old, new
  <2>10. Sum(o) = Sum(f)
    <3> DEFINE S == 1 .. Len(s)
               T == 1 .. n
    <3>1. /\ IsFiniteSet(T) /\ S \subseteq T /\ f \in [S -> Nat] /\ o \in [T -> Nat]
          /\ \A i \in S : f[i] = o[i]
          /\ \A i \in T \ S : o[i] = 0
      BY <2>1, <2>3, <2>4, <2>6
    <3> HIDE DEF S, T
    <3> QED  BY <3>1, SumOfAWiderDomain, SMTT(60)
  <2>11. Sum(w) = h[v]
    BY <1>1, <2>1, <2>4, <2>7, SumOfOne, ZenonT(60)
  <2>12. Sum(b) = Sum(o) + Sum(w)
    <3> DEFINE T == 1 .. n
    <3>1. /\ IsFiniteSet(T) /\ o \in [T -> Nat] /\ w \in [T -> Nat] /\ b \in [T -> Nat]
          /\ \A i \in T : b[i] = o[i] + w[i]
      BY <2>1, <2>4, <2>5
    <3> HIDE DEF T
    <3> QED  BY <3>1, SumOfBoth
  <2>13. Sum(f) \in Nat
    BY <2>1, <2>3, SumIsNatural
  <2> QED
    BY <2>8, <2>9, <2>10, <2>11, <2>12, <2>13
<1> HIDE DEF a
<1> QED
  BY <1>3, <1>5, <1>6

(* When the histogram of one worker changes, the total changes by as much.  *)
LEMMA TotalMoves ==
  ASSUME NEW f \in [Workers -> Histograms], NEW g \in [Workers -> Histograms],
         NEW w \in Workers, \A u \in Workers \ {w} : g[u] = f[u], NEW v \in Samples
  PROVE  /\ Total(f, v) \in Nat /\ Total(g, v) \in Nat
         /\ f[w][v] \in Nat /\ g[w][v] \in Nat
         /\ Total(g, v) + f[w][v] = Total(f, v) + g[w][v]
<1> DEFINE F == [u \in Workers |-> f[u][v]]
           G == [u \in Workers |-> g[u][v]]
<1>1. F \in [Workers -> Nat] /\ G \in [Workers -> Nat]
  BY DEF Histograms
<1>2. \A u \in Workers \ {w} : G[u] = F[u]
  OBVIOUS
<1>3. F[w] = f[w][v] /\ G[w] = g[w][v]
  OBVIOUS
<1>4. Total(f, v) = Sum(F) /\ Total(g, v) = Sum(G)
  BY DEF Total, Sum
<1> HIDE DEF F, G
<1>5. Sum(G) + F[w] = Sum(F) + G[w]
  BY <1>1, <1>2, SamplesFinite, SumOfTheRest, ZenonT(60)
<1>6. Sum(F) \in Nat /\ Sum(G) \in Nat
  BY <1>1, SamplesFinite, SumIsNatural
<1> QED
  BY <1>1, <1>3, <1>4, <1>5, <1>6

-----------------------------------------------------------------------------
(* Types.                                                                   *)

LEMMA SecondNat == \A t \in Nat : SecondOf(t) \in Nat
<1> SUFFICES ASSUME NEW t \in Nat PROVE SecondOf(t) \in Nat
  OBVIOUS
<1>1. CASE t <= Warmup
  BY <1>1 DEF SecondOf
<1>2. CASE ~ (t <= Warmup)
  <2>1. t - Warmup \in Nat /\ SecondTicks \in Nat \ {0}
    BY <1>2, PlanAssumption, BoundsAssumption
  <2>2. (t - Warmup) \div SecondTicks \in Nat
    BY <2>1
  <2> QED  BY <1>2, <2>2 DEF SecondOf
<1> QED  BY <1>1, <1>2

(* What a step of a worker does to its tally.                               *)
LEMMA TallyMoves ==
  ASSUME IType, NEW w \in Workers, WorkerStep(w)
  PROVE  /\ tally' \in [Workers -> Tallies]
         /\ \A u \in Workers \ {w} : tally'[u] = tally[u]
         /\ Balanced(tally[w]) => Balanced(tally'[w])
         /\ tally'[w].attempted > tally[w].attempted => Measuring(w)
         /\ ~ AccountTurn(w) => tally'[w].latency = tally[w].latency
<1>0. tally \in [Workers -> Tallies] /\ tally[w] \in Tallies
  BY DEF IType, Types
<1>1. CASE StartTurn(w) \/ Unpause(w) \/ Begin(w) \/ Finish(w)
  <2>1. tally' = tally
    BY <1>1 DEF StartTurn, Unpause, Begin, Finish, FinishAs
  <2>2. tally[w].attempted \in Nat
    BY <1>0, TallyFields
  <2> QED  BY <1>0, <2>1, <2>2
<1>2. CASE Connected(w)
  <2> DEFINE a == [tally[w] EXCEPT !.opened = @ + 1]
  <2>1. tally' = [tally EXCEPT ![w] = a]
    BY <1>0, <1>2 DEF Connected
  <2>2. /\ a \in Tallies /\ (Balanced(tally[w]) => Balanced(a))
        /\ a.attempted = tally[w].attempted /\ a.latency = tally[w].latency
    BY <1>0, OpenedBalances
  <2>3. tally[w].attempted \in Nat
    BY <1>0, TallyFields
  <2> HIDE DEF a
  <2> QED  BY <1>0, <2>1, <2>2, <2>3
<1>3. CASE ConnectFails(w)
  <2> DEFINE a == AddConnectFailure(tally[w])
  <2>1. /\ a \in Tallies /\ (Balanced(tally[w]) => Balanced(a))
        /\ a.attempted = tally[w].attempted + 1 /\ a.latency = tally[w].latency
    BY <1>0, ConnectFailureBalances
  <2>2. tally[w].attempted \in Nat
    BY <1>0, TallyFields
  <2>3. tally' = IF Measuring(w) THEN [tally EXCEPT ![w] = a] ELSE tally
    BY <1>3 DEF ConnectFails, At
  <2> HIDE DEF a
  <2>4. CASE Measuring(w)
    BY <1>0, <2>1, <2>2, <2>3, <2>4
  <2>5. CASE ~ Measuring(w)
    BY <1>0, <2>2, <2>3, <2>5
  <2> QED  BY <2>4, <2>5
<1>4. CASE AccountTurn(w)
  <2> DEFINE o == result[w].outcome
             e == result[w].elapsed
             a == AddExchange(tally[w], o, e)
  <2>1. o \in AllOutcomes /\ e \in Samples
    BY <1>4 DEF AccountTurn, IType, Types, HasResult
  <2>2. /\ a \in Tallies /\ (Balanced(tally[w]) => Balanced(a))
        /\ a.attempted = tally[w].attempted + 1
    <3> HIDE DEF o, e
    <3> QED  BY <1>0, <2>1, ExchangeBalances
  <2>3. tally[w].attempted \in Nat
    BY <1>0, TallyFields
  <2>4. tally' = IF Measuring(w) THEN [tally EXCEPT ![w] = a] ELSE tally
    BY <1>4 DEF AccountTurn, At
  <2> HIDE DEF a
  <2>5. CASE Measuring(w)
    BY <1>0, <1>4, <2>2, <2>3, <2>4, <2>5
  <2>6. CASE ~ Measuring(w)
    BY <1>0, <1>4, <2>3, <2>4, <2>6
  <2> QED  BY <2>5, <2>6
<1> QED
  BY <1>1, <1>2, <1>3, <1>4 DEF WorkerStep

(* A worker that records a sample hands over the second that is complete.   *)
LEMMA WriterTypes ==
  ASSUME IType, NEW w \in Workers, NEW second \in Nat, NEW e \in Samples,
         WriterRecords(w, second, e)
  PROVE  /\ pending' \in [Workers -> Histograms] /\ current' \in [Workers -> Nat]
         /\ seconds' \in Seq(Histograms)
         /\ \A u \in Workers \ {w} : pending'[u] = pending[u]
<1>0. /\ pending \in [Workers -> Histograms] /\ current \in [Workers -> Nat]
      /\ seconds \in Seq(Histograms) /\ pending[w] \in Histograms /\ current[w] \in Nat
  BY DEF IType, Types
<1>1. current' \in [Workers -> Nat]
  BY <1>0 DEF WriterRecords, At
<1>2. /\ Record(EmptyHistogram, e) \in Histograms
      /\ Record(pending[w], e) \in Histograms
      /\ Absorb(seconds, current[w], pending[w]) \in Seq(Histograms)
  BY <1>0, EmptyCounts, RecordCounts, AbsorbAdds
<1> QED
  BY <1>0, <1>1, <1>2 DEF WriterRecords, At

LEMMA TypeInit == Init => IType
<1> SUFFICES ASSUME Init PROVE IType
  OBVIOUS
<1>1. /\ EmptyTally \in Tallies /\ EmptyHistogram \in Histograms
      /\ 0 \in Samples /\ Connections \in Nat /\ <<>> \in Seq(Histograms)
  BY EmptyTallyBalances, EmptyCounts, SamplesFinite, ConnectionsAssumption
<1>2. Types
  BY <1>1 DEF Init, Types, States, NoResult
<1>3. ClocksOrdered /\ HasResult
  BY DEF Init, ClocksOrdered, HasResult
<1> QED BY <1>2, <1>3 DEF IType

LEMMA TypeWorker ==
  ASSUME IType, NEW w \in Workers, WorkerStep(w)
  PROVE  IType'
<1> USE DEF IType, Types, ClocksOrdered, HasResult, Goto, At, States, driverVars,
            writerVars, bounds
<1>0. /\ tally' \in [Workers -> Tallies]
      /\ \A s \in Samples : s \in Nat
  BY TallyMoves, SamplesFinite
<1>1. CASE StartTurn(w)
  <2>1. /\ UNCHANGED <<now, driverVars, sock, result, tally, writerVars>>
        /\ \/ pc' = [pc EXCEPT ![w] = "done"] /\ UNCHANGED <<turn, begun>>
           \/ /\ \/ pc' = [pc EXCEPT ![w] = "connecting"]
                 \/ pc' = [pc EXCEPT ![w] = "ready"]
              /\ turn' = [turn EXCEPT ![w] = now] /\ begun' = [begun EXCEPT ![w] = now]
    BY <1>1 DEF StartTurn
  <2>2. pc' \in [Workers -> States]
    BY <2>1
  <2>4. HasResult'
    <3>1. \A u \in Workers : pc'[u] = "account" => pc[u] = "account"
      BY <2>1
    <3> QED  BY <2>1, <3>1
  <2>6. \/ turn' = turn /\ begun' = begun
        \/ turn' = [turn EXCEPT ![w] = now] /\ begun' = [begun EXCEPT ![w] = now]
    BY <2>1
  <2>7. /\ turn \in [Workers -> Samples] /\ begun \in [Workers -> Samples]
        /\ now \in Samples
    OBVIOUS
  <2>3. turn' \in [Workers -> Samples] /\ begun' \in [Workers -> Samples]
    <3> HIDE DEF IType, Types
    <3> QED  BY <2>6, <2>7
  <2>5. ClocksOrdered'
    <3>1. now' = now /\ now \in Nat
      BY <1>0, <2>1
    <3>2. \A u \in Workers :
            \/ turn'[u] = turn[u] /\ begun'[u] = begun[u]
            \/ turn'[u] = now /\ begun'[u] = now
      <4> HIDE DEF IType, Types
      <4> QED  BY <2>6, <2>7
    <3>3. \A u \in Workers : turn[u] <= begun[u] /\ begun[u] <= now
      OBVIOUS
    <3>4. \A u \in Workers : turn'[u] <= begun'[u] /\ begun'[u] <= now'
      <4> HIDE DEF IType, Types
      <4> QED  BY <3>1, <3>2, <3>3
    <3> QED  BY <3>4
  <2> QED  BY <1>0, <2>1, <2>2, <2>3, <2>4, <2>5
<1>2. CASE Connected(w)
  BY <1>0, <1>2 DEF Connected
<1>3. CASE ConnectFails(w)
  BY <1>0, <1>3 DEF ConnectFails
<1>4. CASE Unpause(w)
  BY <1>0, <1>4 DEF Unpause
<1>5. CASE Begin(w)
  BY <1>0, <1>5 DEF Begin
<1>6. CASE Finish(w)
  <2>1. PICK outcome \in Outcomes : FinishAs(w, outcome)
    BY <1>6 DEF Finish
  <2>2. outcome \in AllOutcomes
    BY OutcomesAssumption
  <2> DEFINE e == IF outcome \in Timed THEN now - begun[w] ELSE 0
  <2>3. e \in Samples
    BY <1>0, HorizonAssumption DEF Samples
  <2> HIDE DEF e
  <2>4. /\ result' = [result EXCEPT ![w] = [outcome |-> outcome, elapsed |-> e]]
        /\ pc' = [pc EXCEPT ![w] = "account"]
        /\ UNCHANGED <<now, driverVars, sock, begun, turn, tally, writerVars>>
    BY <2>1 DEF FinishAs, e
  <2>5. result' \in [Workers -> [outcome : AllOutcomes \cup {"none"}, elapsed : Samples]]
    BY <2>2, <2>3, <2>4
  <2>6. \A u \in Workers : pc'[u] = "account" => result'[u].outcome \in AllOutcomes
    BY <2>2, <2>4
  <2> QED
    BY <1>0, <2>4, <2>5, <2>6
<1>7. CASE AccountTurn(w)
  <2>1. /\ pending' \in [Workers -> Histograms] /\ current' \in [Workers -> Nat]
        /\ seconds' \in Seq(Histograms)
    <3>1. CASE UNCHANGED writerVars
      BY <3>1
    <3>2. CASE WriterRecords(w, SecondOf(now), result[w].elapsed)
      <4>1. result[w].elapsed \in Samples /\ SecondOf(now) \in Nat
        BY <1>0, SecondNat
      <4> QED  BY <3>2, <4>1, WriterTypes
    <3> QED  BY <1>7, <3>1, <3>2 DEF AccountTurn
  <2>2. /\ pc' = [pc EXCEPT ![w] = "top"]
        /\ result' = [result EXCEPT ![w] = NoResult]
        /\ UNCHANGED <<now, driverVars, begun, turn>>
    BY <1>7 DEF AccountTurn
  <2>3. result' \in [Workers -> [outcome : AllOutcomes \cup {"none"}, elapsed : Samples]]
    BY <2>2, SamplesFinite DEF NoResult
  <2> QED
    BY <1>0, <2>1, <2>2, <2>3
<1> QED BY <1>1, <1>2, <1>3, <1>4, <1>5, <1>6, <1>7 DEF WorkerStep

LEMMA TypeDriver ==
  ASSUME IType, DriverStep
  PROVE  IType'
<1> USE DEF IType, Types, ClocksOrdered, HasResult, bounds
<1>1. CASE Spawn
  <2>1. started + 1 \in Workers /\ started' \in 0 .. Connections /\ started \in Nat
    BY <1>1, ConnectionsAssumption DEF Spawn, Workers
  <2>2. pc' = [pc EXCEPT ![started + 1] = "top"]
    BY <1>1 DEF Spawn, Goto
  <2>3. joined' \in 0 .. started' /\ merged' \in 0 .. started'
    BY <1>1, <2>1 DEF Spawn
  <2> QED  BY <1>1, <2>1, <2>2, <2>3 DEF Spawn, States, writerVars
<1>2. CASE SpawnEnds \/ WarmupEnds
  BY <1>2 DEF SpawnEnds, WarmupEnds, writerVars
<1>3. CASE Join
  <2>1. joined' \in 0 .. started
    BY <1>3, ConnectionsAssumption DEF Join
  <2> QED  BY <1>3, <2>1 DEF Join, writerVars
<1>4. CASE MergeWorker
  <2>1. CASE merged < started
    <3>1. merged + 1 \in Workers /\ merged' \in 0 .. started
      BY <1>4, <2>1, ConnectionsAssumption DEF MergeWorker, Workers
    <3>2. run' \in Tallies
      <4>1. run' = Merge(run, tally[merged + 1])
        BY <1>4, <2>1 DEF MergeWorker
      <4> QED  BY <3>1, <4>1, MergeBalances
    <3>3. pending' \in [Workers -> Histograms] /\ seconds' \in Seq(Histograms)
      <4>1. FlushPending(merged + 1)
        BY <1>4, <2>1 DEF MergeWorker
      <4> QED  BY <3>1, <4>1, EmptyCounts, AbsorbAdds DEF FlushPending, At
    <3>4. main' = main /\ UNCHANGED <<now, started, joined, pc, sock, begun, turn, result, tally, current>>
      BY <1>4, <2>1 DEF MergeWorker
    <3> QED  BY <3>1, <3>2, <3>3, <3>4
  <2>2. CASE merged = started
    BY <1>4, <2>2 DEF MergeWorker
  <2> QED  BY <1>4, <2>1, <2>2 DEF MergeWorker
<1> QED  BY <1>1, <1>2, <1>3, <1>4 DEF DriverStep

LEMMA TypeStep == IType /\ [Next]_vars => IType'
<1> SUFFICES ASSUME IType, [Next]_vars PROVE IType'
  OBVIOUS
<1>1. CASE UNCHANGED vars
  BY <1>1 DEF vars, driverVars, writerVars, IType, Types, ClocksOrdered, HasResult
<1>2. CASE Tick
  <2>1. now' = now + 1 /\ now < Horizon
        /\ UNCHANGED <<driverVars, pc, begun, turn, result, tally, writerVars>>
    BY <1>2 DEF Tick
  <2>2. now' \in Samples /\ now \in Nat
    BY <2>1, HorizonAssumption DEF IType, Types, Samples
  <2>3. \A w \in Workers : begun[w] \in Nat
    BY SamplesFinite DEF IType, Types
  <2> QED
    BY <2>1, <2>2, <2>3 DEF driverVars, writerVars, IType, Types, ClocksOrdered, HasResult
<1> QED
  BY <1>1, <1>2, TypeWorker, TypeDriver DEF Next, Returned

(* Every variable holds what it is meant to, the clocks are read in order   *)
(* and a worker accounts only for an exchange it has had (worker.cpp:45-101)*)
THEOREM TypeCorrect == Safety => []IType
<1>1. IType /\ [Next]_vars => IType'
  BY TypeStep
<1> QED BY TypeInit, <1>1, PTL DEF Safety

-----------------------------------------------------------------------------
(* The accounts.                                                            *)

LEMMA BalanceStep ==
  ASSUME IType, AccountsBalance, [Next]_vars
  PROVE  AccountsBalance'
<1> USE DEF AccountsBalance
<1>1. CASE UNCHANGED <<run, tally>>
  BY <1>1 DEF Balanced
<1>2. ASSUME NEW w \in Workers, WorkerStep(w)
      PROVE  AccountsBalance'
  <2>1. run' = run
    BY <1>2 DEF WorkerStep, StartTurn, Connected, ConnectFails, Unpause, Begin,
                Finish, FinishAs, AccountTurn, driverVars
  <2>2. \A u \in Workers : Balanced(tally'[u])
    BY <1>2, TallyMoves
  <2> QED  BY <2>1, <2>2
<1>3. CASE MergeWorker
  <2>1. CASE merged < started
    <3>1. merged + 1 \in Workers /\ run \in Tallies /\ tally[merged + 1] \in Tallies
      BY <2>1, ConnectionsAssumption DEF IType, Types, Workers
    <3>2. run' = Merge(run, tally[merged + 1]) /\ tally' = tally
      <4>1. merged # started
        BY <2>1, ConnectionsAssumption DEF IType, Types
      <4> QED  BY <1>3, <4>1 DEF MergeWorker
    <3>3. Balanced(run')
      BY <3>1, <3>2, MergeBalances
    <3> QED  BY <3>2, <3>3
  <2>2. CASE UNCHANGED <<run, tally>>
    BY <1>1, <2>2
  <2> QED  BY <1>3, <2>1, <2>2 DEF MergeWorker
<1>4. CASE Tick \/ Spawn \/ SpawnEnds \/ WarmupEnds \/ Join \/ UNCHANGED vars
  BY <1>1, <1>4 DEF Tick, Spawn, SpawnEnds, WarmupEnds, Join, vars, driverVars
<1> QED
  BY <1>2, <1>3, <1>4 DEF Next, DriverStep, Returned

(* In every worker and in the run being merged, attempts are timed samples  *)
(* plus errors with nothing to time, at every moment (run_result.hpp:88-95, *)
(* worker.cpp:65-101).                                                      *)
THEOREM AccountsAlwaysBalance == Safety => []AccountsBalance
<1>1. Init => AccountsBalance
  BY EmptyTallyBalances DEF Init, AccountsBalance
<1>2. IType /\ AccountsBalance /\ [Next]_vars => AccountsBalance'
  BY BalanceStep
<1> QED BY <1>1, <1>2, TypeCorrect, PTL DEF Safety

-----------------------------------------------------------------------------
(* The warm-up.                                                             *)

(* Nothing that starts before the end of the warm-up is counted             *)
(* (worker.hpp:65-69).                                                      *)
THEOREM WarmupIsNotCounted == Safety => NothingFromTheWarmup
<1> DEFINE Act == \A w \in Workers :
                    tally'[w].attempted > tally[w].attempted =>
                      begun[w] >= Warmup /\ turn[w] >= Warmup
<1>1. ASSUME IType, [Next]_vars PROVE Act
  <2>0. \A w \in Workers : tally[w].attempted \in Nat
    BY <1>1, TallyFields DEF IType, Types
  <2>1. CASE UNCHANGED tally
    BY <2>0, <2>1
  <2>2. ASSUME NEW w \in Workers, WorkerStep(w) PROVE Act
    <3>1. ASSUME NEW u \in Workers, tally'[u].attempted > tally[u].attempted
          PROVE  begun[u] >= Warmup /\ turn[u] >= Warmup
      <4>1. u = w
        BY <1>1, <2>0, <2>2, <3>1, TallyMoves
      <4>2. turn[w] >= Warmup
        BY <1>1, <2>2, <3>1, <4>1, TallyMoves DEF Measuring
      <4>3. turn[w] \in Nat /\ begun[w] \in Nat /\ turn[w] <= begun[w]
        BY <1>1, SamplesFinite DEF IType, Types, ClocksOrdered
      <4> QED  BY <4>1, <4>2, <4>3, PlanAssumption
    <3> QED  BY <3>1
  <2>3. CASE Tick \/ DriverStep \/ UNCHANGED vars
    <3>1. tally' = tally
      BY <2>3 DEF Tick, DriverStep, Spawn, SpawnEnds, WarmupEnds, Join, MergeWorker, vars
    <3> QED  BY <2>1, <3>1
  <2> QED  BY <1>1, <2>2, <2>3 DEF Next, Returned
<1>2. IType /\ [Next]_vars => [Act]_vars
  BY <1>1
<1> QED BY <1>2, TypeCorrect, PTL DEF Safety, NothingFromTheWarmup

-----------------------------------------------------------------------------
(* The series and the histograms.                                           *)

Latencies == [w \in Workers |-> tally[w].latency]

(* Every sample of length v is pending or in the series.                    *)
SeriesHas(v) == Total(Latencies, v) = Total(pending, v) + InSeries(seconds, v)

LEMMA SeriesIs ==
  /\ SeriesIsTheHistogram <=> (WantSeries => \A v \in Samples : SeriesHas(v))
  /\ SeriesIsTheHistogram' <=> (WantSeries => \A v \in Samples : SeriesHas(v)')
BY DEF SeriesIsTheHistogram, SeriesHas, Latencies, InSeries, Sum

LEMMA LatenciesType ==
  /\ IType => Latencies \in [Workers -> Histograms]
  /\ IType' => Latencies' \in [Workers -> Histograms]
BY TallyFields DEF Latencies, IType, Types

(* A step that changes no histogram leaves the balance alone.               *)
LEMMA SeriesUntouched ==
  ASSUME NEW v \in Samples, SeriesHas(v), UNCHANGED <<pending, seconds>>,
         \A w \in Workers : tally'[w].latency = tally[w].latency
  PROVE  SeriesHas(v)'
<1>1. Latencies' = Latencies
  BY DEF Latencies
<1> QED  BY <1>1 DEF SeriesHas

(* A sample timed goes into the second that is pending, and a complete      *)
(* second into the series.                                                  *)
LEMMA SeriesRecords ==
  ASSUME IType, IType', NEW w \in Workers, WantSeries, AccountTurn(w),
         NEW v \in Samples, SeriesHas(v)
  PROVE  SeriesHas(v)'
<1> DEFINE o == result[w].outcome
           e == result[w].elapsed
<1>1. o \in AllOutcomes /\ e \in Samples
  BY DEF AccountTurn, IType, Types, HasResult
<1>2. /\ tally \in [Workers -> Tallies] /\ tally[w] \in Tallies
      /\ pending \in [Workers -> Histograms] /\ pending[w] \in Histograms
      /\ pending' \in [Workers -> Histograms]
      /\ seconds \in Seq(Histograms) /\ current[w] \in Nat /\ now \in Nat
  BY SamplesFinite DEF IType, Types
<1>3. tally[w].latency \in Histograms
  BY <1>2, TallyFields
<1>4. CASE Measuring(w) /\ o \in Timed
  <2>1. tally' = [tally EXCEPT ![w] = AddExchange(tally[w], o, e)]
    BY <1>4 DEF AccountTurn, At
  <2>2. AddExchange(tally[w], o, e).latency = Record(tally[w].latency, e)
    <3> HIDE DEF o, e
    <3> QED  BY <1>1, <1>2, <1>4, ExchangeBalances
  <2>3. /\ Latencies'[w] = Record(tally[w].latency, e) /\ Latencies[w] = tally[w].latency
        /\ \A u \in Workers \ {w} : Latencies'[u] = Latencies[u]
    <3> HIDE DEF o, e
    <3> QED  BY <1>2, <2>1, <2>2 DEF Latencies
  <2>4. WriterRecords(w, SecondOf(now), e)
    BY <1>4 DEF AccountTurn
  <2>5. \A u \in Workers \ {w} : pending'[u] = pending[u]
    <3> HIDE DEF e
    <3> QED  BY <1>1, <1>2, <2>4, WriterTypes, SecondNat
  <2> DEFINE one == IF v = e THEN 1 ELSE 0
  <2>6. /\ Record(tally[w].latency, e)[v] = tally[w].latency[v] + one
        /\ Record(pending[w], e)[v] = pending[w][v] + one
        /\ Record(EmptyHistogram, e)[v] = one
    <3>1. one \in Nat /\ EmptyHistogram[v] = 0 /\ EmptyHistogram \in Histograms
      BY EmptyCounts
    <3> HIDE DEF e
    <3> QED  BY <1>1, <1>2, <1>3, <3>1, RecordCounts
  <2>7. /\ Total(Latencies, v) \in Nat /\ Total(Latencies', v) \in Nat
        /\ Latencies[w][v] \in Nat /\ Latencies'[w][v] \in Nat
        /\ Total(Latencies', v) + Latencies[w][v] = Total(Latencies, v) + Latencies'[w][v]
    BY <2>3, LatenciesType, TotalMoves
  <2>8. /\ Total(pending, v) \in Nat /\ Total(pending', v) \in Nat
        /\ pending[w][v] \in Nat /\ pending'[w][v] \in Nat
        /\ Total(pending', v) + pending[w][v] = Total(pending, v) + pending'[w][v]
    BY <1>2, <2>5, TotalMoves
  <2>9. InSeries(seconds, v) \in Nat
    BY <1>2, EmptyCounts, AbsorbAdds
  <2>10. Total(Latencies, v) = Total(pending, v) + InSeries(seconds, v)
    BY DEF SeriesHas
  <2>11. one \in Nat
    OBVIOUS
  <2> HIDE DEF one, e, o
  <2>12. Total(Latencies', v) = Total(pending', v) + InSeries(seconds', v)
    <3>1. CASE /\ seconds' = Absorb(seconds, current[w], pending[w])
               /\ pending' = At(pending, w, Record(EmptyHistogram, e))
      <4>1. InSeries(seconds', v) = InSeries(seconds, v) + pending[w][v]
        BY <1>2, <3>1, AbsorbAdds
      <4>2. pending'[w][v] = one
        BY <1>2, <2>6, <3>1 DEF At
      <4> QED
        BY <2>3, <2>6, <2>7, <2>8, <2>9, <2>10, <2>11, <4>1, <4>2
    <3>2. CASE pending' = At(pending, w, Record(pending[w], e)) /\ UNCHANGED seconds
      <4>1. pending'[w][v] = pending[w][v] + one
        BY <1>2, <2>6, <3>2 DEF At
      <4> QED
        BY <2>3, <2>6, <2>7, <2>8, <2>9, <2>10, <2>11, <3>2, <4>1
    <3> QED  BY <2>4, <3>1, <3>2 DEF WriterRecords
  <2> QED  BY <2>12 DEF SeriesHas
<1>5. CASE ~ (Measuring(w) /\ o \in Timed)
  <2>1. UNCHANGED <<pending, seconds>>
    BY <1>5 DEF AccountTurn, writerVars
  <2>2. \A u \in Workers : tally'[u].latency = tally[u].latency
    <3>1. CASE Measuring(w)
      <4>1. AddExchange(tally[w], o, e).latency = tally[w].latency
        <5> HIDE DEF o, e
        <5> QED  BY <1>1, <1>2, <1>5, <3>1, ExchangeBalances
      <4>2. tally' = [tally EXCEPT ![w] = AddExchange(tally[w], o, e)]
        BY <3>1 DEF AccountTurn, At
      <4> HIDE DEF o, e
      <4> QED  BY <1>2, <4>1, <4>2
    <3>2. CASE ~ Measuring(w)
      BY <3>2 DEF AccountTurn
    <3> QED  BY <3>1, <3>2
  <2> QED  BY <2>1, <2>2, SeriesUntouched
<1> QED  BY <1>4, <1>5

(* finish() hands over what is pending, whether or not there is anything.   *)
LEMMA FlushKeepsAll ==
  ASSUME IType, NEW w \in Workers, FlushPending(w), NEW v \in Samples
  PROVE  /\ pending' \in [Workers -> Histograms] /\ pending'[w] = EmptyHistogram
         /\ \A u \in Workers \ {w} : pending'[u] = pending[u]
         /\ InSeries(seconds, v) \in Nat /\ InSeries(seconds', v) \in Nat
         /\ Total(pending', v) + InSeries(seconds', v)
              = Total(pending, v) + InSeries(seconds, v)
<1>1. /\ pending \in [Workers -> Histograms] /\ pending[w] \in Histograms
      /\ seconds \in Seq(Histograms) /\ current[w] \in Nat
  BY DEF IType, Types
<1>2. EmptyHistogram \in Histograms /\ EmptyHistogram[v] = 0
  BY EmptyCounts
<1>3. pending' = [pending EXCEPT ![w] = EmptyHistogram]
  BY DEF FlushPending, At
<1>4. /\ pending' \in [Workers -> Histograms] /\ pending'[w] = EmptyHistogram
      /\ \A u \in Workers \ {w} : pending'[u] = pending[u]
  BY <1>1, <1>2, <1>3
<1>5. /\ Total(pending, v) \in Nat /\ Total(pending', v) \in Nat
      /\ pending[w][v] \in Nat
      /\ Total(pending', v) + pending[w][v] = Total(pending, v) + pending'[w][v]
  BY <1>1, <1>4, TotalMoves
<1>6. InSeries(seconds, v) \in Nat
  BY <1>1, AbsorbAdds
<1>7. InSeries(seconds', v) = InSeries(seconds, v) + pending[w][v]
  <2>1. CASE Count(pending[w]) > 0
    <3>1. seconds' = Absorb(seconds, current[w], pending[w])
      BY <2>1 DEF FlushPending
    <3> QED  BY <1>1, <3>1, AbsorbAdds
  <2>2. CASE ~ (Count(pending[w]) > 0)
    <3>1. seconds' = seconds
      BY <2>2 DEF FlushPending
    <3>2. Sum(pending[w]) = 0
      BY <1>1, <2>2, CountIsNatural
    <3>3. pending[w][v] <= Sum(pending[w])
      BY <1>1, SamplesFinite, SumBoundsTerms DEF Histograms
    <3> QED  BY <1>5, <1>6, <3>1, <3>2, <3>3
  <2> QED  BY <2>1, <2>2
<1> QED  BY <1>2, <1>4, <1>5, <1>6, <1>7

LEMMA SeriesStep ==
  ASSUME IType, IType', [Next]_vars, WantSeries, NEW v \in Samples, SeriesHas(v)
  PROVE  SeriesHas(v)'
<1>1. CASE Tick \/ Spawn \/ SpawnEnds \/ WarmupEnds \/ Join \/ UNCHANGED vars
  <2>1. UNCHANGED <<pending, seconds, tally>>
    BY <1>1 DEF Tick, Spawn, SpawnEnds, WarmupEnds, Join, vars, writerVars
  <2> QED  BY <2>1, SeriesUntouched
<1>2. ASSUME NEW w \in Workers, WorkerStep(w), ~ AccountTurn(w) PROVE SeriesHas(v)'
  <2>1. UNCHANGED <<pending, seconds>>
    BY <1>2 DEF WorkerStep, StartTurn, Connected, ConnectFails, Unpause, Begin,
                Finish, FinishAs, writerVars
  <2>2. \A u \in Workers : tally'[u].latency = tally[u].latency
    BY <1>2, TallyMoves
  <2> QED  BY <2>1, <2>2, SeriesUntouched
<1>3. CASE MergeWorker
  <2>1. CASE merged < started
    <3>1. merged + 1 \in Workers /\ merged # started
      BY <2>1, ConnectionsAssumption DEF IType, Types, Workers
    <3>2. FlushPending(merged + 1) /\ tally' = tally
      BY <1>3, <3>1 DEF MergeWorker
    <3>3. Latencies' = Latencies
      BY <3>2 DEF Latencies
    <3>4. Total(pending', v) + InSeries(seconds', v) = Total(pending, v) + InSeries(seconds, v)
      BY <3>1, <3>2, FlushKeepsAll
    <3> QED  BY <3>3, <3>4 DEF SeriesHas
  <2>2. CASE UNCHANGED <<pending, seconds, tally>>
    BY <2>2, SeriesUntouched
  <2> QED  BY <1>3, <2>1, <2>2 DEF MergeWorker
<1> QED
  BY <1>1, <1>2, <1>3, SeriesRecords DEF Next, DriverStep, WorkerStep, Returned

LEMMA SeriesInit == Init => SeriesIsTheHistogram
<1> SUFFICES ASSUME Init, NEW v \in Samples PROVE SeriesHas(v)
  BY SeriesIs
<1> DEFINE F == [w \in Workers |-> Latencies[w][v]]
           G == [w \in Workers |-> pending[w][v]]
<1>1. \A w \in Workers : Latencies[w] = EmptyHistogram /\ pending[w] = EmptyHistogram
  BY EmptyTallyBalances DEF Init, Latencies
<1>2. F \in [Workers -> Nat] /\ G \in [Workers -> Nat]
  BY <1>1, EmptyCounts
<1>3. \A w \in Workers : F[w] = 0 /\ G[w] = 0
  BY <1>1, EmptyCounts
<1>4. Total(Latencies, v) = Sum(F) /\ Total(pending, v) = Sum(G)
  BY DEF Total, Sum
<1> DEFINE E == [i \in DOMAIN seconds |-> seconds[i][v]]
<1>5. E \in [{} -> Nat] /\ InSeries(seconds, v) = Sum(E)
  BY DEF Init, InSeries
<1>6. \A i \in {} : E[i] = 0
  OBVIOUS
<1> HIDE DEF F, G, E
<1>7. Sum(F) = 0 /\ Sum(G) = 0
  BY <1>2, <1>3, SamplesFinite, SumOfZeros
<1>8. Sum(E) = 0
  BY <1>5, <1>6, SumOfZeros, FS_EmptySet
<1> QED  BY <1>4, <1>5, <1>7, <1>8 DEF SeriesHas

(* The per-second view and the run-wide view hold the same samples at every *)
(* moment: a sample that a worker has timed is pending or in the series,    *)
(* once, whatever seconds the workers flush and in whatever order           *)
(* (worker.cpp:67-74, timeseries.hpp:36-54).                                *)
THEOREM SeriesIsAlwaysTheHistogram == Safety => []SeriesIsTheHistogram
<1>1. IType /\ IType' /\ SeriesIsTheHistogram /\ [Next]_vars => SeriesIsTheHistogram'
  BY SeriesStep, SeriesIs
<1> QED BY SeriesInit, <1>1, TypeCorrect, PTL DEF Safety

-----------------------------------------------------------------------------
(* The end of a run.                                                        *)

(* A worker that takes a step runs, and leaves what is the others' alone.   *)
LEMMA WorkerFrame ==
  ASSUME IType, NEW w \in Workers, WorkerStep(w)
  PROVE  /\ UNCHANGED driverVars
         /\ pc[w] \notin {"unborn", "done"}
         /\ \A u \in Workers \ {w} :
              pc'[u] = pc[u] /\ pending'[u] = pending[u] /\ tally'[u] = tally[u]
<1>1. UNCHANGED driverVars /\ pc[w] \notin {"unborn", "done"}
  BY DEF WorkerStep, StartTurn, Connected, ConnectFails, Unpause, Begin, Finish,
         FinishAs, AccountTurn
<1>2. \A u \in Workers \ {w} : pc'[u] = pc[u]
  <2>1. \E label \in States : pc' = [pc EXCEPT ![w] = label]
    BY DEF WorkerStep, StartTurn, Connected, ConnectFails, Unpause, Begin, Finish,
           FinishAs, AccountTurn, Goto, States
  <2> QED  BY <2>1 DEF IType, Types
<1>3. \A u \in Workers \ {w} : pending'[u] = pending[u]
  <2>1. CASE pending' = pending
    BY <2>1
  <2>2. CASE WriterRecords(w, SecondOf(now), result[w].elapsed)
    <3>1. result[w].elapsed \in Samples /\ SecondOf(now) \in Nat
      BY SecondNat, SamplesFinite DEF IType, Types
    <3> QED  BY <2>2, <3>1, WriterTypes
  <2> QED
    BY <2>1, <2>2 DEF WorkerStep, StartTurn, Connected, ConnectFails, Unpause,
           Begin, Finish, FinishAs, AccountTurn, writerVars
<1>4. \A u \in Workers \ {w} : tally'[u] = tally[u]
  BY TallyMoves
<1> QED  BY <1>1, <1>2, <1>3, <1>4

LEMMA PhaseBounds ==
  ASSUME IType, Phases
  PROVE  /\ merged \in Nat /\ joined \in Nat /\ started \in Nat /\ Connections \in Nat
         /\ merged <= joined /\ joined <= started /\ started <= Connections
BY ConnectionsAssumption DEF IType, Types, Phases

LEMMA PhasesWorker ==
  ASSUME IType, Phases, NEW w \in Workers, WorkerStep(w)
  PROVE  Phases'
<1>1. /\ main' = main /\ started' = started /\ joined' = joined /\ merged' = merged
      /\ pc[w] \notin {"unborn", "done"}
      /\ \A u \in Workers \ {w} :
           pc'[u] = pc[u] /\ pending'[u] = pending[u] /\ tally'[u] = tally[u]
  BY WorkerFrame DEF driverVars
<1>2. ~ (w <= joined) /\ ~ (w <= merged) /\ ~ (w > started)
  <2>1. ~ (w <= joined) /\ ~ (w > started)
    BY <1>1 DEF Phases
  <2> QED  BY <2>1, PhaseBounds, SamplesFinite
<1> QED  BY <1>1, <1>2 DEF Phases

LEMMA PhasesDriver ==
  ASSUME IType, Phases, DriverStep
  PROVE  Phases'
<1>0. /\ merged \in Nat /\ joined \in Nat /\ started \in Nat
      /\ merged <= joined /\ joined <= started /\ started <= Connections
      /\ Workers \subseteq Nat
  BY PhaseBounds, SamplesFinite
<1>1. CASE Spawn
  <2>1. /\ main = "spawn" /\ main' = main /\ started' = started + 1
        /\ UNCHANGED <<joined, merged, pending, tally>>
        /\ pc' = [pc EXCEPT ![started + 1] = "top"]
    BY <1>1 DEF Spawn, Goto, writerVars
  <2>2. merged = 0 /\ joined = 0
    BY <2>1 DEF Phases
  <2>3. \A u \in Workers : u > started' => u > started /\ pc'[u] = pc[u]
    BY <1>0, <2>1 DEF IType, Types
  <2>4. \A u \in Workers : ~ (u <= 0)
    BY DEF Workers
  <2> QED  BY <2>1, <2>2, <2>3, <2>4 DEF Phases
<1>2. CASE SpawnEnds \/ WarmupEnds
  BY <1>2 DEF SpawnEnds, WarmupEnds, writerVars, Phases
<1>3. CASE Join
  <2>1. /\ main = "join" /\ UNCHANGED <<started, merged, pc, tally, pending>>
        /\ \/ joined < started /\ pc[joined + 1] = "done" /\ joined' = joined + 1 /\ main' = main
           \/ joined = started /\ main' = "merge" /\ joined' = joined
    BY <1>3 DEF Join, writerVars
  <2>2. \A u \in Workers : u <= joined' => pc[u] = "done"
    BY <1>0, <2>1 DEF Phases
  <2> QED  BY <2>1, <2>2 DEF Phases
<1>4. CASE MergeWorker
  <2>1. /\ main = "merge" /\ UNCHANGED <<started, joined, pc, tally>>
        /\ joined = started
    BY <1>4 DEF MergeWorker, Phases
  <2>2. CASE merged < started
    <3>1. merged + 1 \in Workers /\ merged # started
      BY <1>0, <2>2, ConnectionsAssumption DEF Workers
    <3>2. FlushPending(merged + 1) /\ merged' = merged + 1 /\ main' = main
      BY <1>4, <3>1 DEF MergeWorker
    <3>3. /\ pending'[merged + 1] = EmptyHistogram
          /\ \A u \in Workers \ {merged + 1} : pending'[u] = pending[u]
      BY <3>1, <3>2, FlushKeepsAll, SamplesFinite
    <3>4. \A u \in Workers : u <= merged' => u <= merged \/ u = merged + 1
      BY <1>0, <3>2
    <3>5. \A u \in Workers : u > started => u # merged + 1
      BY <1>0, <2>2
    <3> QED  BY <2>1, <3>2, <3>3, <3>4, <3>5 DEF Phases
  <2>3. CASE merged = started
    <3>1. main' = "done" /\ UNCHANGED <<merged, pending>>
      BY <1>0, <1>4, <2>3 DEF MergeWorker
    <3> QED  BY <2>1, <2>3, <3>1 DEF Phases
  <2> QED  BY <1>4, <2>2, <2>3 DEF MergeWorker
<1> QED  BY <1>1, <1>2, <1>3, <1>4 DEF DriverStep

LEMMA PhasesStep == IType /\ Phases /\ [Next]_vars => Phases'
<1> SUFFICES ASSUME IType, Phases, [Next]_vars PROVE Phases'
  OBVIOUS
<1>1. CASE Tick \/ UNCHANGED vars
  BY <1>1 DEF Tick, vars, driverVars, writerVars, Phases
<1> QED  BY <1>1, PhasesWorker, PhasesDriver DEF Next, Returned

LEMMA PhasesInit == Init => Phases
<1> SUFFICES ASSUME Init PROVE Phases
  OBVIOUS
<1>1. \A u \in Workers : ~ (u <= 0)
  BY DEF Workers
<1> QED  BY <1>1 DEF Init, Phases

(* A step that merges nothing changes only tallies that are yet to be       *)
(* merged.                                                                  *)
LEMMA MergedUntouched ==
  ASSUME RunIsTheMerged, run' = run, merged' = merged,
         \A u \in Workers : u <= merged => tally'[u] = tally[u]
  PROVE  RunIsTheMerged'
<1>1. MergedAttempts' = MergedAttempts
  <2>1. [u \in Workers |-> IF u <= merged' THEN tally'[u].attempted ELSE 0]
          = [u \in Workers |-> IF u <= merged THEN tally[u].attempted ELSE 0]
    OBVIOUS
  <2> QED  BY <2>1 DEF MergedAttempts
<1>2. ASSUME NEW v \in Samples PROVE MergedSamples(v)' = MergedSamples(v)
  <2>1. [u \in Workers |-> IF u <= merged' THEN tally'[u].latency[v] ELSE 0]
          = [u \in Workers |-> IF u <= merged THEN tally[u].latency[v] ELSE 0]
    OBVIOUS
  <2> QED  BY <2>1 DEF MergedSamples
<1> QED  BY <1>1, <1>2 DEF RunIsTheMerged

\* What is merged so far, before and after the next worker.
LEMMA MergedSum ==
  ASSUME NEW f \in [Workers -> Nat], NEW m \in Nat, m + 1 \in Workers
  PROVE  /\ Sum([w \in Workers |-> IF w <= m THEN f[w] ELSE 0]) \in Nat
         /\ Sum([w \in Workers |-> IF w <= m + 1 THEN f[w] ELSE 0])
              = Sum([w \in Workers |-> IF w <= m THEN f[w] ELSE 0]) + f[m + 1]
<1>1. Workers \subseteq Nat /\ IsFiniteSet(Workers)
  BY SamplesFinite
<1> QED  BY <1>1, SumUpToNext

LEMMA MergedStep ==
  ASSUME IType, Phases, RunIsTheMerged, [Next]_vars
  PROVE  RunIsTheMerged'
<1>1. CASE Tick \/ Spawn \/ SpawnEnds \/ WarmupEnds \/ Join \/ UNCHANGED vars
  <2>1. UNCHANGED <<run, merged, tally>>
    BY <1>1 DEF Tick, Spawn, SpawnEnds, WarmupEnds, Join, vars, driverVars
  <2> QED  BY <2>1, MergedUntouched
<1>2. ASSUME NEW w \in Workers, WorkerStep(w) PROVE RunIsTheMerged'
  <2>1. /\ run' = run /\ merged' = merged /\ pc[w] # "done"
        /\ \A u \in Workers \ {w} : tally'[u] = tally[u]
    BY <1>2, WorkerFrame DEF driverVars
  <2>2. ~ (w <= merged)
    <3>1. ~ (w <= joined)
      BY <2>1 DEF Phases
    <3> QED  BY <3>1, PhaseBounds, SamplesFinite
  <2> QED  BY <2>1, <2>2, MergedUntouched
<1>3. CASE MergeWorker
  <2>1. CASE merged < started
    <3>1. /\ merged + 1 \in Workers /\ merged # started /\ merged \in Nat
          /\ tally \in [Workers -> Tallies] /\ run \in Tallies
      BY <2>1, PhaseBounds DEF IType, Types, Workers
    <3>2. run' = Merge(run, tally[merged + 1]) /\ merged' = merged + 1 /\ tally' = tally
      BY <1>3, <3>1 DEF MergeWorker
    <3>3. /\ run'.attempted = run.attempted + tally[merged + 1].attempted
          /\ \A v \in Samples :
               run'.latency[v] = run.latency[v] + tally[merged + 1].latency[v]
      BY <3>1, <3>2, MergeBalances
    <3>4. MergedAttempts' = MergedAttempts + tally[merged + 1].attempted
      <4> DEFINE f == [u \in Workers |-> tally[u].attempted]
      <4>1. f \in [Workers -> Nat] /\ f[merged + 1] = tally[merged + 1].attempted
        BY <3>1, TallyFields
      <4>2. /\ MergedAttempts = Sum([u \in Workers |-> IF u <= merged THEN f[u] ELSE 0])
            /\ MergedAttempts' = Sum([u \in Workers |-> IF u <= merged + 1 THEN f[u] ELSE 0])
        BY <3>2 DEF MergedAttempts
      <4> HIDE DEF f
      <4> QED  BY <3>1, <4>1, <4>2, MergedSum
    <3>5. ASSUME NEW v \in Samples
          PROVE  MergedSamples(v)' = MergedSamples(v) + tally[merged + 1].latency[v]
      <4> DEFINE f == [u \in Workers |-> tally[u].latency[v]]
      <4>1. f \in [Workers -> Nat] /\ f[merged + 1] = tally[merged + 1].latency[v]
        BY <3>1, TallyFields DEF Histograms
      <4>2. /\ MergedSamples(v) = Sum([u \in Workers |-> IF u <= merged THEN f[u] ELSE 0])
            /\ MergedSamples(v)' = Sum([u \in Workers |-> IF u <= merged + 1 THEN f[u] ELSE 0])
        BY <3>2 DEF MergedSamples
      <4> HIDE DEF f
      <4> QED  BY <3>1, <4>1, <4>2, MergedSum
    <3> QED  BY <3>3, <3>4, <3>5 DEF RunIsTheMerged
  <2>2. CASE UNCHANGED <<run, merged, tally>>
    BY <2>2, MergedUntouched
  <2> QED  BY <1>3, <2>1, <2>2 DEF MergeWorker
<1> QED  BY <1>1, <1>2, <1>3 DEF Next, DriverStep, Returned

LEMMA MergedInit == Init => RunIsTheMerged
<1> SUFFICES ASSUME Init PROVE RunIsTheMerged
  OBVIOUS
<1> DEFINE Z == [w \in Workers |-> 0]
<1>1. \A w \in Workers : ~ (w <= merged)
  BY DEF Workers, Init
<1>2. MergedAttempts = Sum(Z) /\ \A v \in Samples : MergedSamples(v) = Sum(Z)
  BY <1>1 DEF MergedAttempts, MergedSamples
<1>3. Z \in [Workers -> Nat] /\ \A w \in Workers : Z[w] = 0
  OBVIOUS
<1> HIDE DEF Z
<1>4. Sum(Z) = 0
  BY <1>3, SamplesFinite, SumOfZeros
<1>5. run = EmptyTally
  BY DEF Init
<1> QED  BY <1>2, <1>4, <1>5, EmptyTallyBalances, EmptyCounts DEF RunIsTheMerged

(* The driver merges workers that are done, in turn, and what it has merged *)
(* is what they counted (closed_loop.cpp:62-76).                            *)
THEOREM RunIsAlwaysTheMerged == Safety => [](Phases /\ RunIsTheMerged)
<1>1. IType /\ Phases /\ RunIsTheMerged /\ [Next]_vars => Phases' /\ RunIsTheMerged'
  BY PhasesStep, MergedStep
<1> QED BY PhasesInit, MergedInit, <1>1, TypeCorrect, PTL DEF Safety

(* At the end every worker has been merged, and those that were not started *)
(* have nothing.                                                            *)
LEMMA EndIsWhole ==
  ASSUME IType, Phases, RunIsTheMerged, SeriesIsTheHistogram
  PROVE  NothingIsLeftBehind
<1> SUFFICES ASSUME main = "done" PROVE NothingIsLeftBehind
  BY DEF NothingIsLeftBehind
<1>0. /\ merged = started /\ joined = started /\ started \in Nat
      /\ Workers \subseteq Nat
  BY PhaseBounds, SamplesFinite DEF Phases
<1>1. \A w \in Workers : pc[w] \in {"unborn", "done"}
  BY <1>0 DEF Phases
<1>2. ASSUME NEW w \in Workers, ~ (w <= merged)
      PROVE  tally[w].attempted = 0 /\ tally[w].latency = EmptyHistogram
  BY <1>0, <1>2, EmptyTallyBalances DEF Phases
<1>3. run.attempted = FoldFunction(+, 0, [w \in Workers |-> tally[w].attempted])
  <2>1. [w \in Workers |-> IF w <= merged THEN tally[w].attempted ELSE 0]
          = [w \in Workers |-> tally[w].attempted]
    BY <1>2
  <2> QED  BY <2>1 DEF RunIsTheMerged, MergedAttempts, Sum
<1>4. ASSUME WantSeries, NEW v \in Samples
      PROVE  run.latency[v] = InSeries(seconds, v)
  <2>1. [w \in Workers |-> IF w <= merged THEN tally[w].latency[v] ELSE 0]
          = [w \in Workers |-> Latencies[w][v]]
    BY <1>2, EmptyCounts DEF Latencies
  <2>2. run.latency[v] = Total(Latencies, v)
    BY <2>1 DEF RunIsTheMerged, MergedSamples, Total, Sum
  <2>3. Total(Latencies, v) = Total(pending, v) + InSeries(seconds, v)
    BY <1>4, SeriesIs DEF SeriesHas
  <2>4. \A w \in Workers : pending[w] = EmptyHistogram
    BY <1>0 DEF Phases
  <2> DEFINE P == [w \in Workers |-> pending[w][v]]
  <2>5. P \in [Workers -> Nat] /\ \A w \in Workers : P[w] = 0
    BY <2>4, EmptyCounts
  <2>6. Total(pending, v) = Sum(P)
    BY DEF Total, Sum
  <2> HIDE DEF P
  <2>7. Sum(P) = 0
    BY <2>5, SamplesFinite, SumOfZeros
  <2>8. InSeries(seconds, v) \in Nat
    BY EmptyCounts, AbsorbAdds DEF IType, Types
  <2> QED  BY <2>2, <2>3, <2>6, <2>7, <2>8
<1> QED  BY <1>1, <1>3, <1>4 DEF NothingIsLeftBehind, InSeries, Sum

(* The run that is returned holds everything its workers counted, whatever  *)
(* threads could be started, and its series holds every sample, the last    *)
(* partial second included (closed_loop.cpp:66-76, worker.cpp:109-115).     *)
THEOREM NothingIsEverLeftBehind == Safety => []NothingIsLeftBehind
<1>1. IType /\ Phases /\ RunIsTheMerged /\ SeriesIsTheHistogram => NothingIsLeftBehind
  BY EndIsWhole
<1> QED BY <1>1, TypeCorrect, RunIsAlwaysTheMerged, SeriesIsAlwaysTheHistogram, PTL

=============================================================================
