----------------------------- MODULE ClosedLoop -----------------------------
(***************************************************************************)
(* The closed-loop runner: run_closed_loop (src/load/closed_loop.cpp),     *)
(* ConnectionWorker (src/load/worker.cpp) and the per-second series its    *)
(* workers write (src/stats/timeseries.hpp).                               *)
(*                                                                         *)
(* A worker sends, waits for the reply and sends again until the deadline. *)
(* It counts for itself; the one thing the workers share while they run is *)
(* the series, into which each merges a second's samples under a lock when *)
(* it meets the next second.  The driver joins them, flushes what each has *)
(* left and merges their counts.                                           *)
(*                                                                         *)
(* Time is in ticks, and every reading of the clock is a step of its own.  *)
(***************************************************************************)
EXTENDS Accounts, Sequences, FiniteSets, Functions

CONSTANTS
  Connections, Warmup, Duration,
  ConnectTimeout, IoTimeout, MaxReply, ReconnectDelay,   \* as in OpenLoop
  Outcomes, SetTimeoutsMayFail,
  SecondTicks,         \* ticks in one second of the series
  WantSeries,          \* --timeseries
  MaxTurns,            \* bound: turns a worker takes
  MaxStalls,           \* bound: ticks that pass while some thread could run
  Horizon              \* bound: the last tick

ASSUME ConnectionsAssumption == Connections \in Nat \ {0}
ASSUME PlanAssumption ==
  Warmup \in Nat /\ Duration \in Nat /\ WantSeries \in BOOLEAN
ASSUME TimeoutAssumption ==
  /\ ConnectTimeout \in Nat /\ IoTimeout \in Nat /\ MaxReply \in Nat
  /\ ReconnectDelay \in Nat /\ IoTimeout <= MaxReply
ASSUME OutcomesAssumption ==
  Outcomes \subseteq AllOutcomes /\ SetTimeoutsMayFail \in BOOLEAN
ASSUME BoundsAssumption ==
  SecondTicks \in Nat \ {0} /\ MaxTurns \in Nat /\ MaxStalls \in Nat
ASSUME HorizonAssumption == Horizon \in Nat

Workers == 1 .. Connections
Deadline == Warmup + Duration

-----------------------------------------------------------------------------
(* A histogram counts the samples of each length.                           *)

Samples == 0 .. Horizon
EmptyHistogram == [v \in Samples |-> 0]
Record(h, v) == [h EXCEPT ![v] = @ + 1]
MergedInto(h, g) == [v \in Samples |-> h[v] + g[v]]
Count(h) == FoldFunction(+, 0, h)

EmptyTally ==
  [attempted |-> 0, errors |-> NoErrors, opened |-> 0, latency |-> EmptyHistogram]

(* A failed connect is an attempt; an exchange is one, and is timed or not. *)
AddConnectFailure(t) ==
  [t EXCEPT !.attempted = @ + 1, !.errors = Bump(@, "connect")]
AddExchange(t, outcome, elapsed) ==
  [t EXCEPT !.attempted = @ + 1, !.errors = Counted(@, outcome),
            !.latency = IF outcome \in Timed THEN Record(@, elapsed) ELSE @]

Merge(r, t) ==
  [attempted |-> r.attempted + t.attempted, errors |-> Added(r.errors, t.errors),
   opened |-> r.opened + t.opened, latency |-> MergedInto(r.latency, t.latency)]

Balanced(t) == t.attempted = Count(t.latency) + Untimed(t.errors)

-----------------------------------------------------------------------------
(* The series.                                                              *)

(* TimeSeries::second_of.                                                   *)
SecondOf(t) == IF t <= Warmup THEN 0 ELSE (t - Warmup) \div SecondTicks

(* A slip: a second that is already there is overwritten.                   *)
AbsorbOver(series, second, h) ==
  [i \in 1 .. (IF Len(series) > second THEN Len(series) ELSE second + 1) |->
     IF i = second + 1 THEN h
     ELSE IF i \in DOMAIN series THEN series[i] ELSE EmptyHistogram]

(* TimeSeries::absorb: grow to the second, and merge.                       *)
Absorb(series, second, h) ==
  [i \in 1 .. (IF Len(series) > second THEN Len(series) ELSE second + 1) |->
     MergedInto(IF i \in DOMAIN series THEN series[i] ELSE EmptyHistogram,
                IF i = second + 1 THEN h ELSE EmptyHistogram)]

-----------------------------------------------------------------------------
VARIABLES
  now,
  main, started, joined, merged, run,    \* the driver, as in OpenLoop
  pc, sock, begun,                       \* each worker, as in OpenLoop
  turn,       \* the clock reading at the head of its turn
  result,     \* the exchange it has to account for
  tally,      \* what it has counted
  pending,    \* its Writer's histogram of the current second
  current,    \* its Writer's current second
  seconds,    \* the series they share
  turns,      \* bound: turns each worker has taken
  stalls      \* bound: ticks that passed while some thread could run

driverVars == <<main, started, joined, merged, run>>
writerVars == <<pending, current, seconds>>
bounds == <<turns, stalls>>
vars == <<now, driverVars, pc, sock, begun, turn, result, tally, writerVars, bounds>>

NoResult == [outcome |-> "none", elapsed |-> 0]

Init ==
  /\ now = 0 /\ stalls = 0
  /\ main = "spawn" /\ started = 0 /\ joined = 0 /\ merged = 0
  /\ run = EmptyTally
  /\ pc = [w \in Workers |-> "unborn"]
  /\ sock = [w \in Workers |-> "none"]
  /\ begun = [w \in Workers |-> 0]
  /\ turn = [w \in Workers |-> 0]
  /\ result = [w \in Workers |-> NoResult]
  /\ tally = [w \in Workers |-> EmptyTally]
  /\ pending = [w \in Workers |-> EmptyHistogram]
  /\ current = [w \in Workers |-> 0]
  /\ seconds = <<>>
  /\ turns = [w \in Workers |-> 0]

Goto(w, label) == pc' = [pc EXCEPT ![w] = label]
At(f, w, v) == [f EXCEPT ![w] = v]

-----------------------------------------------------------------------------
(* ConnectionWorker::run.                                                   *)

(* One reading of the clock decides whether the run is over and whether     *)
(* this turn is measured.                                                   *)
StartTurn(w) ==
  /\ pc[w] = "top"
  /\ \/ /\ now >= Deadline
        /\ Goto(w, "done")
        /\ UNCHANGED <<turn, begun, turns>>
     \/ /\ now < Deadline /\ turns[w] < MaxTurns
        /\ Goto(w, IF sock[w] = "none" THEN "connecting" ELSE "ready")
        /\ turn' = At(turn, w, now)
        /\ begun' = At(begun, w, now)
        /\ turns' = At(turns, w, turns[w] + 1)
  /\ UNCHANGED <<now, driverVars, sock, result, tally, writerVars, stalls>>

(* A slip: the clock is read again when the turn is accounted for.          *)
MeasuringNow(w) == now >= Warmup

Measuring(w) == turn[w] >= Warmup

Connected(w) ==
  /\ pc[w] = "connecting"
  /\ Goto(w, "ready")
  /\ sock' = At(sock, w, "bounded")
  /\ tally' = [tally EXCEPT ![w].opened = @ + 1]
  /\ UNCHANGED <<now, driverVars, begun, turn, result, writerVars, bounds>>

(* No address connected; or one did, and setting its timeouts failed.       *)
ConnectFails(w) ==
  /\ pc[w] = "connecting"
  /\ Goto(w, "pause")
  /\ begun' = At(begun, w, now)
  /\ tally' = IF Measuring(w) THEN At(tally, w, AddConnectFailure(tally[w]))
              ELSE tally
  /\ \/ UNCHANGED sock
     \/ SetTimeoutsMayFail /\ sock' = At(sock, w, "bare")
  /\ UNCHANGED <<now, driverVars, turn, result, writerVars, bounds>>

Unpause(w) ==
  /\ pc[w] = "pause" /\ now >= begun[w] + ReconnectDelay
  /\ Goto(w, "top")
  /\ UNCHANGED <<now, driverVars, sock, begun, turn, result, tally, writerVars,
                 bounds>>

(* perform_request reads its own clock before it writes.                    *)
Begin(w) ==
  /\ pc[w] = "ready"
  /\ Goto(w, "exchange")
  /\ begun' = At(begun, w, now)
  /\ UNCHANGED <<now, driverVars, sock, turn, result, tally, writerVars, bounds>>

FinishAs(w, outcome) ==
  /\ pc[w] = "exchange"
  /\ outcome = "TimedOut" => now >= begun[w] + IoTimeout
  /\ Goto(w, "account")
  /\ result' = At(result, w,
       [outcome |-> outcome,
        elapsed |-> IF outcome \in Timed THEN now - begun[w] ELSE 0])
  /\ UNCHANGED <<now, driverVars, sock, begun, turn, tally, writerVars, bounds>>

Finish(w) == \E outcome \in Outcomes : FinishAs(w, outcome)

(* Writer::flush and Writer::record: the clock has moved to another second, *)
(* and what is pending is handed over first.                                *)
WriterRecords(w, second, elapsed) ==
  /\ current' = At(current, w, second)
  /\ \/ /\ second # current[w] /\ Count(pending[w]) > 0
        /\ seconds' = Absorb(seconds, current[w], pending[w])
        /\ pending' = At(pending, w, Record(EmptyHistogram, elapsed))
     \/ /\ second = current[w] \/ Count(pending[w]) = 0
        /\ pending' = At(pending, w, Record(pending[w], elapsed))
        /\ UNCHANGED seconds

(* The rest of the turn.  The series takes the clock as it is now.          *)
AccountTurn(w) ==
  /\ pc[w] = "account"
  /\ Goto(w, "top")
  /\ tally' = IF Measuring(w)
              THEN At(tally, w, AddExchange(tally[w], result[w].outcome,
                                            result[w].elapsed))
              ELSE tally
  /\ IF Measuring(w) /\ WantSeries /\ result[w].outcome \in Timed
     THEN WriterRecords(w, SecondOf(now), result[w].elapsed)
     ELSE UNCHANGED writerVars
  /\ sock' = IF Usable(result[w].outcome) THEN sock ELSE At(sock, w, "none")
  /\ result' = At(result, w, NoResult)
  /\ UNCHANGED <<now, driverVars, begun, turn, bounds>>

-----------------------------------------------------------------------------
(* run_closed_loop, on the driver thread.                                   *)

Spawn ==
  /\ main = "spawn" /\ started < Connections
  /\ started' = started + 1
  /\ Goto(started + 1, "top")
  /\ UNCHANGED <<now, main, joined, merged, run, sock, begun, turn, result,
                 tally, writerVars, bounds>>

(* Every thread is running, or the system has no more threads to give.      *)
SpawnEnds ==
  /\ main = "spawn"
  /\ main' = "warm"
  /\ UNCHANGED <<now, started, joined, merged, run, pc, sock, begun, turn,
                 result, tally, writerVars, bounds>>

WarmupEnds ==
  /\ main = "warm" /\ now >= Warmup
  /\ main' = "join"
  /\ UNCHANGED <<now, started, joined, merged, run, pc, sock, begun, turn,
                 result, tally, writerVars, bounds>>

(* A slip: the driver joins the connections requested, not those started.   *)
JoinRequested ==
  /\ main = "join"
  /\ \/ /\ joined < Connections /\ pc[joined + 1] = "done"
        /\ joined' = joined + 1
        /\ UNCHANGED main
     \/ /\ joined = Connections
        /\ main' = "merge"
        /\ UNCHANGED joined
  /\ UNCHANGED <<now, started, merged, run, pc, sock, begun, turn, result,
                 tally, writerVars, bounds>>

Join ==
  /\ main = "join"
  /\ \/ /\ joined < started /\ pc[joined + 1] = "done"
        /\ joined' = joined + 1
        /\ UNCHANGED main
     \/ /\ joined = started
        /\ main' = "merge"
        /\ UNCHANGED joined
  /\ UNCHANGED <<now, started, merged, run, pc, sock, begun, turn, result,
                 tally, writerVars, bounds>>

(* A slip: finish() does not flush.                                         *)
ForgetPending(w) == UNCHANGED <<pending, seconds>>

(* ConnectionWorker::finish.                                                *)
FlushPending(w) ==
  /\ seconds' = IF Count(pending[w]) > 0
                THEN Absorb(seconds, current[w], pending[w]) ELSE seconds
  /\ pending' = At(pending, w, EmptyHistogram)

MergeWorker ==
  /\ main = "merge"
  /\ \/ /\ merged < started
        /\ FlushPending(merged + 1)
        /\ run' = Merge(run, tally[merged + 1])
        /\ merged' = merged + 1
        /\ UNCHANGED main
     \/ /\ merged = started
        /\ main' = "done"
        /\ UNCHANGED <<merged, run, pending, seconds>>
  /\ UNCHANGED <<now, started, joined, pc, sock, begun, turn, result, tally,
                 current, bounds>>

-----------------------------------------------------------------------------
(* Time.  A thread can run unless it waits for the target, for a delay, for *)
(* the warm-up or for another thread.                                       *)
DriverRunnable ==
  \/ main \in {"spawn", "merge"}
  \/ main = "warm" /\ now >= Warmup
  \/ main = "join" /\ (joined < started => pc[joined + 1] = "done")

Runnable(w) ==
  \/ pc[w] = "top" /\ (now < Deadline => turns[w] < MaxTurns)
  \/ pc[w] \in {"ready", "account"}
  \/ pc[w] = "connecting" /\ now >= turn[w] + ConnectTimeout
  \/ pc[w] = "pause" /\ now >= begun[w] + ReconnectDelay
  \/ pc[w] = "exchange" /\ sock[w] = "bounded" /\ now >= begun[w] + MaxReply

Stalling == DriverRunnable \/ \E w \in Workers : Runnable(w)

Tick ==
  /\ main # "done" /\ now < Horizon
  /\ Stalling => stalls < MaxStalls
  /\ now' = now + 1
  /\ stalls' = IF Stalling THEN stalls + 1 ELSE stalls
  /\ UNCHANGED <<driverVars, pc, sock, begun, turn, result, tally, writerVars,
                 turns>>

Returned == main = "done" /\ UNCHANGED vars

WorkerStep(w) ==
  \/ StartTurn(w) \/ Connected(w) \/ ConnectFails(w) \/ Unpause(w)
  \/ Begin(w) \/ Finish(w) \/ AccountTurn(w)

DriverStep == Spawn \/ SpawnEnds \/ WarmupEnds \/ Join \/ MergeWorker

Next == DriverStep \/ (\E w \in Workers : WorkerStep(w)) \/ Tick \/ Returned

(* As in OpenLoop: threads run, time passes, bounded waits end.             *)
Fairness ==
  /\ WF_vars(DriverStep)
  /\ \A w \in Workers :
       WF_vars(WorkerStep(w) /\ (pc[w] = "exchange" => sock[w] = "bounded"))
  /\ WF_vars(Tick)

Safety == Init /\ [][Next]_vars
Spec == Safety /\ Fairness

-----------------------------------------------------------------------------
(* Properties.                                                              *)

(* The accounting adds up in every worker at every moment and in the run    *)
(* being merged (run_result.hpp:88-95, worker.cpp:65-101).                  *)
AccountsBalance ==
  Balanced(run) /\ \A w \in Workers : Balanced(tally[w])

(* The per-second view and the run-wide view describe the same samples at   *)
(* every moment: each sample a worker has timed is in its pending second or *)
(* in the shared series, once, whatever seconds the workers flush and in    *)
(* whatever order (worker.cpp:67-74, timeseries.hpp:36-54).                 *)
Total(h, v) ==
  FoldFunction(+, 0, [w \in Workers |-> h[w][v]])

SeriesIsTheHistogram ==
  WantSeries =>
    \A v \in Samples :
      Total([w \in Workers |-> tally[w].latency], v)
        = Total(pending, v)
          + FoldFunction(+, 0, [i \in DOMAIN seconds |-> seconds[i][v]])

(* The run that is returned holds everything its workers counted, and the   *)
(* series it is returned with holds every sample, the last partial second   *)
(* included (closed_loop.cpp:66-76, worker.cpp:109-115).                    *)
NothingIsLeftBehind ==
  main = "done" =>
    /\ run.attempted = FoldFunction(+, 0, [w \in Workers |-> tally[w].attempted])
    /\ \A w \in Workers : pc[w] \in {"unborn", "done"}
    /\ WantSeries =>
         \A v \in Samples :
           run.latency[v]
             = FoldFunction(+, 0, [i \in DOMAIN seconds |-> seconds[i][v]])

(* Nothing that starts before the end of the warm-up is counted at all:     *)
(* neither a request nor a failed connect (worker.hpp:65-69).               *)
NothingFromTheWarmup ==
  [][\A w \in Workers :
       tally'[w].attempted > tally[w].attempted =>
         begun[w] >= Warmup /\ turn[w] >= Warmup]_vars

(* The run returns, whatever the target does and however many threads could *)
(* be started, if every read and write is bounded (closed_loop.cpp:36-60).  *)
ExchangesBounded == \A w \in Workers : pc[w] = "exchange" => sock[w] = "bounded"

Returns == []ExchangesBounded => <>(main = "done")

=============================================================================
