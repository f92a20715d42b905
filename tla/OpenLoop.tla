------------------------------ MODULE OpenLoop ------------------------------
(***************************************************************************)
(* The open-loop runner: run_open_loop and OpenLoopWorker::run             *)
(* (src/load/open_loop.cpp), the schedule they share (src/load/schedule.hpp)*)
(* and the accounting of src/load/run_result.hpp.                          *)
(*                                                                         *)
(* A driver thread spawns one worker per connection, sleeps to the warm-up *)
(* boundary, joins every worker and merges their tallies.  Each worker     *)
(* connects if it has no socket, claims the next slot of the shared        *)
(* schedule, sleeps until the slot is due, carries one request, and        *)
(* accounts for it.                                                        *)
(*                                                                         *)
(* Time is counted in ticks from the start of the run.  Every reading of   *)
(* the clock is a step of its own, because between two readings the        *)
(* scheduler may let time pass.  A tick taken while a thread has something *)
(* to do right now was stolen from that thread by the rig; the other ticks *)
(* are spent waiting for the target or for the schedule.  stolen counts    *)
(* the former, and is what tells a slow rig from a slow target.            *)
(***************************************************************************)
EXTENDS Accounts, Buckets, Sequences, FiniteSets

CONSTANTS
  Connections,         \* --connections: workers to spawn
  Warmup, Duration,    \* the plan, in ticks
  RateSlots, RateTicks,\* --rate: RateSlots requests every RateTicks ticks
  ConnectTimeout,      \* the longest connect_any may take
  IoTimeout,           \* SO_RCVTIMEO and SO_SNDTIMEO
  MaxReply,            \* the longest the target may spread one reply over
  ReconnectDelay,      \* pause after a failed connect
  Outcomes,            \* what an exchange may come to
  SetTimeoutsMayFail,  \* whether setsockopt may fail after the connect
  Persistent,          \* intervals behind that count as persistently behind
  MaxStolen,           \* bound: ticks the rig may steal from each thread
  Horizon              \* bound: the last tick

ASSUME ConnectionsAssumption == Connections \in Nat \ {0}
ASSUME PlanAssumption ==
  /\ Warmup \in Nat /\ Duration \in Nat
  /\ RateSlots \in Nat \ {0} /\ RateTicks \in Nat \ {0}
ASSUME TimeoutAssumption ==
  /\ ConnectTimeout \in Nat /\ IoTimeout \in Nat /\ MaxReply \in Nat
  /\ ReconnectDelay \in Nat /\ IoTimeout <= MaxReply
ASSUME OutcomesAssumption ==
  Outcomes \subseteq AllOutcomes /\ SetTimeoutsMayFail \in BOOLEAN
Driver == 0
Workers == 1 .. Connections
Threads == {Driver} \cup Workers

ASSUME BoundsAssumption ==
  /\ Persistent \in Nat \ {0} /\ MaxStolen \in [Threads -> Nat]
  /\ Horizon \in Nat

-----------------------------------------------------------------------------
(* The schedule.                                                           *)

Deadline == Warmup + Duration

(* A slip: the interval is cut to whole ticks and then multiplied, and what *)
(* was cut off grows with the index.                                        *)
DueAtByInterval(index) == index * (RateTicks \div RateSlots)

(* Rate::due_at: llround of index / rate, computed from the index and never *)
(* accumulated, so a fractional interval does not drift.                    *)
DueAt(index) == (2 * index * RateTicks + RateSlots) \div (2 * RateSlots)

(* Schedule::claim: the schedule starts at the warm-up boundary.            *)
Due(index) == Warmup + DueAt(index)

Interval == (2 * RateTicks + RateSlots) \div (2 * RateSlots)

-----------------------------------------------------------------------------
(* What a worker counts.  A histogram is the sequence of its samples; the   *)
(* four histograms, the errors and the two counters are the worker's own    *)
(* until the driver merges them.                                            *)

TallyOf(attempted, errors, opened, latency, lag, wait, rig) ==
  [attempted |-> attempted, errors |-> errors, opened |-> opened,
   latency |-> latency, lag |-> lag, wait |-> wait, rig |-> rig]

EmptyTally == TallyOf(0, NoErrors, 0, <<>>, <<>>, <<>>, <<>>)

Tallies ==
  [attempted : Nat, errors : [ErrorKinds -> Nat], opened : Nat,
   latency : Seq(Nat), lag : Seq(Nat), wait : Seq(Nat), rig : Seq(Int)]

(* A slip: max(0, x) left out.                                              *)
Unclamped(a, b) == b

Larger(a, b) == IF a >= b THEN a ELSE b

(* A slip: the latency is taken from the sending, as a closed loop would.   *)
AccountFromSending(t, outcome, late, waited, fromDue) ==
  TallyOf(t.attempted + 1, Counted(t.errors, outcome), t.opened,
          IF outcome \in Timed THEN Append(t.latency, fromDue - late)
                               ELSE t.latency,
          Append(t.lag, late), Append(t.wait, waited),
          Append(t.rig, late - waited))

(* The body of `if (measuring)` in OpenLoopWorker::run.                     *)
Account(t, outcome, late, waited, fromDue) ==
  TallyOf(t.attempted + 1, Counted(t.errors, outcome), t.opened,
          IF outcome \in Timed THEN Append(t.latency, fromDue) ELSE t.latency,
          Append(t.lag, late), Append(t.wait, waited),
          Append(t.rig, late - waited))

(* The catch clause of the connect.                                         *)
AccountConnectFailure(t) ==
  TallyOf(t.attempted + 1, Bump(t.errors, "connect"), t.opened,
          t.latency, t.lag, t.wait, t.rig)

AccountConnect(t) ==
  TallyOf(t.attempted, t.errors, t.opened + 1, t.latency, t.lag, t.wait, t.rig)

(* A slip: attempted is assigned where it should be added to.               *)
MergeLast(r, t) ==
  TallyOf(t.attempted, Added(r.errors, t.errors), r.opened + t.opened,
          r.latency \o t.latency, r.lag \o t.lag, r.wait \o t.wait,
          r.rig \o t.rig)

(* One turn of the merge loop of run_open_loop.                             *)
Merge(r, t) ==
  TallyOf(r.attempted + t.attempted, Added(r.errors, t.errors),
          r.opened + t.opened, r.latency \o t.latency, r.lag \o t.lag,
          r.wait \o t.wait, r.rig \o t.rig)

(* RunResult::consistent.                                                   *)
Balanced(t) == t.attempted = Len(t.latency) + Untimed(t.errors)

(* The middle sample: the least with half of them at or below it.           *)
Middle(samples) ==
  LET AtMost(v) == Cardinality({i \in DOMAIN samples : samples[i] <= v})
      Covers(v) == 2 * AtMost(v) >= Len(samples)
      Values == {samples[i] : i \in DOMAIN samples}
  IN  CHOOSE v \in Values : Covers(v) /\ \A u \in Values : Covers(u) => v <= u

Longest(samples) ==
  CHOOSE v \in {samples[i] : i \in DOMAIN samples} :
    \A i \in DOMAIN samples : samples[i] <= v

(* Histogram::percentile(50): the high edge of the slot the middle sample   *)
(* is in, or the longest sample if the middle one is past the layout.       *)
Median(samples) ==
  IF Middle(samples) <= MaxValue THEN SlotHigh(IndexOf(Middle(samples)))
                                 ELSE Longest(samples)

(* A slip: the verdict asks about the whole lag.                            *)
KeptUpOverall(r) == r.lag = <<>> \/ Median(r.lag) < Persistent * Interval

(* OpenLoopRun::kept_up.                                                    *)
KeptUp(r) == r.rig = <<>> \/ Median(r.rig) < Persistent * Interval

-----------------------------------------------------------------------------
VARIABLES
  now,      \* the monotonic clock
  next,     \* Schedule::next_, the one variable the workers share
  main,     \* where the driver is: "spawn", "warm", "join", "merge", "done"
  started,  \* threads.size()
  joined,   \* threads joined so far
  merged,   \* tallies merged so far
  run,      \* the OpenLoopRun being built
  pc,       \* where each worker is
  sock,     \* its socket: "none", "bounded", or "bare" (a timeout not set)
  begun,    \* when its current connect, pause or exchange began
  freeAt,   \* its local free_at
  slot,     \* the index of its local slot
  sending,  \* its local sending
  tally,    \* what it has counted
  sent,     \* history: slots whose request was started
  past,     \* history: slots claimed and found due past the deadline
  stolen    \* history: ticks each thread lost while it could have run

driverVars == <<main, started, joined, merged, run>>
workerVars == <<pc, sock, begun, freeAt, slot, sending, tally>>
history == <<sent, past>>
vars == <<now, next, driverVars, workerVars, history, stolen>>

States == {"unborn", "top", "connecting", "pause", "free", "claim",
           "sleeping", "sending", "exchange", "done"}

Init ==
  /\ now = 0
  /\ next = 0
  /\ main = "spawn" /\ started = 0 /\ joined = 0 /\ merged = 0
  /\ run = EmptyTally
  /\ pc = [w \in Workers |-> "unborn"]
  /\ sock = [w \in Workers |-> "none"]
  /\ begun = [w \in Workers |-> 0]
  /\ freeAt = [w \in Workers |-> 0]
  /\ slot = [w \in Workers |-> 0]
  /\ sending = [w \in Workers |-> 0]
  /\ tally = [w \in Workers |-> EmptyTally]
  /\ sent = {} /\ past = {}
  /\ stolen = [t \in Threads |-> 0]

Goto(w, label) == pc' = [pc EXCEPT ![w] = label]
At(f, w, v) == [f EXCEPT ![w] = v]

-----------------------------------------------------------------------------
(* OpenLoopWorker::run.  Locals that go out of scope return to zero.        *)

(* The deadline check at the head of the loop.                              *)
Expire(w) ==
  /\ pc[w] = "top" /\ now >= Deadline
  /\ Goto(w, "done")
  /\ UNCHANGED <<now, next, driverVars, sock, begun, freeAt, slot, sending,
                 tally, history, stolen>>

StartConnect(w) ==
  /\ pc[w] = "top" /\ now < Deadline /\ sock[w] = "none"
  /\ Goto(w, "connecting")
  /\ begun' = At(begun, w, now)
  /\ UNCHANGED <<now, next, driverVars, sock, freeAt, slot, sending, tally,
                 history, stolen>>

(* A socket left by the previous turn, whatever state it is in, is reused.  *)
Reuse(w) ==
  /\ pc[w] = "top" /\ now < Deadline /\ sock[w] # "none"
  /\ Goto(w, "free")
  /\ UNCHANGED <<now, next, driverVars, sock, begun, freeAt, slot, sending,
                 tally, history, stolen>>

Connected(w) ==
  /\ pc[w] = "connecting"
  /\ Goto(w, "free")
  /\ sock' = At(sock, w, "bounded")
  /\ begun' = At(begun, w, 0)
  /\ tally' = At(tally, w, AccountConnect(tally[w]))
  /\ UNCHANGED <<now, next, driverVars, freeAt, slot, sending, history, stolen>>

(* The catch clause, entered when no address connected, or when the         *)
(* connect succeeded and set_timeouts threw: the socket has been assigned   *)
(* by then and stays.  The clock is read here, after the failure.           *)
ConnectFails(w) ==
  /\ pc[w] = "connecting"
  /\ Goto(w, "pause")
  /\ begun' = At(begun, w, now)
  /\ tally' = IF now >= Warmup
              THEN At(tally, w, AccountConnectFailure(tally[w])) ELSE tally
  /\ \/ UNCHANGED sock
     \/ SetTimeoutsMayFail /\ sock' = At(sock, w, "bare")
  /\ UNCHANGED <<now, next, driverVars, freeAt, slot, sending, history, stolen>>

Unpause(w) ==
  /\ pc[w] = "pause" /\ now >= begun[w] + ReconnectDelay
  /\ Goto(w, "top")
  /\ begun' = At(begun, w, 0)
  /\ UNCHANGED <<now, next, driverVars, sock, freeAt, slot, sending, tally,
                 history, stolen>>

(* A slip: free_at is set once, when the worker starts.                     *)
ReadFreeAtOnce(w) ==
  /\ pc[w] = "free"
  /\ Goto(w, "claim")
  /\ UNCHANGED <<now, next, driverVars, sock, begun, freeAt, slot, sending,
                 tally, history, stolen>>

ReadFreeAt(w) ==
  /\ pc[w] = "free"
  /\ Goto(w, "claim")
  /\ freeAt' = At(freeAt, w, now)
  /\ UNCHANGED <<now, next, driverVars, sock, begun, slot, sending, tally,
                 history, stolen>>

(* A slip: the index is loaded and stored, and another worker's increment   *)
(* may fall in between.                                                     *)
ClaimTorn(w) ==
  /\ pc[w] = "claim" /\ Due(next) < Deadline
  /\ next' \in {next, next + 1}
  /\ Goto(w, "sleeping")
  /\ slot' = At(slot, w, next)
  /\ UNCHANGED <<now, driverVars, sock, begun, freeAt, sending, tally, history,
                 stolen>>

(* Schedule::claim is one fetch_add.  A slot due past the deadline ends the *)
(* worker; it has been claimed all the same.                                *)
Claim(w) ==
  /\ pc[w] = "claim"
  /\ next' = next + 1
  /\ \/ /\ Due(next) >= Deadline
        /\ Goto(w, "done")
        /\ past' = past \cup {next}
        /\ freeAt' = At(freeAt, w, 0)
        /\ UNCHANGED slot
     \/ /\ Due(next) < Deadline
        /\ Goto(w, "sleeping")
        /\ slot' = At(slot, w, next)
        /\ UNCHANGED <<past, freeAt>>
  /\ UNCHANGED <<now, driverVars, sock, begun, sending, tally, sent, stolen>>

(* A slip: a worker that wakes after the deadline gives its slot up.        *)
WakeOrGiveUp(w) ==
  /\ pc[w] = "sleeping" /\ now >= Due(slot[w])
  /\ Goto(w, IF now >= Deadline THEN "done" ELSE "sending")
  /\ sending' = At(sending, w, now)
  /\ UNCHANGED <<now, next, driverVars, sock, begun, freeAt, slot, tally,
                 history, stolen>>

(* A slip: a slot that is already overdue is waited for.                    *)
WakeOnTime(w) ==
  /\ pc[w] = "sleeping" /\ now = Due(slot[w])
  /\ Goto(w, "sending")
  /\ sending' = At(sending, w, now)
  /\ UNCHANGED <<now, next, driverVars, sock, begun, freeAt, slot, tally,
                 history, stolen>>

(* sleep_until returns, at the due time or late, and `sending` is read.     *)
Wake(w) ==
  /\ pc[w] = "sleeping" /\ now >= Due(slot[w])
  /\ Goto(w, "sending")
  /\ sending' = At(sending, w, now)
  /\ UNCHANGED <<now, next, driverVars, sock, begun, freeAt, slot, tally,
                 history, stolen>>

(* perform_request reads its own clock, `sent`, before it writes.           *)
Begin(w) ==
  /\ pc[w] = "sending"
  /\ Goto(w, "exchange")
  /\ begun' = At(begun, w, now)
  /\ sent' = sent \cup {slot[w]}
  /\ UNCHANGED <<now, next, driverVars, sock, freeAt, slot, sending, tally,
                 past, stolen>>

(* An exchange times out no sooner than its timeout; everything else can    *)
(* happen at any moment.  A bare socket may have got its read timeout before*)
(* the write timeout failed, so it may time out too, but need not.          *)
MayEndAs(w, outcome) == outcome = "TimedOut" => now >= begun[w] + IoTimeout

(* What the end of an exchange is measured to be.  elapsed is set by the    *)
(* outcomes that are timed and is zero for the others.                      *)
Late(w) == Larger(0, sending[w] - Due(slot[w]))
Waited(w) == Larger(0, freeAt[w] - Due(slot[w]))
Elapsed(w, outcome) == IF outcome \in Timed THEN now - begun[w] ELSE 0
FromDue(w, outcome) == (sending[w] - Due(slot[w])) + Elapsed(w, outcome)

(* The exchange returns and is accounted for.  The rest of the turn reads   *)
(* no clock and touches nothing shared, so it is one step.                  *)
FinishAs(w, outcome) ==
  /\ pc[w] = "exchange" /\ MayEndAs(w, outcome)
  /\ Goto(w, "top")
  /\ tally' = IF Due(slot[w]) >= Warmup
              THEN At(tally, w, Account(tally[w], outcome, Late(w), Waited(w),
                                        FromDue(w, outcome)))
              ELSE tally
  /\ sock' = IF Usable(outcome) THEN sock ELSE At(sock, w, "none")
  /\ begun' = At(begun, w, 0) /\ freeAt' = At(freeAt, w, 0)
  /\ slot' = At(slot, w, 0) /\ sending' = At(sending, w, 0)
  /\ UNCHANGED <<now, next, driverVars, history, stolen>>

Finish(w) == \E outcome \in Outcomes : FinishAs(w, outcome)

-----------------------------------------------------------------------------
(* run_open_loop, on the driver thread.                                     *)

Spawn ==
  /\ main = "spawn" /\ started < Connections
  /\ started' = started + 1
  /\ Goto(started + 1, "top")
  /\ UNCHANGED <<now, next, main, joined, merged, run, sock, begun, freeAt,
                 slot, sending, tally, history, stolen>>

(* Every thread is running, or std::thread threw system_error and the       *)
(* worker without a thread was dropped.                                     *)
SpawnEnds ==
  /\ main = "spawn"
  /\ main' = "warm"
  /\ UNCHANGED <<now, next, started, joined, merged, run, workerVars, history,
                 stolen>>

WarmupEnds ==
  /\ main = "warm" /\ now >= Warmup
  /\ main' = "join"
  /\ UNCHANGED <<now, next, started, joined, merged, run, workerVars, history,
                 stolen>>

(* A slip: the driver joins the connections requested, not those started.   *)
JoinRequested ==
  /\ main = "join"
  /\ \/ /\ joined < Connections /\ pc[joined + 1] = "done"
        /\ joined' = joined + 1
        /\ UNCHANGED main
     \/ /\ joined = Connections
        /\ main' = "merge"
        /\ UNCHANGED joined
  /\ UNCHANGED <<now, next, started, merged, run, workerVars, history, stolen>>

Join ==
  /\ main = "join"
  /\ \/ /\ joined < started /\ pc[joined + 1] = "done"
        /\ joined' = joined + 1
        /\ UNCHANGED main
     \/ /\ joined = started
        /\ main' = "merge"
        /\ UNCHANGED joined
  /\ UNCHANGED <<now, next, started, merged, run, workerVars, history, stolen>>

MergeWorker ==
  /\ main = "merge"
  /\ \/ /\ merged < started
        /\ run' = Merge(run, tally[merged + 1])
        /\ merged' = merged + 1
        /\ UNCHANGED main
     \/ /\ merged = started
        /\ main' = "done"
        /\ UNCHANGED <<merged, run>>
  /\ UNCHANGED <<now, next, started, joined, workerVars, history, stolen>>

-----------------------------------------------------------------------------
(* Time.                                                                    *)

(* A thread that could take a step right now, were it scheduled.  A worker  *)
(* blocked in the kernel becomes runnable when its wait has run out; the    *)
(* read of an exchange on a bare socket never does.                         *)
Runnable(t) ==
  IF t = Driver
  THEN \/ main \in {"spawn", "merge"}
       \/ main = "warm" /\ now >= Warmup
       \/ main = "join" /\ (joined < started => pc[joined + 1] = "done")
  ELSE \/ pc[t] \in {"top", "free", "claim", "sending"}
       \/ pc[t] = "connecting" /\ now >= begun[t] + ConnectTimeout
       \/ pc[t] = "pause" /\ now >= begun[t] + ReconnectDelay
       \/ pc[t] = "sleeping" /\ now >= Due(slot[t])
       \/ pc[t] = "exchange" /\ sock[t] = "bounded" /\ now >= begun[t] + MaxReply

Tick ==
  /\ main # "done" /\ now < Horizon
  /\ \A t \in Threads : Runnable(t) => stolen[t] < MaxStolen[t]
  /\ now' = now + 1
  /\ stolen' = [t \in Threads |->
                  IF Runnable(t) THEN stolen[t] + 1 ELSE stolen[t]]
  /\ UNCHANGED <<next, driverVars, workerVars, history>>

(* The run is over and its result is with the caller.                       *)
Returned == main = "done" /\ UNCHANGED vars

WorkerStep(w) ==
  \/ Expire(w) \/ StartConnect(w) \/ Reuse(w) \/ Connected(w)
  \/ ConnectFails(w) \/ Unpause(w) \/ ReadFreeAt(w) \/ Claim(w)
  \/ Wake(w) \/ Begin(w) \/ Finish(w)

DriverStep == Spawn \/ SpawnEnds \/ WarmupEnds \/ Join \/ MergeWorker

Next == DriverStep \/ (\E w \in Workers : WorkerStep(w)) \/ Tick \/ Returned

(* The operating system runs every thread that can run, the clock moves,    *)
(* and a bounded read or write ends; an unbounded one need not.             *)
Fairness ==
  /\ WF_vars(DriverStep)
  /\ \A w \in Workers :
       WF_vars(WorkerStep(w) /\ (pc[w] = "exchange" => sock[w] = "bounded"))
  /\ WF_vars(Tick)

Safety == Init /\ [][Next]_vars
Spec == Safety /\ Fairness

-----------------------------------------------------------------------------
(* Properties.                                                              *)

TypeOK ==
  /\ now \in Nat /\ next \in Nat
  /\ main \in {"spawn", "warm", "join", "merge", "done"}
  /\ started \in 0 .. Connections
  /\ joined \in 0 .. started /\ merged \in 0 .. started
  /\ run \in Tallies
  /\ pc \in [Workers -> States]
  /\ sock \in [Workers -> {"none", "bounded", "bare"}]
  /\ begun \in [Workers -> Nat] /\ freeAt \in [Workers -> Nat]
  /\ slot \in [Workers -> Nat] /\ sending \in [Workers -> Nat]
  /\ tally \in [Workers -> Tallies]
  /\ sent \subseteq Nat /\ past \subseteq Nat
  /\ stolen \in [Threads -> Nat]

Holds(w) == pc[w] \in {"sleeping", "sending"}
Held == {slot[w] : w \in {v \in Workers : Holds(v)}}

(* No slot of the schedule is lost and none is carried twice: every slot    *)
(* claimed so far is in exactly one place -- held by exactly one worker,    *)
(* sent, or set aside as past the deadline (schedule.hpp:31-42,             *)
(* open_loop.cpp:77-89).                                                    *)
SlotsConserved ==
  /\ 0 .. next - 1 = Held \cup sent \cup past
  /\ sent \cap past = {}
  /\ Held \cap (sent \cup past) = {}
  /\ \A v, w \in Workers : Holds(v) /\ Holds(w) /\ v # w => slot[v] # slot[w]

(* The accounting adds up in every worker at every moment and in the run    *)
(* being merged: an attempt is timed or is an error with nothing to time,   *)
(* never both and never neither (run_result.hpp:88-95).                     *)
AccountsBalance ==
  /\ \A w \in Workers : Balanced(tally[w])
  /\ Balanced(run)

(* The split of the lateness by cause, sample for sample: the two parts sum *)
(* to the whole, and the part charged to the rig is never negative and      *)
(* never more than the ticks during which the worker could have run and did *)
(* not -- however slow the target was (open_loop.cpp:97-107,                *)
(* open_loop.hpp:67-73).                                                    *)
RigLagIsTheRigs ==
  \A w \in Workers : \A i \in DOMAIN tally[w].rig :
    /\ tally[w].lag[i] = tally[w].wait[i] + tally[w].rig[i]
    /\ tally[w].rig[i] \in 0 .. stolen[w]

(* A run is declared void only if the machine really kept some worker from  *)
(* running for as long as the verdict's threshold, less what a slot of the  *)
(* histogram may add to a sample: one part in SubBuckets.  The verdict has  *)
(* been wrong twice about this (open_loop.hpp:82-108).                      *)
VoidOnlyByRig ==
  main = "done" /\ ~KeptUp(run) =>
    \E w \in Workers :
      (SubBuckets + 1) * stolen[w] >= SubBuckets * (Persistent * Interval)

(* At the end, the slots sent are an initial segment of the schedule: all   *)
(* that were due in the window if the schedule was run through, all that    *)
(* were handed out if not.  Each is one attempt, and the only other         *)
(* attempts are failed connects; so slots_claimed against slots_due says    *)
(* what the run left undone (open_loop.cpp:78-83, open_loop.hpp:75-78).     *)
DueInWindow(n) == {i \in 0 .. n - 1 : Due(i) < Deadline}

EndLedger ==
  main = "done" =>
    /\ sent = DueInWindow(next)
    /\ Cardinality(past) <= started
    /\ run.attempted = Cardinality(sent) + run.errors["connect"]
    /\ Len(run.lag) = Cardinality(sent)

(* When a request goes out, against the exact time of its slot: slot i is   *)
(* due i * RateTicks / RateSlots ticks after the warm-up, and due_at rounds *)
(* that to half a tick.                                                     *)
NotEarly(i, t) == 2 * RateSlots * (t - Warmup) >= 2 * i * RateTicks - RateSlots
NotLate(i, t) == 2 * RateSlots * (t - Warmup) <= 2 * i * RateTicks + RateSlots

(* The requests keep to the rate, however long the run and whichever worker *)
(* carries a slot: none goes out before the warm-up is over or before its   *)
(* exact time, and one that goes out later does so because its worker came  *)
(* free no earlier or was kept from running by the rig -- also when that    *)
(* takes it past the deadline, which is not looked at again                 *)
(* (schedule.hpp:39-42, units.cpp:45-47, open_loop.cpp:71-89).              *)
SentOnSchedule ==
  [][\A w \in Workers :
       pc[w] = "sending" /\ slot[w] \in sent' \ sent =>
         /\ Warmup <= now /\ NotEarly(slot[w], now)
         /\ LET ready == now - stolen[w]
            IN  ready <= freeAt[w] \/ NotLate(slot[w], ready)]_vars

(* A sample never flatters the target: it covers the time from the slot's   *)
(* due time to the end of the exchange, but for ticks the rig stole from    *)
(* the worker, and a timeout is recorded at no less than the timeout        *)
(* (open_loop.cpp:109-126, exchange.hpp:27-31).                             *)
LatencyCovers(w) ==
  LET samples == tally[w].latency
      samples2 == tally'[w].latency
  IN  samples2 # samples =>
        /\ samples2[Len(samples2)] >= now - Due(slot[w]) - stolen[w]
        /\ tally'[w].errors["timeout"] > tally[w].errors["timeout"] =>
             samples2[Len(samples2)] >= IoTimeout

LatencyNeverFlatters == [][\A w \in Workers : LatencyCovers(w)]_vars

(* What socket.hpp:86 says of set_timeouts: every read and write is         *)
(* bounded.                                                                 *)
ExchangesBounded == \A w \in Workers : pc[w] = "exchange" => sock[w] = "bounded"

(* The run returns, whatever the target does and however many threads could *)
(* be started, if every read and write is bounded (open_loop.cpp:160-179).  *)
Returns == []ExchangesBounded => <>(main = "done")


(* The runner keeps the promise of SlotLedger: slots are handed out in      *)
(* order, one to one worker, and a slot held is sent.                       *)
Ledger == INSTANCE SlotLedger WITH handed <- next, held <- Held, dropped <- past

LedgerSafety == Ledger!Safety
LedgerSpec == Ledger!Spec

=============================================================================
