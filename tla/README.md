# A verification of dariyanaap

dariyanaap is a load rig. It drives a target at a fixed concurrency (closed loop) or a fixed rate (open loop), times every request, and reports the distribution of latencies with an account of everything that failed. A library that a target links in injects faults, and a control socket switches them while the target runs. The target that comes with the rig, `dariyanaap-null`, echoes a payload.

What can go wrong in such a program is that it *misreports*: a slot of the schedule that was never sent, a slow request that was not timed, lateness charged to the wrong side, a fault that is on and not applied. Most of these take several threads or an unlucky pause between two readings of the clock, which is what the models here are about.

Paths below are relative to the repository's root (`src/load/...`, `apps/...`).

## 1. Inventory

| Component | Code | State it keeps | Operations | Module | Status |
|---|---|---|---|---|---|
| Open-loop runner | `src/load/open_loop.cpp` | per worker: socket, slot, three clock readings, four histograms, counters | connect, claim, wake, exchange, account; spawn, join, merge | `OpenLoop` | modelled, proved about |
| Schedule, rate | `src/load/schedule.hpp`, `src/core/units.cpp` | one atomic counter | `claim`, `due_at` | `OpenLoop` | modelled, proved about |
| Accounting | `src/load/run_result.hpp`, `exchange.hpp` | error counters | count, merge, `consistent` | `Accounts` | modelled, proved about |
| Closed-loop runner | `src/load/closed_loop.cpp`, `worker.cpp` | as above, without a schedule | turn of the loop, `finish`, merge | `ClosedLoop` | modelled, proved about |
| Time series | `src/stats/timeseries.hpp` | a pending second per writer, a shared vector under a lock | `record`, `flush`, `absorb` | `ClosedLoop` | modelled, proved about |
| Exchange | `src/load/exchange.cpp`, `raw_echo.cpp` | bytes received so far | write all, read until complete | `Exchange` | modelled, proved about |
| Null target | `apps/dariyanaap_null.cpp` | a thread and a buffer per connection, `g_stalled` | accept, serve, stall | `Exchange`, `FaultKnobs`, `Descriptors` | partly: all but its flags and the reaping of threads |
| Fault knobs | `src/fault/knobs.cpp` | six atomics; identity and partitions under a lock | seven setters, three checks, environment, commands | `FaultKnobs` | modelled, proved about |
| Control socket | `src/fault/control.cpp` | one acceptor thread, a `stopping` flag, a line buffer | accept, read, answer, destructor | `ControlServer` | modelled, proved about |
| Sockets | `src/core/socket.cpp` | a descriptor | connect, move, close, read, write, timeouts | `Descriptors`, `Exchange` | modelled, proved about |
| Histogram, summary | `src/stats/buckets.hpp`, `histogram.*`, `summary.*` | 3808 counters | record, merge, percentile, summary | `Buckets`, `Histogram` | modelled, proved about |
| HTTP | `src/load/http.cpp`, `http11_get.cpp` | the request; the bytes received so far are the exchange's | build the request, frame a response, its status | `Http` | modelled, proved about |
| Listener, addresses | `src/core/listener.cpp`, `address.cpp`, `endpoint.cpp` | a descriptor | bind, accept, resolve | `Descriptors` | partly: resolution and parsing of addresses are not |
| Clock, flags, errors, CSV, command line, `hist_verify`, `fault_cost`, plots, scripts | rest | none that lasts | parsing, output, benchmarks | - | not modelled |

How they interact: a runner's driver thread spawns one worker per connection, sleeps, joins them and merges what they counted. Workers share only the schedule's counter (open loop) or the series (closed loop). Each worker calls `perform_request` on its own socket. The target has a thread per connection, which calls `before_response` and `should_drop` of the fault library; the control socket's acceptor thread calls the library's setters through `apply_command`, and `main` calls them once through `load_from_env`.

What is hard: pauses between two readings of the clock; failures in the middle of a turn; replies that arrive after their timeout; a run that starts with fewer threads than it asked for; lock-free loads and stores of the knobs against each other; a destructor that must get another thread out of `accept`; a response that may be cut anywhere, in front of another one; a descriptor whose number goes to another thread as soon as it is closed; signals in the middle of a bounded wait. `PROJECT.json` lists each hazard at its line with the properties that would catch it.

## 2. Modules and how they correspond to the code

A definition keeps the name of what it models where it can. Every operator preceded by a comment that begins "A slip:" is *not* part of a model: it is a plausible mistake in the definition that follows it, kept so that each property can be shown to notice something.

**`Accounts`** - the six outcomes of an exchange, the error counter each belongs to, which are timed, which leave the connection usable. Used by both runners and by `Exchange`.

**`OpenLoop`** - `run_open_loop` and `OpenLoopWorker::run`. `pc` says where each worker is in its loop; `freeAt`, `slot`, `sending`, `begun` are its locals, `tally` its counters and samples; `next` is the schedule's atomic; `main`, `started`, `joined`, `merged`, `run` are the driver's. Every reading of the clock is a step of its own, and `Tick` may come between any two. A tick during which a thread could have run is charged to `stolen[t]`: that is what "the rig was slow" means here, and it is what `RigLagIsTheRigs` compares the code's own split against. `Median` is `Histogram::percentile(50)`: the high edge of the slot in which the middle sample lies, by the layout of `Buckets`, which the module extends. A worker keeps its socket in one of three states: none, bounded, or *bare*: connected with `set_timeouts` not completed, which the code allows.

**`SlotLedger`** - the abstract specification: slots are handed out in order, each to one holder, and a held slot is sent, once. `OpenLoop` implements it with `handed <- next`, `held <- Held`, `dropped <- past`.

**`ClosedLoop`** - `run_closed_loop`, `ConnectionWorker::run` and the series writers. A histogram is a count of samples by length in ticks. `turn` is the clock reading at the head of the loop, `begun` the start of the exchange: the two differ, and `measuring` is decided by the first.

**`Exchange`** - one worker and the target's thread for each connection it makes, over streams that hold pieces of requests and replies. A piece carries the number of its request, which the code cannot see; the properties can. `send` and `recv` move any number of pieces. The write and read timeouts, the end of stream and a reset are alternatives of `WriteEnds` and `ReadEnds`. `hung` is a hang that the target's environment asked for: `before_response` then never returns.

**`Instructions`, `FaultConfig`** - the seven instructions of the fault library, which are refused, and what configuration each leaves: the abstract specification "one configuration, replaced as a whole".

**`FaultKnobs`** - `knobs.cpp` a load or a store at a time. An instruction is a `Program`, a sequence of stores, loads and lock operations that a setter steps through; a check is stepped through by a reader. Relaxed atomics are modelled as interleaved single accesses: every location is its own atomic and no property here depends on two stores being seen out of order, other than through interleaving. `could` records the configurations that were in force, or being put in force, while a check ran.

**`ControlServer`** - the acceptor thread, its reader of lines and the destructor. Operators are the environment: they connect, write pieces of lines, take replies or do not, and leave. That `serve` will return (`StopReading`, or a reply of `Answer` that cannot be written) and that its socket is closed (`Hangup`) are two steps, and a line may arrive between them. How long an unfinished line is makes no difference to the code, so one part of it in `pending` stands for all. `Crash` is an exception on the acceptor's thread, where nothing catches it.

**`Buckets`, `Histogram`** - the layout of the slots as operators, and a run from the point of view of its histograms: workers record, each into its own, the driver merges when all have stopped and reads the summary off the slots. The other runner modules count samples by value and have no slots. `Rank` is the code's `ceil(p / 100.0 * count)`, of which three facts about doubles are kept: 0.5, 0.9 and 0.99 give the exact rank, `99.9 / 100.0` lies above 0.999, and so a product that should be a whole number is above it (`RoundsUp`; checked against the doubles for every count up to 32,000).

**`Http`** - the generator of requests and the framing of responses, with the loop of `perform_request` around it. Text is a sequence of pieces: CR, LF, a status line, a header line up to its end, or another byte. The code looks at a head only when it is whole, so a cut inside a line is no different from one before it; a cut inside the blank line is different, and is one of the cuts made. `Consume` is the code's function of what has been received, with the sum in a `size_t` of its own width (`SizeMax`), and `ContentLength` folds digits as the code's loop does. The properties look at the answer as the target wrote it (`Promised`, `Verdicts`) and never at the text. `babbling` is a target that writes header lines for ever. `HttpInit`, `HttpNext`, `HttpSpec` and `ReadSome` are named so that the module can be proved about next to `ControlServer`. `MaxHead + Chunk <= SizeMax` is assumed of the constants: a head is limited to 64 KiB (`http11_get.hpp:42`), and a `size_t` holds that and a read. What a target may send is any status line, any list of header lines and any body (`ResponsesAssumption`).

**`Descriptors`** - `Socket`, `Listener`, `connect_any` and the target's accept loop, a system call at a time, over one table of descriptors in which a number that was closed is the next one given. `local` and `kept` are the two `Socket` objects a thread may hold, and `MovedFrom` is what a move leaves in its source. Any call may fail. `failures` is the code's `failures` string, reduced to what each address came to; `address` and `every` are the loop's. `waited` counts ticks since the deadline was computed and `until` is what was handed to `poll`, in whole milliseconds of `TicksPerMs` ticks. `Die` is the end of the target's process: an exception of `accept` in `main` meets joinable threads. One process is modelled, with connecting threads and an acceptor in it, which is the case in which they are nearest to each other (the rig only connects; the target accepts, and connects to itself to end the control server).

**`MCOpenLoop`, `MCClosedLoop`, `MCFaultKnobs`, `MCHttp`** give the values that a `.cfg` cannot spell. `Exchange`, `ControlServer`, `Descriptors` and `Histogram` need none. The theorems are in `OpenLoop_proofs`, `ClosedLoop_proofs`, `Exchange_proofs`, `FaultKnobs_proofs`, `Histogram_proofs`, `Descriptors_proofs` and `Streams_proofs` (of `ControlServer` and of `Http`); the laws of sums that several of them cite are in `CountingLaws`.

## 3. Runs

| Run | Checks | Bounds and why they are enough |
|---|---|---|
| `OpenLoop_safety` | types; slots conserved; accounts; the split of lateness; the verdict; the books at the end; requests go out on schedule; latency never flatters; the ledger; the run returns and every held slot is sent | two workers, so that claims interleave and one can start late or not at all; four slots in three ticks, so that due times round, and by more than half a tick in all if intervals were added up; an outcome of every class, and `set_timeouts` may fail; a reply may take a tick and a reconnect two, so that slots queue behind a slow target; two ticks may be stolen from the first worker and one from the second, between any two readings, so that a lateness reaches a slot of the histogram that is wider than one value (one slot to the octave, a largest value of three); none from the driver, because a thread that is started late is the same to the run as one that loses its first tick. 1.6 million states |
| `FaultKnobs_control` | gate, checks, waits, environment, one configuration | one setter, which obeys the environment first, three instructions of every verb with arguments on both sides of every check, three environments, one of them refused |
| `FaultKnobs_setters` | the flag under the lock; checks return | two setters, three instructions |
| `ClosedLoop_small` | accounts, series against histogram, nothing left behind, nothing from the warm-up, the run returns | two workers, two turns each, two seconds of series, one stall |
| `ControlServer_loopback` | lines obeyed once, none dropped; the acceptor's thread comes back from every operator, and to the destructor | two operators with three pieces on their way and two lines each, and parts of lines without end: a whole line, a split one, two in one read, and one who keeps the thread by never falling silent. 489,000 states |
| `Exchange_echo` | replies are own, the target keeps step, a reused connection is clean, both sides end | three requests (one to be late, one to reuse or not, one to see the damage), two pieces each so that reads are partial, a window of two so that writes block, a target's buffer that could hold the start of a next request; a target with a hang and one without |
| `Http_cuts` | an answer comes to what it says, as soon as it is whole and within the limit of the head, however it is cut; the next one begins where it ends; every exchange ends | three requests on one connection, so that what one leaves is the next one's beginning; nineteen kinds of answer, one for each line of the framing that could go wrong: lookalike headers, a second length, a blank line in the body, too little and too much body, a length at `SizeMax` and past it, a length that wraps with the head; a limit of fourteen pieces, which one answer exceeds with its blank line and the babbler without one; reads of up to six |
| `Descriptors_owned` | one owner each; what `connect_any` returns and throws; how long it waits; it ends | two connecting threads, an acceptor and three descriptors, so that each can be the one for whom none is left and each can be given the number another has just closed; two addresses, so that one may time out and the other not; a timeout of two milliseconds of two ticks, so that what is left after a signal is not a whole number. 657,000 states |
| `Histogram_merged` | the run is the union of its workers, no percentile under-reports, none is off by more than the bound | two workers, three batches of 1, 9 or 99 equal samples, so that p50, p90 and p99 fall on either side of a batch; four slots to the octave and a largest value of 21 in place of 128 and a minute; values at both ends of a slot, of an octave, of the layout, and past it |

The bounds are `Horizon` (the last tick), `MaxStolen` (ticks each thread may lose while it could run) / `MaxStalls` (all of them together), `MaxTurns` (turns of a closed-loop worker), `MaxCommands` (instructions), `MaxBatches` (steps in which samples are recorded), `Window` (pieces on their way) and `MaxLines` of the control socket's operators, `Requests` (of `Exchange` and of `Http`) and `MaxFds`. The horizon of each run of a runner lies past the last tick at which anything can happen, so no behaviour is cut short: `Returns` would fail otherwise.

`SlotsConserved` and `LedgerSpec` are the core of the open loop. `RigLagIsTheRigs` and `VoidOnlyByRig` are about a verdict that, as the comments in `open_loop.hpp:82-108` say, has been wrong twice. `VoidOnlyByRig` uses the median at the scale of the run, with a threshold of `Persistent` intervals. The code compares the high edge of a slot with that threshold, so a run can be void though every lateness is below it, by a slot's share at most: one part in `SubBuckets`, which is 0.781% in the code and the whole of the sample in the run's layout of one slot to the octave. The property claims no more than that.

`SentOnSchedule` compares the time of sending with the exact time of the slot, `index * RateTicks / RateSlots`, and not with the `due_at` that the model computes: an implementation that adds up rounded intervals drifts and violates it. A request may go out past the deadline, since the code does not look at it again after the sleep (`open_loop.cpp:77-89`); the property asks then that the worker came free late or was kept from running.

`ServesItsEnvironment` says what is in force when the target begins to serve, field by field and of the cuts both ways: what each variable asks for, and nothing that none asks for.

`NoLineIsDropped` speaks of the moment at which the server gives an operator up. A read that times out leaves no whole line in the buffer; a reply that cannot be written loses what comes after it, whether the operator is gone or has read nothing for ten seconds.

`ChecksAnswerByAConfiguration`, `WaitsAsAsked` and `ConfigSpec` are about one setter at a time. That is what a program has that reads its environment and then starts one control server; `dariyanaap-null` has the first and links no control server. With two, an instruction is a series of unordered stores, and no such statement could hold.

### Where the code and its documents disagree

Three runs are expected to end in a counterexample, each to what a comment or a test says.

- `OpenLoop_timeouts` (`ExchangesBounded`): `socket` is assigned before `set_timeouts` is called, and kept when that throws. The next turn sends on it with no timeout (`open_loop.cpp:56-69`; `worker.cpp:44-59` alike). "Bound every read and write" (`socket.hpp:86`).
- `FaultKnobs_race` (`GateTruthful`): two setters may leave the gate off with a fault on (`knobs.cpp:39-45`). The rule holds with one setter, and `FlagTruthful`, whose store is under the lock, holds with any number.
- `Histogram_rank` (`WithinTheBound`): `99.9 / 100.0 * 1000.0` is 999.0000000000001 in doubles, so p99.9 of 1000 samples is the 1000th, and its bias whatever lies between that and the 999th (`histogram.cpp:24-26`; the header promises at most 0.781%, and `stats_tests.cpp:474` pins the 1000th). With `RoundsUp` empty the same run finds nothing. It never under-reports.

Seen while modelling and not made into a run.

Runners. A request that starts after the warm-up is left out if its turn began before it (`worker.cpp:35-42`; the other direction, which would pollute the distribution, is checked to be impossible by `NothingFromTheWarmup`). The pause between reading `sending` and the exchange's own clock is in neither part of a latency (`open_loop.cpp:88`, `exchange.cpp:18`), which is why `LatencyNeverFlatters` subtracts stolen ticks. A timeout is recorded at what elapsed, not at the timeout's value as `run_result.hpp` has it. A second reply that arrives after the first was consumed is taken for the next one (`raw_echo.cpp:38-42`, `exchange.cpp:13`), which is why `RepliesAreOwn` sets such a connection aside.

Faults and control. `hang yes` is answered `ok` and means off (`knobs.cpp:294`). A jitter read with the mean of an earlier instruction can draw a negative wait, which is then skipped (`knobs.cpp:70-80`). The poke of the destructor goes to 127.0.0.1 whatever host is bound, so that a server bound elsewhere would not be woken (`control.cpp:93-98`): `ControlServer` with `OnLoopback` FALSE shows it, and the run has it TRUE, as the tests bind it. An operator who sends a byte within each read timeout keeps the one thread for as long as he likes, and the destructor with it (`control.cpp:33-41`, `:84`; the comment there is about one who walks away): without its condition `Silence`, `TheThreadComesBack` fails. A line that arrives after the read has timed out and before the socket is closed is lost.

HTTP. A framed response whose status line cannot be read (`HTTP/2.0`, four digits) is a rejection and its connection is kept, where `http.hpp:40-43` and `load_tests.cpp:202-204` speak of a protocol error; `FramedByTheAnswer` leaves open which of the two it should be (`Judged`). An interim response (1xx) without a length is taken for the response, as `load_tests.cpp:380` has it, and the final one that follows is then read as the reply to the next request, against `http11_get.hpp:19-22`: `KeptInStep` lets an answer that goes on past what it promised pass, for that reason and because nothing can be known of bytes that have not arrived. A 304 with a length waits for a body that never comes. A head longer than the limit passes if its end arrives in the read that crosses it, so that this one verdict does depend on the cuts (`MayComeTo`). A length that wraps with the head is a protocol error only because what has arrived is then more than the sum.

Sockets. What is left of a connect's timeout is rounded down to whole milliseconds (`socket.cpp:77-79`): the first poll lasts a millisecond less than was asked for, a timeout of one millisecond does not wait at all, and the message still names the whole timeout. After a signal at the deadline a connect that has completed is reported as timed out, since the deadline is looked at before the descriptor; the comment at `socket.cpp:65-68` says that this cannot be. `TimedOut` and `IoError` of a connect end in the same counter, `errors.connect`, where `socket.hpp:69-73` has them in different ones.

Target. A thread that `DARIYANAAP_FAULT_HANG` holds in `before_response` never ends, whether its client is there or not, because nothing in `dariyanaap-null` lifts the hang (`dariyanaap_null.cpp:99-101`). `accept` or `set_timeouts` failing in the target's `main` ends it by `std::terminate`, not by the message of the catch clause, while a connection's thread is joinable (`dariyanaap_null.cpp:188`).

## 4. Fairness

Runners: weak fairness of the driver and of each worker (the system schedules threads; a bounded wait in the kernel ends), and of the clock. The fairness of a worker leaves out an exchange on a bare socket, which nothing bounds; `Returns` assumes there is none, and the run that refutes `ExchangesBounded` shows what happens otherwise.
Knobs: weak fairness of a thread that is inside the library. Nobody has to call it.
Control socket: weak fairness of the acceptor and of the destructor's thread; a read or a write ends at its timeout. Operators need not write, read, leave or fall silent. `TheThreadComesBack` is claimed only of runs in which writing ends at some time (`Silence`), because the code gives no more.
HTTP: weak fairness of the worker, which has a read timeout. The target owes nothing, and may babble for ever: what it writes keeps the timeout from running out.
Descriptors: weak fairness of every connecting thread and of the clock, which runs while somebody waits. The peer owes nothing, and signals need not cease.
Exchange: weak fairness of the worker, whose reads and writes are bounded, and of the stall thread; strong fairness of each thread of the target, because it looks at the stall every millisecond while the flag stays down for a whole period. The other thing that can hold it is a hang, which is not assumed to end: under one `Answer` is never enabled, and `ThreadsEnd` excepts the threads that are caught in it.

## 5. What is proved

Every theorem is about the safety part of its module's specification and holds for every value of the constants that the named assumptions of the module allow, with no bound from a `.cfg`. The first column names the theorem, the second the property of section 3 it states.

### Open loop (`OpenLoop_proofs`)

| Theorem | States |
|---|---|
| `TypeCorrect`, `TypesHold` | `TypeOK`, and the strengthening it needs |
| `SlotsAreConserved` | `SlotsConserved` |
| `KeepsTheLedger` | `LedgerSafety`: the runner implements the safety half of `SlotLedger` |
| `AccountsAlwaysBalance` | `AccountsBalance` |
| `RigLagIsAlwaysTheRigs` | `RigLagIsTheRigs` |
| `SentOnTheSchedule` | `SentOnSchedule` |
| `NoLatencyFlatters` | `LatencyNeverFlatters` |
| `EndAddsUp` | `EndLedger` |
| `OnlyTheRigVoids` | `VoidOnlyByRig` |

`TypeOK` is not inductive alone: a recorded lateness is a natural number only because clocks are read in order. `IType` adds `ClocksOrdered` (each reading a worker keeps is at most the next, and none is in the future) and `Unborn` (a worker whose thread was not started has done nothing, so the merge can skip it). `SlotsConserved` is then inductive on `IType`: the lemmas `SlotTaken`, `SlotPast` and `SlotSent` follow one slot through the three ways it can move, and `SlotsUndisturbed` covers every other step; the same lemmas give the simulation of the ledger. `AccountsBalance` follows from lemmas on the operators: each of `Account`, `AccountConnectFailure` and `Merge` keeps `Balanced`. `RigLagIsTheRigs` needs `DelayIsStolen`: from the moment a worker came free, or its slot came due if that is later, every tick was one it could have run in. Each of `claim`, `sleeping`, `sending` carries that bound to the next, and it is what the subtraction `late - waited` yields at the end.

`SentOnSchedule` rests on `DueIsRounded` (the rounded due time of a slot is within half a tick of the exact one, at any index) and on `PaceIsStolen`, which carries `DelayIsStolen` to the moment of sending: since it came free and its slot came due, a worker has lost nothing but stolen ticks. `LatencyNeverFlatters` needs `SendIsStolen`, which carries `DelayIsStolen` past the moment of sending. `EndLedger` needs `HeldInWindow` (the slot a worker carries is due before the deadline) and is about sums over workers: `IEnd` says that the slots handed out are those the workers hold, have sent or have found past the end, each counted in its worker's tally, and that the merged tally is the sum over those that have been merged. `VoidOnlyByRig` needs `RunRigIsTheRigs`, which says that every rig-side sample of the run is bounded by the ticks stolen from some worker, `MiddleIsASample` (the least value at which the running count reaches half is one that somebody recorded) and `MedianIsNearASample`: the high edge of its slot exceeds it by a slot's share at most (`SlotIsNarrow` of `CountingLaws`), and the longest sample, which is reported past the layout, is a sample too.

### Closed loop and its series (`ClosedLoop_proofs`)

| Theorem | States |
|---|---|
| `TypeCorrect` | the types, with the order of the clock readings |
| `AccountsAlwaysBalance` | `AccountsBalance` |
| `WarmupIsNotCounted` | `NothingFromTheWarmup` |
| `SeriesIsAlwaysTheHistogram` | `SeriesIsTheHistogram` |
| `RunIsAlwaysTheMerged` | the merged tally and series are the sums of those merged |
| `NothingIsEverLeftBehind` | `NothingIsLeftBehind` |

`IType` orders the readings of a worker (turn, then begun, then now) and says with `HasResult` that a worker accounts only for an exchange it has had. `NothingFromTheWarmup` is then a step property. For `SeriesIsTheHistogram` the unit is one value of one worker's samples: it is pending or flushed, once, and the lemmas `AbsorbAdds` and `FlushKeepsAll` say what the two operations do to it, whatever second they happen in. `RunIsTheMerged` needs `Phases` (who is done by the time the driver merges, and that it merges in turn); together with the series it gives `NothingIsLeftBehind`.

### Exchange (`Exchange_proofs`)

| Theorem | States |
|---|---|
| `AlwaysInStep` | `IStep`, the inductive invariant behind the other two |
| `RepliesAreAlwaysOwn` | `RepliesAreOwn` |
| `ReusedOnlyClean` | `ReusedClean` |

Neither property is inductive: that a reply is the request's own follows from where every piece of it is. `IStep` says that the pieces of the present request are with the worker, on the way, in the target's buffer, with its writer or on the way back, that they are conserved, and that nothing else is in either stream. `Await` describes in numbers what the target's thread does next, for each of its states, and `WholeReply` what the worker may conclude when the reply is complete. Every step of either side moves pieces from one place to the next and keeps the sum.

### Fault knobs (`FaultKnobs_proofs`)

| Theorem | States | Setters at once |
|---|---|---|
| `TypeCorrect` | `TypeOK` | any number |
| `FlagIsTruthful` | `FlagTruthful` | any number |
| `EnvironmentIsServed` | `ServesItsEnvironment` | one |
| `GateIsTruthful` | `GateTruthful` | one |
| `KnobsAreAConfiguration` | `ConfigSpec`: the knobs implement `FaultConfig` | one |
| `ChecksAreConsistent` | `ChecksAnswerByAConfiguration` | one |
| `ResponsesWaitAsAsked` | `WaitsAsAsked` | one |

`IType` types the programs' counters and says that only accepted arguments are ever stored. `ILock` says that who holds the lock is inside the locked section of its program, and where in it the flag and the table differ. The last five assume `OneSetter`, which is how a program with one control server uses the library: `main` reads the environment before anything else runs, and then one acceptor's thread serves one operator at a time. The run `FaultKnobs_race` shows that they fail without it. `IOne` follows the one program: `Midway` says, for the stage (`Stage`) its counter has reached, which atomics already hold the new configuration and which still the old, and `Refreshing` and `GateFollows` what `refresh_gate` has read and what the gate is therefore about to be. `IEnv` follows the environment: between two variables the configuration in force is what those obeyed so far ask for (`Configured`), while one is obeyed it was so before, and `OneMore` says that one more undoes none of the earlier ones, since each verb but `partition` comes once and none switches off what another asks for (`EnvironmentsAssumption`, from the one list of variables in `knobs.cpp:240-266`). `IReader` says of each reader that what it has loaded so far is what one of the configurations in `could` says, which a later store cannot take back. The number of readers is arbitrary. The arguments of a command are assumed to be of the types that the signatures in `knobs.hpp` give them (`CommandsAssumption`).

### Control socket (`Streams_proofs`)

| Theorem | States |
|---|---|
| `LinesAreObeyedOnce` | `LinesObeyedOnce` |
| `NoLineIsEverDropped` | `NoLineIsDropped` |

For any number of operators, whichever calls fail, wherever the socket is bound and whenever the destructor runs. `NoLineIsDropped` is about the step that gives an operator up, by a read that ended or a reply that was not written. The ends of lines are counted in what an operator has written and nobody has obeyed: `EndsAppend` for a piece that arrives, associativity of concatenation for a read that moves some of them from the wire to the buffer, `EndsAfterFirst` for a line that is taken, `EndsOfTheRest` for the parts of one that is not finished. `Served` says that the acceptor goes back to reading only when no whole line is left, which is why giving up there drops nothing; `GivenUpStays` that who is given up stays so. `Queue` says that whoever waits or is served is connected and is there once, and that the poke is never served, because `stopping` was set before it (`Told`): otherwise a second serving of the same connection could obey a line after its count was closed.

### HTTP (`Streams_proofs`)

| Theorem | States |
|---|---|
| `HttpIsFramed` | `FramedByTheAnswer` |
| `HttpKeepsInStep` | `KeptInStep` |
| `RequestIsOne` | what `build_get` makes of a host and path it lets through has one blank line, its last |
| `LengthIsWorth` | `content_length` computes what the digits are worth, up to the largest `size_t`, for any number of digits |

For every host and path, every response with any number of header lines, any digits in a length and anything in the body, every way to cut it into reads, every limit of the head and any number of requests.

Both properties speak of an exchange that is over, or of what is left in the stream, and say nothing of the text that has been read, so neither is inductive. `HttpInv` adds `Arriving`: while the worker reads, what it has gathered was not enough, and what it has gathered together with what is under way is exactly the answer as the target rendered it (`ReadMoves`: a read moves the cut and changes nothing else); or, when the target babbles, it is lines of three pieces in which only the second is a CR, so that no blank line is ever among them (`EndlessHasNoEnd`, `EndlessGrows`). `Arriving` also says that a head which is there whole is no longer than the limit and one read, because before that read there was no blank line and the buffer was within the limit. With `MaxHead + Chunk <= SizeMax` the head itself therefore fits a `size_t`, and its sum with a declared length, which may wrap, is then judged right: what wraps is smaller than the head that has arrived. `Begun` says that the request the worker holds is one request, which is what keeps a target from answering twice; it rests on `RequestIsOne`, an account of every CR in the request.

A read is judged by `JudgedRight`: whatever prefix of a rendered answer has arrived, `Consume` says `Malformed`, `Complete` or `NeedMore` only as the answer deserves. `HeadEnds` finds the first blank line of the prefix where the head of the answer ends, or nowhere while the head is not whole, whatever blank lines the body has; `NamedLines` shows that the lines `header_value` finds in the text are the fields of that name, the first of them first; `SaidLength` and `Framing` put them together. Two folds stand between the text and the answer: `FlattenSeq`, which renders the header lines, and the fold over the digits of a length. The prover has no induction over data, but both are recursive functions, and a recursive function is its equation once the equation is known to have a solution: `FoldingExists` builds one for sets of at most c places from one for sets of fewer (by least counterexample, as in `CountingLaws`), and `FlattenedLines` gives the rendered lines in closed form, three pieces to a field. From there `WorthByPlace` and `LengthByPlace` go through the digits one at a time, and `LengthIsWorth` compares the two: as long as the digits so far are worth no more than `SizeMax` the code's length is their worth, and from the first digit that takes it past, or that is none, it is `Absent` and remains so.

### Histogram (`Histogram_proofs`)

| Theorem | States |
|---|---|
| `SlotsPartition` | each value up to the largest is within the bounds of its own slot and of no other; slots meet without a gap |
| `RunIsAlwaysTheUnion` | `RunIsTheUnion` |
| `SummaryNeverUnderReports` | `NeverUnderReports` |
| `BiasIsBounded` | `WithinTheBound`, where no rank is rounded up |

For every number of slots to the octave that is a power of two, every largest value, any number of workers and samples. The layout rests on the laws of `CountingLaws`; `PastTheSlot` and `SlotsMeet` add how slots follow each other. `Holds` says that a histogram is that of a given number of samples of each value; `record` and `merge` keep it. The lemmas on ranks say that the slot at which the running count of slots reaches a rank is that of the sample at which the running count of samples does (`SlotOfTheSample`), and that the code's rank is not below the exact one (`NotBelow`). `BiasIsBounded` says `RanksAreExact => WithinTheBound`: with the code's doubles the hypothesis fails only at p99.9 of a multiple of a thousand samples, which is the run `Histogram_rank`. `LayoutAssumption` says that the largest value is a 64-bit integer, as it is in the code.

### Sockets (`Descriptors_proofs`)

| Theorem | States |
|---|---|
| `OwnedOnce` | `OneOwner` |
| `WordIsKept` | `ConnectKeepsItsWord` |
| `TimeoutIsWaited` | `WaitsItsTimeout` |

For any number of threads, addresses and descriptors, any timeout and any length of a millisecond, whatever calls fail and whenever signals come. `OneOwner` alone does not say that a `Socket` about to be assigned is empty, and an assignment onto a full one would lose a descriptor. `IOwner` adds `Stage`: a thread holds a local `Socket` exactly between the call that made it and the move or close that ends it, and keeps none while it connects. The lemmas `LocalClosed`, `KeptClosed`, `DescriptorOpened`, `EntryRewritten` and `SocketKept` are the five things that can happen to a descriptor, and each keeps `OneOwner`; every action is one of them or leaves descriptors alone. `Well` says what is known of a descriptor on its way to being kept, and a step of one thread leaves the others' alone (`Frame`) because what one owns no other does. `Told` counts: at address n there are n - 1 failures on record, and the flag `every_attempt_timed_out` is what the record says. `Clocked` puts the end of a poll within a millisecond of the deadline, by `RoundedDown`, the one fact of arithmetic, and a failure is recorded as `TimedOut` only when that end or the deadline has come (`StepAdds`).

### Sums, powers and the layout (`CountingLaws`)

A tally's total and a histogram's count are folds over functions. The library's induction theorems take an operator as a parameter, which the installed provers cannot instantiate; here induction is by least counterexample instead: a set of naturals that is not empty has a least member (`LeastNatural`), and a set of subsets of a finite set a smallest one (`SmallestSet`). Both come from well-foundedness of the order on naturals. `PartSumsExist` builds the sums over all parts of a domain, `SumIsPartSums` identifies the fold with it, and from these follow the laws that are cited: a sum does not depend on the order (`PartSumsLaw`), changes with one value by what that changes (`SumOfTheRest`), adds up over two functions (`SumOfBoth`) and two parts (`PartSplit`), and ignores zeros (`SumOfAWiderDomain`).

The prover knows no law of exponents either, so they are derived: 2^n is the number of subsets of n things, from which 2^(m+n) (`PowerSum`), monotony and the place of a value between two powers (`MsbLaw`) follow. Of the layout of `Buckets`, `WithinItsSlot` and `WithinNoOther` say that a value is in one slot, `SlotIsNarrow` that its high edge is over the value by a slot's share at most. Both the histogram's and the open loop's theorems cite them.

### What is only model-checked

All liveness (`Returns`, `LedgerSpec`'s fairness, `ChecksReturn`, `TheThreadComesBack`, `BothSidesEnd`, `EveryExchangeEnds`, `ConnectEnds`), which with `ENABLED` is beyond the prover. `WithinTheBound` is proved where no rank is rounded up, and fails elsewhere (`Histogram_rank`). Every other safety invariant and action property of a passing run is a theorem.

## 6. What is left out

Bytes, text and formatting, other than the pieces that frame an HTTP response; the contents of payloads; doubles other than in a rank (rates are ratios, probabilities are tenths of a part per million); the resolution and parsing of addresses, which wrap the system's own; the reaping of finished threads in the target; the poke's failure for want of a descriptor; the growth of the control socket's buffer under a line that never ends; how long a timeout of the control socket is (that it comes is modelled); flags, errors and the clock's conversions, which have no state; the command line and the CSV files, which are straight-line output (a failure between two files leaves a directory that looks whole, `dariyanaap.cpp:138`: a matter of the file system that a model of this code would only assume); `hist_verify` and `fault_cost`, which measure; plots, scripts and tests, which are read as evidence of what the code is meant to do.

## 7. Plan

1. (done) `Accounts`, `OpenLoop`, `SlotLedger`, the proofs; `FaultKnobs` with `FaultConfig`; `ClosedLoop`; `ControlServer`; `Exchange`.
2. (done) `Buckets` and `Histogram`, and of the layout that a value lies within the bounds of its slot and that slots meet without a gap.
3. (done) `Http`: completeness and status of a response over every way it can be cut up, against a reading of the whole, with the loop of `perform_request` around it.
4. (done) `Descriptors`: ownership by `Socket`, `Listener` and `connect_any`, with failures and signals; the target's accept loop; `Descriptors_proofs`.
5. The poke that fails for want of a descriptor, as a composition of `ControlServer` and `Descriptors`; the reaping of threads in the target.
6. (done) Proofs of every safety invariant and action property that a run checks (`WithinTheBound` where no rank is rounded up: elsewhere it fails, as `Histogram_rank` shows), `Http` included.
