----------------------------- MODULE FaultKnobs -----------------------------
(***************************************************************************)
(* The fault library as it is built (src/fault/knobs.cpp): five relaxed    *)
(* atomics, a mutex around the names and the cuts, and one gate that every *)
(* check of the serving threads reads first.                               *)
(*                                                                         *)
(* A setter is a thread that gives instructions: main, reading the         *)
(* environment before it serves, and then the control socket's thread.  An *)
(* instruction is a short program of atomic operations, and a setter       *)
(* performs one operation a step.  A reader is a serving thread of the     *)
(* target; it makes the three checks of the library, one atomic load a     *)
(* step.  Operations take effect in the order they are performed.          *)
(***************************************************************************)
EXTENDS Instructions, Sequences

CONSTANTS
  Setters, Readers,
  Environments,     \* what the environment may say: sequences of instructions
  Peers,            \* whom blocked() is asked about
  MaxCommands       \* bound: instructions given after the environment is read

ASSUME ThreadsAssumption == Setters \cap Readers = {}
\* No variable heals or clears, and each is read once; only the one with the
\* cuts is a list.
ASSUME EnvironmentsAssumption ==
  \A e \in Environments :
    /\ e \in Seq(Commands)
    /\ \A i \in 1 .. Len(e) : e[i].verb \notin {"heal", "clear"}
    /\ \A i, j \in 1 .. Len(e) :
         i # j /\ e[i].verb = e[j].verb => e[i].verb = "partition"
ASSUME BoundAssumption == MaxCommands \in Nat

Nobody == "nobody"
ASSUME NobodyAssumption == Nobody \notin Setters \cup Readers

Knobs == {"latency", "jitter", "drop", "hang", "cut"}

-----------------------------------------------------------------------------
(* Instructions as programs.                                                *)

Store(knob, value) == [do |-> "store", knob |-> knob, value |-> value]
Load(knob) == [do |-> "load", knob |-> knob]
Lock == [do |-> "lock"]
Unlock == [do |-> "unlock"]
SetName(name) == [do |-> "name", name |-> name]
InsertCut(cut) == [do |-> "insert", cut |-> cut]
EraseCut(cut) == [do |-> "erase", cut |-> cut]
ClearCuts == [do |-> "empty"]
StoreAnyCut == [do |-> "anycut"]     \* g_any_partition := !g_partitions.empty()
StoreGate == [do |-> "gate"]

(* A slip: partitions came later, and the gate was not told.                *)
RefreshWithoutCuts == <<Load("latency"), Load("drop"), Load("hang"), StoreGate>>

(* refresh_gate: the || stops at the first knob that is on.                 *)
Refresh == <<Load("latency"), Load("drop"), Load("hang"), Load("cut"), StoreGate>>

(* A slip: the flag is stored after the lock is released.                   *)
HealUnguarded(a, b) ==
  <<Lock, EraseCut(Cut(a, b)), Unlock, StoreAnyCut>> \o Refresh

Heal(a, b) == <<Lock, EraseCut(Cut(a, b)), StoreAnyCut, Unlock>> \o Refresh

(* A slip: the jitter outlives the latency it spreads.                      *)
ClearKeepingJitter ==
  <<Store("latency", 0), Store("drop", 0), Store("hang", 0),
    Lock, ClearCuts, Store("cut", 0), Unlock>> \o Refresh

Clear ==
  <<Store("latency", 0), Store("jitter", 0), Store("drop", 0), Store("hang", 0),
    Lock, ClearCuts, Store("cut", 0), Unlock>> \o Refresh

Bit(b) == IF b THEN 1 ELSE 0

Program(cmd) ==
  CASE cmd.verb = "latency" ->
         <<Store("latency", cmd.mean), Store("jitter", cmd.jitter)>> \o Refresh
    [] cmd.verb = "drop" -> <<Store("drop", Ppm(cmd.tenths))>> \o Refresh
    [] cmd.verb = "hang" -> <<Store("hang", Bit(Hanging(cmd.word)))>> \o Refresh
    [] cmd.verb = "identity" -> <<Lock, SetName(cmd.name), Unlock>>
    [] cmd.verb = "partition" ->
         <<Lock, InsertCut(Cut(cmd.a, cmd.b)), Store("cut", 1), Unlock>> \o Refresh
    [] cmd.verb = "heal" -> Heal(cmd.a, cmd.b)
    [] cmd.verb = "clear" -> Clear

-----------------------------------------------------------------------------
VARIABLES
  knob,       \* the five atomics; a flag is 0 or 1
  gate,       \* g_any
  identity,   \* g_identity
  cuts,       \* g_partitions
  holder,     \* who holds g_partition_lock
  env,        \* what the environment says
  loaded,     \* how many of its instructions have been obeyed
  phase,      \* "loading" the environment, "serving", or "exited"
  issued,     \* bound: instructions begun since
  command,    \* the instruction each setter is obeying, or Idle
  ip,         \* its next operation
  found,      \* refresh_gate's || so far
  check,      \* the check each reader makes
  at,         \* where it is in the check
  mean,       \* before_response's local latency
  wait,       \* before_response's local wait
  answer,     \* what the check returned
  before,     \* history: the configuration when the present instruction began
  could       \* history: the configurations a reader's check may answer by

shared == <<knob, gate, identity, cuts, holder>>
loading == <<env, loaded, phase>>
setterVars == <<command, ip, found>>
readerVars == <<check, at, mean, wait, answer>>
vars == <<shared, loading, issued, setterVars, readerVars, before, could>>

Idle == [verb |-> "none"]
Quiet == \A s \in Setters : command[s] = Idle

(* The configuration the shared variables spell, once no setter is midway.  *)
Spelled ==
  [latency |-> knob["latency"], jitter |-> knob["jitter"], drop |-> knob["drop"],
   hang |-> knob["hang"] = 1, identity |-> identity, cuts |-> cuts]

(* The configuration in force: an instruction counts when it is finished.   *)
InForce == IF Quiet THEN Spelled ELSE before

Checks == {[kind |-> "respond"], [kind |-> "drop"]}
            \cup {[kind |-> "blocked", peer |-> p] : p \in Peers}
NoCheck == [kind |-> "none"]

Init ==
  /\ knob = [k \in Knobs |-> 0] /\ gate = FALSE
  /\ identity = "" /\ cuts = {} /\ holder = Nobody
  /\ env \in Environments /\ loaded = 0 /\ phase = "loading"
  /\ issued = 0
  /\ command = [s \in Setters |-> Idle]
  /\ ip = [s \in Setters |-> 1]
  /\ found = [s \in Setters |-> FALSE]
  /\ check = [r \in Readers |-> NoCheck]
  /\ at = [r \in Readers |-> "outside"]
  /\ mean = [r \in Readers |-> 0]
  /\ wait = [r \in Readers |-> 0]
  /\ answer = [r \in Readers |-> FALSE]
  /\ before = Off
  /\ could = [r \in Readers |-> {}]

-----------------------------------------------------------------------------
(* Setters.                                                                 *)

Inside(r) == at[r] \notin {"outside", "returned"}

Begin(s, cmd) ==
  /\ command[s] = Idle /\ ~Refused(cmd)
  /\ command' = [command EXCEPT ![s] = cmd]
  /\ before' = InForce
  /\ could' = [r \in Readers |->
                 IF Inside(r) THEN could[r] \cup {Apply(InForce, cmd)} ELSE could[r]]
  /\ UNCHANGED <<shared, ip, found, readerVars>>

(* A slip: of a list of cuts only the first is made.                        *)
ObeyFirstCut(s) ==
  /\ phase = "loading" /\ Quiet /\ loaded < Len(env)
  /\ IF \/ Refused(env[loaded + 1])
        \/ \E i \in 1 .. loaded : {env[i].verb, env[loaded + 1].verb} = {"partition"}
     THEN UNCHANGED <<shared, setterVars, readerVars, before, could>>
     ELSE Begin(s, env[loaded + 1])
  /\ loaded' = loaded + 1
  /\ phase' = IF Refused(env[loaded + 1]) THEN "exited" ELSE phase
  /\ UNCHANGED <<env, issued>>

(* load_from_env obeys the variables in turn and throws at the first value  *)
(* it cannot read; the target then exits without serving.                   *)
ObeyEnvironment(s) ==
  /\ phase = "loading" /\ Quiet /\ loaded < Len(env)
  /\ IF Refused(env[loaded + 1])
     THEN /\ phase' = "exited"
          /\ UNCHANGED <<shared, setterVars, readerVars, before, could, loaded>>
     ELSE /\ Begin(s, env[loaded + 1])
          /\ loaded' = loaded + 1
          /\ UNCHANGED phase
  /\ UNCHANGED <<env, issued>>

StartServing ==
  /\ phase = "loading" /\ Quiet /\ loaded = Len(env)
  /\ phase' = "serving"
  /\ UNCHANGED <<shared, env, loaded, issued, setterVars, readerVars, before, could>>

(* apply_command, on the control socket's thread.                           *)
ObeyCommand(s) ==
  /\ phase = "serving" /\ issued < MaxCommands
  /\ \E cmd \in Commands : Begin(s, cmd)
  /\ issued' = issued + 1
  /\ UNCHANGED loading

Operation(s) == Program(command[s])[ip[s]]
Doing(s, op) == command[s] # Idle /\ Operation(s).do = op

(* On to the next operation, or out of the instruction.                     *)
Advance(s) ==
  /\ IF ip[s] = Len(Program(command[s]))
     THEN /\ command' = [command EXCEPT ![s] = Idle]
          /\ ip' = [ip EXCEPT ![s] = 1]
     ELSE /\ ip' = [ip EXCEPT ![s] = @ + 1]
          /\ UNCHANGED command
  /\ UNCHANGED <<loading, issued, readerVars, before, could>>

StoreKnob(s) ==
  /\ \/ /\ Doing(s, "store")
        /\ knob' = [knob EXCEPT ![Operation(s).knob] = Operation(s).value]
     \/ /\ Doing(s, "anycut")
        /\ knob' = [knob EXCEPT !["cut"] = Bit(cuts # {})]
  /\ Advance(s)
  /\ UNCHANGED <<gate, identity, cuts, holder, found>>

TakeLock(s) ==
  /\ Doing(s, "lock") /\ holder = Nobody
  /\ holder' = s
  /\ Advance(s)
  /\ UNCHANGED <<knob, gate, identity, cuts, found>>

ReleaseLock(s) ==
  /\ Doing(s, "unlock")
  /\ holder' = Nobody
  /\ Advance(s)
  /\ UNCHANGED <<knob, gate, identity, cuts, found>>

ChangeNames(s) ==
  /\ \/ /\ Doing(s, "name")
        /\ identity' = Operation(s).name
        /\ UNCHANGED cuts
     \/ /\ Doing(s, "insert")
        /\ cuts' = cuts \cup {Operation(s).cut}
        /\ UNCHANGED identity
     \/ /\ Doing(s, "erase")
        /\ cuts' = cuts \ {Operation(s).cut}
        /\ UNCHANGED identity
     \/ /\ Doing(s, "empty")
        /\ cuts' = {}
        /\ UNCHANGED identity
  /\ Advance(s)
  /\ UNCHANGED <<knob, gate, holder, found>>

(* A load of refresh_gate.  One that finds its knob on goes straight to the *)
(* store of the gate, which is the last operation.                          *)
LoadKnob(s) ==
  /\ Doing(s, "load")
  /\ IF knob[Operation(s).knob] # 0
     THEN /\ found' = [found EXCEPT ![s] = TRUE]
          /\ ip' = [ip EXCEPT ![s] = Len(Program(command[s]))]
     ELSE /\ ip' = [ip EXCEPT ![s] = @ + 1]
          /\ UNCHANGED found
  /\ UNCHANGED <<shared, loading, issued, command, readerVars, before, could>>

SetGate(s) ==
  /\ Doing(s, "gate")
  /\ gate' = found[s]
  /\ found' = [found EXCEPT ![s] = FALSE]
  /\ Advance(s)
  /\ UNCHANGED <<knob, identity, cuts, holder>>

-----------------------------------------------------------------------------
(* Readers.                                                                 *)

Call(r) ==
  /\ phase = "serving" /\ ~Inside(r)
  /\ \E c \in Checks : check' = [check EXCEPT ![r] = c]
  /\ at' = [at EXCEPT ![r] = "gate"]
  /\ could' = [could EXCEPT ![r] =
                 {InForce} \cup {Apply(InForce, command[s]) :
                                   s \in {t \in Setters : command[t] # Idle}}]
  /\ mean' = [mean EXCEPT ![r] = 0]
  /\ wait' = [wait EXCEPT ![r] = 0]
  /\ answer' = [answer EXCEPT ![r] = FALSE]
  /\ UNCHANGED <<shared, loading, issued, setterVars, before>>

Quietly == UNCHANGED <<shared, loading, issued, setterVars, check, before, could>>

Move(r, label) == at' = [at EXCEPT ![r] = label]
Return(r, result) ==
  Move(r, "returned") /\ answer' = [answer EXCEPT ![r] = result]

(* The gate comes first in all three checks.                                *)
LoadGate(r) ==
  /\ at[r] = "gate"
  /\ IF ~gate THEN Return(r, FALSE)
     ELSE /\ Move(r, CASE check[r].kind = "respond" -> "latency"
                       [] check[r].kind = "drop" -> "drop"
                       [] check[r].kind = "blocked" -> "flag")
          /\ UNCHANGED answer
  /\ UNCHANGED <<mean, wait>> /\ Quietly

(* before_response.                                                         *)
LoadLatency(r) ==
  /\ at[r] = "latency"
  /\ mean' = [mean EXCEPT ![r] = knob["latency"]]
  /\ Move(r, IF knob["latency"] > 0 THEN "jitter" ELSE "hang")
  /\ UNCHANGED <<wait, answer>> /\ Quietly

(* A slip: the spread is laid above the mean instead of around it.          *)
LoadJitterAbove(r) ==
  /\ at[r] = "jitter"
  /\ \E spread \in 0 .. 2 * knob["jitter"] :
       wait' = [wait EXCEPT ![r] = mean[r] + spread]
  /\ Move(r, "hang")
  /\ UNCHANGED <<mean, answer>> /\ Quietly

(* The draw, and the sleep if what was drawn is positive.                   *)
LoadJitter(r) ==
  /\ at[r] = "jitter"
  /\ \E spread \in -knob["jitter"] .. knob["jitter"] :
       wait' = [wait EXCEPT ![r] = mean[r] + spread]
  /\ Move(r, "hang")
  /\ UNCHANGED <<mean, answer>> /\ Quietly

(* A slip: the loop watches the gate, and another fault keeps it going.     *)
PollGate(r) ==
  /\ at[r] = "hang"
  /\ IF gate THEN UNCHANGED <<at, answer>> ELSE Return(r, FALSE)
  /\ UNCHANGED <<mean, wait>> /\ Quietly

(* A slip: no hang at all.                                                  *)
PollOnce(r) ==
  /\ at[r] = "hang"
  /\ Return(r, FALSE)
  /\ UNCHANGED <<mean, wait>> /\ Quietly

(* One turn of the hang loop.                                               *)
PollHang(r) ==
  /\ at[r] = "hang"
  /\ IF knob["hang"] = 1 THEN UNCHANGED <<at, answer>> ELSE Return(r, FALSE)
  /\ UNCHANGED <<mean, wait>> /\ Quietly

(* should_drop: a draw from 0 .. 999'999, of which the ends tell enough.    *)
Draws == {0, Million - 1}

LoadDrop(r) ==
  /\ at[r] = "drop"
  /\ \E draw \in Draws : Return(r, draw < knob["drop"])
  /\ UNCHANGED <<mean, wait>> /\ Quietly

(* blocked: the second gate, and the lookup under the lock.                 *)
LoadFlag(r) ==
  /\ at[r] = "flag"
  /\ IF knob["cut"] = 0 THEN Return(r, FALSE)
     ELSE Move(r, "lookup") /\ UNCHANGED answer
  /\ UNCHANGED <<mean, wait>> /\ Quietly

LookUp(r) ==
  /\ at[r] = "lookup" /\ holder = Nobody
  /\ Return(r, identity # "" /\ Cut(identity, check[r].peer) \in cuts)
  /\ UNCHANGED <<mean, wait>> /\ Quietly

-----------------------------------------------------------------------------
SetterStep(s) ==
  \/ StoreKnob(s) \/ TakeLock(s) \/ ReleaseLock(s) \/ ChangeNames(s)
  \/ LoadKnob(s) \/ SetGate(s)

ReaderStep(r) ==
  \/ LoadGate(r) \/ LoadLatency(r) \/ LoadJitter(r) \/ PollHang(r)
  \/ LoadDrop(r) \/ LoadFlag(r) \/ LookUp(r)

(* The target has refused its environment.                                  *)
Exited == phase = "exited" /\ UNCHANGED vars

Next ==
  \/ \E s \in Setters : ObeyEnvironment(s) \/ ObeyCommand(s) \/ SetterStep(s)
  \/ \E r \in Readers : Call(r) \/ ReaderStep(r)
  \/ StartServing \/ Exited

(* A thread inside the library is scheduled.  Nobody has to call it.        *)
Fairness ==
  /\ \A s \in Setters : WF_vars(SetterStep(s))
  /\ \A r \in Readers : WF_vars(ReaderStep(r))

Safety == Init /\ [][Next]_vars
Spec == Safety /\ Fairness
-----------------------------------------------------------------------------
(* Properties.                                                              *)

TypeOK ==
  /\ knob \in [Knobs -> Nat] /\ \A k \in {"hang", "cut"} : knob[k] \in {0, 1}
  /\ gate \in BOOLEAN
  /\ holder \in Setters \cup {Nobody}
  /\ loaded \in 0 .. Len(env) /\ phase \in {"loading", "serving", "exited"}
  /\ issued \in 0 .. MaxCommands
  /\ command \in [Setters -> Commands \cup {Idle}]
  /\ \A s \in Setters : command[s] # Idle => ip[s] \in 1 .. Len(Program(command[s]))
  /\ found \in [Setters -> BOOLEAN]
  /\ check \in [Readers -> Checks \cup {NoCheck}]
  /\ at \in [Readers -> {"outside", "gate", "latency", "jitter", "hang", "drop",
                         "flag", "lookup", "returned"}]
  /\ mean \in [Readers -> Nat] /\ wait \in [Readers -> Int]
  /\ answer \in [Readers -> BOOLEAN]

(* The gate tells the truth whenever no instruction is being obeyed: it is  *)
(* open if and only if some fault is on (knobs.cpp:39-45, knobs.hpp:91-93). *)
GateTruthful == Quiet => (gate <=> Enabled(Spelled))

(* The flag in front of the cuts tells the truth whenever nobody holds the  *)
(* lock, however many setters there are: a node is never waved through past *)
(* a cut that was made (knobs.cpp:158-162, 167-171, 183-187).               *)
FlagTruthful == holder = Nobody => (knob["cut"] = 1 <=> cuts # {})

(* A check answers by a configuration that was in force, or being put in    *)
(* force, at some moment between its call and its return: no mixture of two *)
(* configurations shows through the two gates and the lock                  *)
(* (knobs.cpp:65-116).                                                      *)
AnswersBy(r, c) ==
  CASE check[r].kind = "respond" -> ~c.hang
    [] check[r].kind = "drop" -> \E draw \in Draws : answer[r] = (draw < c.drop)
    [] check[r].kind = "blocked" -> answer[r] = CutFrom(c, check[r].peer)

ChecksAnswerByAConfiguration ==
  \A r \in Readers :
    at[r] = "returned" => \E c \in could[r] : AnswersBy(r, c)

(* A response made while nobody touches the knobs waits for the mean give   *)
(* or take the jitter, whatever instructions came before (knobs.cpp:70-80). *)
WaitsAsAsked ==
  \A r \in Readers :
    at[r] = "returned" /\ check[r].kind = "respond" =>
      \A c \in could[r] :
        could[r] = {c} => wait[r] \in c.latency - c.jitter .. c.latency + c.jitter

(* What one variable of the environment asks for is so in c.                *)
Grants(c, cmd) ==
  /\ cmd.verb = "identity" => c.identity = cmd.name
  /\ cmd.verb = "latency" => c.latency = cmd.mean /\ c.jitter = cmd.jitter
  /\ cmd.verb = "drop" => c.drop = Ppm(cmd.tenths)
  /\ cmd.verb = "hang" => c.hang = Hanging(cmd.word)
  /\ cmd.verb = "partition" => Cut(cmd.a, cmd.b) \in c.cuts

(* c is what the first n variables ask for: each of them, all of them       *)
(* together, and nothing that none of them asks for.                        *)
Unset(verb, n) == \A i \in 1 .. n : env[i].verb # verb

Configured(c, n) ==
  /\ \A i \in 1 .. n : ~Refused(env[i]) /\ Grants(c, env[i])
  /\ Unset("identity", n) => c.identity = ""
  /\ Unset("latency", n) => c.latency = 0 /\ c.jitter = 0
  /\ Unset("drop", n) => c.drop = 0
  /\ Unset("hang", n) => ~c.hang
  /\ \A cut \in c.cuts :
       \E i \in 1 .. n : env[i].verb = "partition" /\ cut = Cut(env[i].a, env[i].b)

(* A target that serves runs the experiment its environment asks for, the   *)
(* whole of it and no other: no variable is passed over, none undoes        *)
(* another, and a value that cannot be read ends the target before it       *)
(* serves (knobs.hpp:108-111, knobs.cpp:240-266).                           *)
ServesItsEnvironment ==
  phase = "serving" /\ issued = 0 => Configured(Spelled, Len(env))

(* No serving thread is left waiting once the hang is over: not in the hang *)
(* loop, whatever other fault is on, and not for the lock                   *)
(* (knobs.hpp:39-41, knobs.cpp:83-88).                                      *)
ChecksReturn ==
  \A r \in Readers : <>[](knob["hang"] = 0) => []<>~Inside(r)

(* With one setter at a time, the knobs implement one configuration that    *)
(* each instruction replaces as a whole.                                    *)
Config == INSTANCE FaultConfig WITH config <- InForce
ConfigSpec == Config!Spec
=============================================================================
