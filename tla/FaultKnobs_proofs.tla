------------------------- MODULE FaultKnobs_proofs -------------------------
(***************************************************************************)
(* Theorems about FaultKnobs, for every set of instructions, environment,  *)
(* reader and peer.  Two hold for any number of setters at once; the rest  *)
(* for one setter at a time: the environment first, and then the thread of *)
(* one control socket.                                                     *)
(***************************************************************************)
EXTENDS FaultKnobs, SequenceTheorems, TLAPS

-----------------------------------------------------------------------------
(* The programs, operation by operation.                                    *)

(* What an instruction does before it refreshes the gate.                   *)
Prelude(cmd) ==
  CASE cmd.verb = "latency" -> <<Store("latency", cmd.mean), Store("jitter", cmd.jitter)>>
    [] cmd.verb = "drop" -> <<Store("drop", Ppm(cmd.tenths))>>
    [] cmd.verb = "hang" -> <<Store("hang", Bit(Hanging(cmd.word)))>>
    [] cmd.verb = "identity" -> <<Lock, SetName(cmd.name), Unlock>>
    [] cmd.verb = "partition" ->
         <<Lock, InsertCut(Cut(cmd.a, cmd.b)), Store("cut", 1), Unlock>>
    [] cmd.verb = "heal" -> <<Lock, EraseCut(Cut(cmd.a, cmd.b)), StoreAnyCut, Unlock>>
    [] cmd.verb = "clear" ->
         <<Store("latency", 0), Store("jitter", 0), Store("drop", 0), Store("hang", 0),
           Lock, ClearCuts, Store("cut", 0), Unlock>>

(* How long that is.                                                        *)
Stores(cmd) ==
  CASE cmd.verb = "latency" -> 2
    [] cmd.verb = "drop" -> 1
    [] cmd.verb = "hang" -> 1
    [] cmd.verb = "identity" -> 3
    [] cmd.verb = "partition" -> 4
    [] cmd.verb = "heal" -> 4
    [] cmd.verb = "clear" -> 8

Verbs == {"latency", "drop", "hang", "identity", "partition", "heal", "clear"}

LEMMA PreludeLength ==
  ASSUME NEW cmd, cmd.verb \in Verbs
  PROVE  /\ Len(Prelude(cmd)) = Stores(cmd)
         /\ Prelude(cmd) \in Seq({Prelude(cmd)[i] : i \in 1 .. Stores(cmd)})
<1>1. CASE cmd.verb = "latency"
  BY <1>1 DEF Prelude, Stores
<1>2. CASE cmd.verb = "drop"
  BY <1>2 DEF Prelude, Stores
<1>3. CASE cmd.verb = "hang"
  BY <1>3 DEF Prelude, Stores
<1>4. CASE cmd.verb = "identity"
  BY <1>4 DEF Prelude, Stores
<1>5. CASE cmd.verb = "partition"
  BY <1>5 DEF Prelude, Stores
<1>6. CASE cmd.verb = "heal"
  BY <1>6 DEF Prelude, Stores
<1>7. CASE cmd.verb = "clear"
  BY <1>7 DEF Prelude, Stores
<1> QED
  BY <1>1, <1>2, <1>3, <1>4, <1>5, <1>6, <1>7 DEF Verbs

(* refresh_gate follows whatever comes before it.                           *)
LEMMA ThenRefresh ==
  ASSUME NEW S, NEW p \in Seq(S)
  PROVE  /\ Len(p \o Refresh) = Len(p) + 5
         /\ \A i \in 1 .. Len(p) : (p \o Refresh)[i] = p[i]
         /\ (p \o Refresh)[Len(p) + 1] = Load("latency")
         /\ (p \o Refresh)[Len(p) + 2] = Load("drop")
         /\ (p \o Refresh)[Len(p) + 3] = Load("hang")
         /\ (p \o Refresh)[Len(p) + 4] = Load("cut")
         /\ (p \o Refresh)[Len(p) + 5] = StoreGate
<1> DEFINE T == S \cup {Load("latency"), Load("drop"), Load("hang"), Load("cut"), StoreGate}
<1>1. Refresh \in Seq(T) /\ Len(Refresh) = 5
  BY DEF Refresh
<1>2. p \in Seq(T)
  OBVIOUS
<1>3. /\ Refresh[1] = Load("latency") /\ Refresh[2] = Load("drop") /\ Refresh[3] = Load("hang")
      /\ Refresh[4] = Load("cut") /\ Refresh[5] = StoreGate
  BY DEF Refresh
<1> HIDE DEF T
<1>4. Len(p \o Refresh) = Len(p) + Len(Refresh)
  BY <1>1, <1>2, ConcatProperties
<1>5. \A i \in 1 .. Len(p) + Len(Refresh) :
        (p \o Refresh)[i] = IF i <= Len(p) THEN p[i] ELSE Refresh[i - Len(p)]
  BY <1>1, <1>2, ConcatProperties
<1> DEFINE n == Len(p)
<1>6. n \in Nat
  OBVIOUS
<1> HIDE DEF n
<1>7. \A k \in 1 .. 5 : (p \o Refresh)[n + k] = Refresh[k]
  <2> TAKE k \in 1 .. 5
  <2>1. n + k \in 1 .. n + 5 /\ ~(n + k <= n) /\ (n + k) - n = k
    BY <1>6
  <2>2. (p \o Refresh)[n + k] = Refresh[(n + k) - n]
    BY <1>1, <1>5, <2>1 DEF n
  <2> QED
    BY <2>1, <2>2
<1>8. \A i \in 1 .. n : (p \o Refresh)[i] = p[i]
  <2> TAKE i \in 1 .. n
  <2>1. i \in 1 .. n + 5 /\ i <= n
    BY <1>6
  <2> QED
    BY <1>1, <1>5, <2>1 DEF n
<1>9. 1 \in 1 .. 5 /\ 2 \in 1 .. 5 /\ 3 \in 1 .. 5 /\ 4 \in 1 .. 5 /\ 5 \in 1 .. 5
  OBVIOUS
<1>10. \A k \in 1 .. 5 : (p \o Refresh)[Len(p) + k] = Refresh[k]
  BY <1>7 DEF n
<1> QED
  BY <1>1, <1>3, <1>4, <1>8, <1>9, <1>10 DEF n

(* Every instruction but identity refreshes the gate when it has stored.    *)
LEMMA ProgramParts ==
  ASSUME NEW cmd, cmd.verb \in Verbs
  PROVE  Program(cmd) = IF cmd.verb = "identity" THEN Prelude(cmd)
                                                 ELSE Prelude(cmd) \o Refresh
  BY DEF Program, Prelude, Heal, Clear, Verbs

(* The programs, read operation by operation.                               *)
LEMMA ProgramLaws ==
  ASSUME NEW cmd, cmd.verb \in Verbs
  PROVE  /\ Stores(cmd) \in 1 .. 8
         /\ Len(Program(cmd)) = IF cmd.verb = "identity" THEN 3 ELSE Stores(cmd) + 5
         /\ \A i \in 1 .. Stores(cmd) : Program(cmd)[i] = Prelude(cmd)[i]
         /\ cmd.verb # "identity" =>
              /\ Program(cmd)[Stores(cmd) + 1] = Load("latency")
              /\ Program(cmd)[Stores(cmd) + 2] = Load("drop")
              /\ Program(cmd)[Stores(cmd) + 3] = Load("hang")
              /\ Program(cmd)[Stores(cmd) + 4] = Load("cut")
              /\ Program(cmd)[Stores(cmd) + 5] = StoreGate
<1> DEFINE p == Prelude(cmd)
           S == {p[i] : i \in 1 .. Stores(cmd)}
<1>1. p \in Seq(S) /\ Len(p) = Stores(cmd)
  BY PreludeLength
<1>2. Program(cmd) = IF cmd.verb = "identity" THEN p ELSE p \o Refresh
  BY ProgramParts
<1>3. Stores(cmd) \in 1 .. 8 /\ (cmd.verb = "identity" => Stores(cmd) = 3)
  BY DEF Stores, Verbs
<1> HIDE DEF p, S
<1>4. /\ Len(p \o Refresh) = Len(p) + 5
      /\ \A i \in 1 .. Len(p) : (p \o Refresh)[i] = p[i]
      /\ (p \o Refresh)[Len(p) + 1] = Load("latency")
      /\ (p \o Refresh)[Len(p) + 2] = Load("drop")
      /\ (p \o Refresh)[Len(p) + 3] = Load("hang")
      /\ (p \o Refresh)[Len(p) + 4] = Load("cut")
      /\ (p \o Refresh)[Len(p) + 5] = StoreGate
  BY <1>1, ThenRefresh
<1>5. Len(Program(cmd)) = IF cmd.verb = "identity" THEN 3 ELSE Stores(cmd) + 5
  BY <1>1, <1>2, <1>3, <1>4
<1>6. \A i \in 1 .. Stores(cmd) : Program(cmd)[i] = p[i]
  BY <1>1, <1>2, <1>4
<1>7. cmd.verb # "identity" => Program(cmd) = p \o Refresh
  BY <1>2
<1> QED
  BY <1>1, <1>3, <1>4, <1>5, <1>6, <1>7 DEF p

(* Where in an instruction each operation stands.                           *)
StoreOf(cmd, i, k, v) ==
  \/ cmd.verb = "latency" /\ i = 1 /\ k = "latency" /\ v = cmd.mean
  \/ cmd.verb = "latency" /\ i = 2 /\ k = "jitter" /\ v = cmd.jitter
  \/ cmd.verb = "drop" /\ i = 1 /\ k = "drop" /\ v = Ppm(cmd.tenths)
  \/ cmd.verb = "hang" /\ i = 1 /\ k = "hang" /\ v = Bit(Hanging(cmd.word))
  \/ cmd.verb = "partition" /\ i = 3 /\ k = "cut" /\ v = 1
  \/ /\ cmd.verb = "clear" /\ v = 0
     /\ \/ i = 1 /\ k = "latency"
        \/ i = 2 /\ k = "jitter"
        \/ i = 3 /\ k = "drop"
        \/ i = 4 /\ k = "hang"
        \/ i = 7 /\ k = "cut"

LoadOf(cmd, i, k) ==
  /\ cmd.verb # "identity"
  /\ \/ i = Stores(cmd) + 1 /\ k = "latency"
     \/ i = Stores(cmd) + 2 /\ k = "drop"
     \/ i = Stores(cmd) + 3 /\ k = "hang"
     \/ i = Stores(cmd) + 4 /\ k = "cut"

LockAt(cmd, i) ==
  \/ cmd.verb \in {"identity", "partition", "heal"} /\ i = 1
  \/ cmd.verb = "clear" /\ i = 5

UnlockAt(cmd, i) ==
  \/ cmd.verb = "identity" /\ i = 3
  \/ cmd.verb \in {"partition", "heal"} /\ i = 4
  \/ cmd.verb = "clear" /\ i = 8

LEMMA OperationLaws ==
  ASSUME NEW cmd, cmd.verb \in Verbs, NEW i \in 1 .. Len(Program(cmd)), NEW op,
         op = Program(cmd)[i]
  PROVE  /\ op.do = "store" => StoreOf(cmd, i, op.knob, op.value)
         /\ op.do = "anycut" => cmd.verb = "heal" /\ i = 3
         /\ op.do = "lock" => LockAt(cmd, i)
         /\ op.do = "unlock" => UnlockAt(cmd, i)
         /\ op.do = "name" => cmd.verb = "identity" /\ i = 2 /\ op.name = cmd.name
         /\ op.do = "insert" =>
              cmd.verb = "partition" /\ i = 2 /\ op.cut = Cut(cmd.a, cmd.b)
         /\ op.do = "erase" => cmd.verb = "heal" /\ i = 2 /\ op.cut = Cut(cmd.a, cmd.b)
         /\ op.do = "empty" => cmd.verb = "clear" /\ i = 6
         /\ op.do = "load" => LoadOf(cmd, i, op.knob)
         /\ op.do = "gate" => cmd.verb # "identity" /\ i = Stores(cmd) + 5
<1> USE DEF Store, Load, Lock, Unlock, SetName, InsertCut, EraseCut, ClearCuts, StoreAnyCut,
            StoreGate
<1>1. /\ Stores(cmd) \in 1 .. 8
      /\ Len(Program(cmd)) = IF cmd.verb = "identity" THEN 3 ELSE Stores(cmd) + 5
      /\ \A j \in 1 .. Stores(cmd) : Program(cmd)[j] = Prelude(cmd)[j]
      /\ cmd.verb # "identity" =>
           /\ Program(cmd)[Stores(cmd) + 1] = Load("latency")
           /\ Program(cmd)[Stores(cmd) + 2] = Load("drop")
           /\ Program(cmd)[Stores(cmd) + 3] = Load("hang")
           /\ Program(cmd)[Stores(cmd) + 4] = Load("cut")
           /\ Program(cmd)[Stores(cmd) + 5] = StoreGate
  BY ProgramLaws
<1>2. CASE i > Stores(cmd)
  <2>1. /\ cmd.verb # "identity"
        /\ i \in {Stores(cmd) + 1, Stores(cmd) + 2, Stores(cmd) + 3, Stores(cmd) + 4,
                  Stores(cmd) + 5}
    <3>1. cmd.verb = "identity" => Stores(cmd) = 3
      BY DEF Stores
    <3>2. cmd.verb # "identity" /\ i \in Stores(cmd) + 1 .. Stores(cmd) + 5
      BY <1>1, <1>2, <3>1
    <3> QED
      BY <1>1, <3>2, SMTT(60)
  <2> QED
    BY <1>1, <2>1 DEF LoadOf
<1>3. CASE i <= Stores(cmd)
  <2>1. i \in 1 .. Stores(cmd) /\ op = Prelude(cmd)[i]
    BY <1>1, <1>3
  <2>2. CASE cmd.verb = "latency"
    <3>1. i \in {1, 2}
      BY <2>1, <2>2 DEF Stores
    <3> QED
      BY <2>1, <2>2, <3>1 DEF Prelude, StoreOf, LockAt, UnlockAt
  <2>3. CASE cmd.verb = "drop"
    <3>1. i = 1
      BY <2>1, <2>3 DEF Stores
    <3> QED
      BY <2>1, <2>3, <3>1 DEF Prelude, StoreOf, LockAt, UnlockAt
  <2>4. CASE cmd.verb = "hang"
    <3>1. i = 1
      BY <2>1, <2>4 DEF Stores
    <3> QED
      BY <2>1, <2>4, <3>1 DEF Prelude, StoreOf, LockAt, UnlockAt
  <2>5. CASE cmd.verb = "identity"
    <3>1. i \in {1, 2, 3}
      BY <2>1, <2>5 DEF Stores
    <3> QED
      BY <2>1, <2>5, <3>1 DEF Prelude, StoreOf, LockAt, UnlockAt
  <2>6. CASE cmd.verb = "partition"
    <3>1. i \in {1, 2, 3, 4}
      BY <2>1, <2>6 DEF Stores
    <3> QED
      BY <2>1, <2>6, <3>1 DEF Prelude, StoreOf, LockAt, UnlockAt
  <2>7. CASE cmd.verb = "heal"
    <3>1. i \in {1, 2, 3, 4}
      BY <2>1, <2>7 DEF Stores
    <3> QED
      BY <2>1, <2>7, <3>1 DEF Prelude, StoreOf, LockAt, UnlockAt
  <2>8. CASE cmd.verb = "clear"
    <3>1. i \in {1, 2, 3, 4, 5, 6, 7, 8}
      BY <2>1, <2>8 DEF Stores
    <3> QED
      BY <2>1, <2>8, <3>1 DEF Prelude, StoreOf, LockAt, UnlockAt
  <2> QED
    BY <2>2, <2>3, <2>4, <2>5, <2>6, <2>7, <2>8 DEF Verbs
<1> QED
  BY <1>1, <1>2, <1>3

-----------------------------------------------------------------------------
(* Types.                                                                   *)

(* A name is a string; the provers do not know that "" is one.              *)
Names == STRING \cup {""}

Configs ==
  [latency : Nat, jitter : Nat, drop : Nat, hang : BOOLEAN, identity : Names,
   cuts : SUBSET SUBSET Names]

(* The instruction a setter is obeying, and how far it has got.             *)
AtWork ==
  /\ command \in [Setters -> Commands \cup {Idle}] /\ ip \in [Setters -> Nat]
  /\ found \in [Setters -> BOOLEAN]
  /\ \A s \in Setters :
       IF command[s] = Idle THEN ip[s] = 1
       ELSE ip[s] \in 1 .. Len(Program(command[s])) /\ ~Refused(command[s])

Shared ==
  /\ knob \in [Knobs -> Nat] /\ knob["hang"] \in {0, 1} /\ knob["cut"] \in {0, 1}
  /\ gate \in BOOLEAN /\ holder \in Setters \cup {Nobody}
  /\ identity \in Names /\ cuts \in SUBSET SUBSET Names

Loading ==
  /\ env \in Seq(Commands) /\ loaded \in 0 .. Len(env)
  /\ phase \in {"loading", "serving", "exited"} /\ issued \in 0 .. MaxCommands
  /\ phase # "exited" => \A i \in 1 .. loaded : ~Refused(env[i])
  /\ phase = "serving" => loaded = Len(env)

Places == {"outside", "gate", "latency", "jitter", "hang", "drop", "flag", "lookup",
           "returned"}

Reading ==
  /\ check \in [Readers -> Checks \cup {NoCheck}] /\ at \in [Readers -> Places]
  /\ mean \in [Readers -> Nat] /\ wait \in [Readers -> Int]
  /\ answer \in [Readers -> BOOLEAN]
  /\ \A r \in Readers :
       /\ at[r] # "outside" => check[r] \in Checks
       /\ at[r] \in {"latency", "jitter", "hang"} => check[r].kind = "respond"
       /\ at[r] = "drop" => check[r].kind = "drop"
       /\ at[r] \in {"flag", "lookup"} => check[r].kind = "blocked"

History == before \in Configs /\ could \in [Readers -> SUBSET Configs]

IType == AtWork /\ Shared /\ Loading /\ Reading /\ History

(* The kinds of instruction.                                                *)
LEMMA CommandLaws ==
  ASSUME NEW cmd \in Commands
  PROVE  /\ cmd.verb \in Verbs /\ cmd # Idle
         /\ cmd.verb = "latency" => cmd.mean \in Int /\ cmd.jitter \in Int
         /\ cmd.verb = "drop" => cmd.tenths \in Int
         /\ cmd.verb = "identity" => cmd.name \in Names
         /\ cmd.verb \in {"partition", "heal"} =>
              Cut(cmd.a, cmd.b) \in SUBSET Names
<1>1. cmd \in Latencies \cup Drops \cup Hangs \cup Identities \cup Pairs \cup Clears
  BY CommandsAssumption
<1>2. CASE cmd \in Latencies
  BY <1>2 DEF Latencies, Idle, Verbs
<1>3. CASE cmd \in Drops
  BY <1>3 DEF Drops, Idle, Verbs
<1>4. CASE cmd \in Hangs
  BY <1>4 DEF Hangs, Idle, Verbs
<1>5. CASE cmd \in Identities
  <2>1. cmd.name \in STRING /\ cmd.verb = "identity"
    BY <1>5 DEF Identities
  <2>2. cmd.name \in Names
    BY <2>1 DEF Names
  <2> QED
    BY <2>1, <2>2 DEF Idle, Verbs
<1>6. CASE cmd \in Pairs
  <2>1. cmd.a \in STRING /\ cmd.b \in STRING /\ cmd.verb \in {"partition", "heal"}
    BY <1>6 DEF Pairs
  <2>2. Cut(cmd.a, cmd.b) \in SUBSET Names
    BY <2>1 DEF Names, Cut
  <2> QED
    BY <2>1, <2>2 DEF Idle, Verbs
<1>7. CASE cmd \in Clears
  BY <1>7 DEF Clears, Idle, Verbs
<1> QED
  BY <1>1, <1>2, <1>3, <1>4, <1>5, <1>6, <1>7

LEMMA PpmLaw == \A tenths \in Int : tenths >= 0 => Ppm(tenths) \in Nat
  BY DEF Ppm

(* What an instruction changes in the configuration c, and what it keeps.   *)
Changed(cmd, c, d) ==
  /\ cmd.verb = "latency" => d.latency = cmd.mean /\ d.jitter = cmd.jitter
  /\ cmd.verb = "drop" => d.drop = Ppm(cmd.tenths)
  /\ cmd.verb = "hang" => d.hang = Hanging(cmd.word)
  /\ cmd.verb = "identity" => d.identity = cmd.name
  /\ cmd.verb = "partition" => d.cuts = c.cuts \cup {Cut(cmd.a, cmd.b)}
  /\ cmd.verb = "heal" => d.cuts = c.cuts \ {Cut(cmd.a, cmd.b)}
  /\ cmd.verb = "clear" => /\ d.latency = 0 /\ d.jitter = 0 /\ d.drop = 0
                          /\ d.hang = FALSE /\ d.cuts = {}
  /\ cmd.verb \notin {"latency", "clear"} => d.latency = c.latency /\ d.jitter = c.jitter
  /\ cmd.verb \notin {"drop", "clear"} => d.drop = c.drop
  /\ cmd.verb \notin {"hang", "clear"} => d.hang = c.hang
  /\ cmd.verb # "identity" => d.identity = c.identity
  /\ cmd.verb \notin {"partition", "heal", "clear"} => d.cuts = c.cuts

(* An instruction that is not refused leaves a configuration behind, and    *)
(* changes in it what its verb says.                                        *)
LEMMA ApplyLaws ==
  ASSUME NEW cmd \in Commands, ~Refused(cmd), NEW c \in Configs
  PROVE  Apply(c, cmd) \in Configs /\ Changed(cmd, c, Apply(c, cmd))
<1> DEFINE d == Apply(c, cmd)
<1> USE CommandLaws DEF Changed
<1>1. CASE cmd.verb = "latency"
  <2>1. cmd.mean \in Nat /\ cmd.jitter \in Nat
    BY <1>1 DEF Refused
  <2>2. d = [c EXCEPT !.latency = cmd.mean, !.jitter = cmd.jitter]
    BY <1>1 DEF Apply
  <2>3. /\ d \in Configs /\ d.latency = cmd.mean /\ d.jitter = cmd.jitter
        /\ d.drop = c.drop /\ d.hang = c.hang /\ d.identity = c.identity /\ d.cuts = c.cuts
    <3>1. d = [latency |-> cmd.mean, jitter |-> cmd.jitter, drop |-> c.drop,
               hang |-> c.hang, identity |-> c.identity, cuts |-> c.cuts]
      BY <2>2 DEF Configs
    <3> QED
      BY <2>1, <3>1 DEF Configs
  <2> QED
    BY <1>1, <2>3
<1>2. CASE cmd.verb = "drop"
  <2>1. Ppm(cmd.tenths) \in Nat
    BY <1>2, PpmLaw DEF Refused
  <2> QED
    BY <1>2, <2>1 DEF Apply, Configs
<1>3. CASE cmd.verb = "hang"
  <2>1. Hanging(cmd.word) \in BOOLEAN
    BY DEF Hanging
  <2>2. PICK hanging \in BOOLEAN : hanging = Hanging(cmd.word)
    BY <2>1
  <2>3. d = [c EXCEPT !.hang = hanging]
    BY <1>3, <2>2 DEF Apply
  <2>4. /\ d \in Configs /\ d.hang = hanging /\ d.latency = c.latency /\ d.jitter = c.jitter
        /\ d.drop = c.drop /\ d.identity = c.identity /\ d.cuts = c.cuts
    BY <2>3 DEF Configs
  <2> QED
    BY <1>3, <2>2, <2>4
<1>4. CASE cmd.verb = "identity"
  BY <1>4 DEF Apply, Configs
<1>5. CASE cmd.verb = "partition"
  BY <1>5 DEF Apply, Configs
<1>6. CASE cmd.verb = "heal"
  BY <1>6 DEF Apply, Configs
<1>7. CASE cmd.verb = "clear"
  BY <1>7 DEF Apply, Configs, Off
<1> QED
  BY <1>1, <1>2, <1>3, <1>4, <1>5, <1>6, <1>7 DEF Verbs

(* The next operation of a setter at work.                                  *)
Last(cmd) == IF cmd.verb = "identity" THEN 3 ELSE Stores(cmd) + 5

LEMMA AtWorkLaws ==
  ASSUME AtWork, NEW s \in Setters, command[s] # Idle
  PROVE  /\ command[s] \in Commands /\ command[s].verb \in Verbs /\ ~Refused(command[s])
         /\ Len(Program(command[s])) = Last(command[s]) /\ Stores(command[s]) \in 1 .. 8
         /\ ip[s] \in 1 .. Last(command[s])
<1>1. command[s] \in Commands /\ ~Refused(command[s])
      /\ ip[s] \in 1 .. Len(Program(command[s]))
  BY DEF AtWork
<1>2. command[s].verb \in Verbs
  BY <1>1, CommandLaws
<1>3. Len(Program(command[s])) = Last(command[s]) /\ Stores(command[s]) \in 1 .. 8
  BY <1>2, ProgramLaws DEF Last
<1> QED
  BY <1>1, <1>2, <1>3

LEMMA NextOperation ==
  ASSUME AtWork, NEW s \in Setters, command[s] # Idle
  PROVE  LET cmd == command[s]
             i == ip[s]
             op == Operation(s)
         IN  /\ op.do = "store" => StoreOf(cmd, i, op.knob, op.value)
             /\ op.do = "anycut" => cmd.verb = "heal" /\ i = 3
             /\ op.do = "lock" => LockAt(cmd, i)
             /\ op.do = "unlock" => UnlockAt(cmd, i)
             /\ op.do = "name" => cmd.verb = "identity" /\ i = 2 /\ op.name = cmd.name
             /\ op.do = "insert" =>
                  cmd.verb = "partition" /\ i = 2 /\ op.cut = Cut(cmd.a, cmd.b)
             /\ op.do = "erase" =>
                  cmd.verb = "heal" /\ i = 2 /\ op.cut = Cut(cmd.a, cmd.b)
             /\ op.do = "empty" => cmd.verb = "clear" /\ i = 6
             /\ op.do = "load" => LoadOf(cmd, i, op.knob)
             /\ op.do = "gate" => cmd.verb # "identity" /\ i = Stores(cmd) + 5
<1>1. command[s].verb \in Verbs /\ ip[s] \in 1 .. Len(Program(command[s]))
  BY AtWorkLaws
<1>2. Operation(s) = Program(command[s])[ip[s]]
  BY DEF Operation
<1> QED
  BY <1>1, <1>2, OperationLaws

(* A setter goes on, or has finished.                                       *)
LEMMA Advances ==
  ASSUME AtWork, NEW s \in Setters, command[s] # Idle, Advance(s), found' \in [Setters -> BOOLEAN]
  PROVE  /\ AtWork'
         /\ IF ip[s] = Last(command[s])
            THEN command' = [command EXCEPT ![s] = Idle] /\ ip' = [ip EXCEPT ![s] = 1]
            ELSE command' = command /\ ip' = [ip EXCEPT ![s] = ip[s] + 1]
<1>1. /\ Len(Program(command[s])) = Last(command[s]) /\ Stores(command[s]) \in 1 .. 8
      /\ ip[s] \in 1 .. Last(command[s]) /\ ip[s] \in Nat /\ ~Refused(command[s])
  BY AtWorkLaws DEF AtWork
<1>2. CASE ip[s] = Last(command[s])
  <2>1. command' = [command EXCEPT ![s] = Idle] /\ ip' = [ip EXCEPT ![s] = 1]
    BY <1>1, <1>2 DEF Advance
  <2> QED
    BY <1>2, <2>1 DEF AtWork
<1>3. CASE ip[s] # Last(command[s])
  <2>1. command' = command /\ ip' = [ip EXCEPT ![s] = ip[s] + 1]
    BY <1>1, <1>3 DEF Advance
  <2>2. ip[s] + 1 \in 1 .. Last(command[s])
    BY <1>1, <1>3 DEF Last
  <2>3. ASSUME NEW t \in Setters
        PROVE  IF command[t] = Idle THEN ip'[t] = 1
               ELSE ip'[t] \in 1 .. Len(Program(command[t])) /\ ~Refused(command[t])
    BY <1>1, <2>1, <2>2 DEF AtWork
  <2> QED
    BY <1>1, <1>3, <2>1, <2>3 DEF AtWork
<1> QED
  BY <1>2, <1>3

(* A load goes on, or straight to the store of the gate.                    *)
LEMMA Loads ==
  ASSUME AtWork, NEW s \in Setters, LoadKnob(s)
  PROVE  /\ AtWork' /\ command' = command /\ command[s] # Idle
         /\ LoadOf(command[s], ip[s], Operation(s).knob)
         /\ IF knob[Operation(s).knob] # 0
            THEN /\ found' = [found EXCEPT ![s] = TRUE]
                 /\ ip' = [ip EXCEPT ![s] = Stores(command[s]) + 5]
            ELSE found' = found /\ ip' = [ip EXCEPT ![s] = ip[s] + 1]
<1>1. command[s] # Idle /\ Operation(s).do = "load" /\ command' = command
  BY DEF LoadKnob, Doing
<1>2. LoadOf(command[s], ip[s], Operation(s).knob)
  BY <1>1, NextOperation
<1>3. /\ Len(Program(command[s])) = Stores(command[s]) + 5 /\ Stores(command[s]) \in 1 .. 8
      /\ ~Refused(command[s])
  BY <1>1, <1>2, AtWorkLaws DEF LoadOf, Last
<1>4. IF knob[Operation(s).knob] # 0
      THEN /\ found' = [found EXCEPT ![s] = TRUE]
           /\ ip' = [ip EXCEPT ![s] = Stores(command[s]) + 5]
      ELSE found' = found /\ ip' = [ip EXCEPT ![s] = ip[s] + 1]
  BY <1>1, <1>3 DEF LoadKnob
<1>5. ip[s] + 1 \in 1 .. Stores(command[s]) + 5 /\ Stores(command[s]) + 5 \in 1 .. Stores(command[s]) + 5
  BY <1>2, <1>3 DEF LoadOf
<1>6. /\ found' \in [Setters -> BOOLEAN] /\ ip' \in [Setters -> Nat]
      /\ \A t \in Setters : t # s => ip'[t] = ip[t]
      /\ ip'[s] \in 1 .. Stores(command[s]) + 5
  <2>1. CASE knob[Operation(s).knob] # 0
    <3>1. found' = [found EXCEPT ![s] = TRUE] /\ ip' = [ip EXCEPT ![s] = Stores(command[s]) + 5]
      BY <1>4, <2>1
    <3> DEFINE last == Stores(command[s]) + 5
    <3>2. last \in Nat /\ last \in 1 .. last
      BY <1>3, <1>5
    <3>3. ip' = [ip EXCEPT ![s] = last]
      BY <3>1
    <3> HIDE DEF last
    <3>4. ip' \in [Setters -> Nat] /\ ip'[s] = last /\ \A t \in Setters : t # s => ip'[t] = ip[t]
      BY <3>2, <3>3 DEF AtWork
    <3>5. found' \in [Setters -> BOOLEAN]
      BY <3>1 DEF AtWork
    <3> QED
      BY <3>2, <3>4, <3>5 DEF last
  <2>2. CASE knob[Operation(s).knob] = 0
    BY <1>3, <1>4, <1>5, <2>2 DEF AtWork
  <2> QED
    BY <2>1, <2>2
<1>7. AtWork'
  BY <1>1, <1>3, <1>6 DEF AtWork
<1> QED
  BY <1>1, <1>2, <1>4, <1>7

(* What a store writes.                                                     *)
LEMMA Stored ==
  ASSUME NEW cmd \in Commands, ~Refused(cmd), NEW i, NEW k, NEW v, StoreOf(cmd, i, k, v)
  PROVE  k \in Knobs /\ v \in Nat /\ (k \in {"hang", "cut"} => v \in {0, 1})
<1>1. /\ cmd.verb = "latency" => cmd.mean \in Nat /\ cmd.jitter \in Nat
      /\ cmd.verb = "drop" => Ppm(cmd.tenths) \in Nat
  <2>1. cmd.verb = "latency" => cmd.mean \in Nat /\ cmd.jitter \in Nat
    BY CommandLaws DEF Refused
  <2>2. cmd.verb = "drop" => cmd.tenths \in Int /\ cmd.tenths >= 0
    BY CommandLaws DEF Refused
  <2> QED
    BY <2>1, <2>2, PpmLaw
<1> QED
  BY <1>1 DEF StoreOf, Knobs, Bit

(* A setter's operations keep the types.                                    *)
LEMMA SetterTypes ==
  ASSUME IType, NEW s \in Setters, SetterStep(s)
  PROVE  IType'
<1> USE DEF IType
<1> SUFFICES AtWork' /\ Shared'
  <2>1. UNCHANGED <<loading, issued, readerVars, before, could>>
    BY DEF SetterStep, StoreKnob, TakeLock, ReleaseLock, ChangeNames, LoadKnob, SetGate, Advance
  <2> QED
    BY <2>1 DEF Loading, Reading, History, loading, readerVars
<1>1. CASE StoreKnob(s)
  <2>1. command[s] # Idle /\ Advance(s) /\ found' = found /\ UNCHANGED <<gate, identity, cuts, holder>>
    BY <1>1 DEF StoreKnob, Doing
  <2>2. AtWork'
    BY <2>1, Advances DEF AtWork
  <2>3. command[s] \in Commands /\ ~Refused(command[s])
    BY <2>1, AtWorkLaws
  <2>4. PICK k \in Knobs, v \in Nat :
          knob' = [knob EXCEPT ![k] = v] /\ (k \in {"hang", "cut"} => v \in {0, 1})
    <3>1. CASE Doing(s, "store") /\ knob' = [knob EXCEPT ![Operation(s).knob] = Operation(s).value]
      <4>1. StoreOf(command[s], ip[s], Operation(s).knob, Operation(s).value)
        BY <2>1, <3>1, NextOperation DEF Doing
      <4> QED
        BY <2>3, <3>1, <4>1, Stored
    <3>2. CASE Doing(s, "anycut") /\ knob' = [knob EXCEPT !["cut"] = Bit(cuts # {})]
      BY <3>2 DEF Knobs, Bit
    <3> QED
      BY <1>1, <3>1, <3>2 DEF StoreKnob
  <2>5. Shared'
    BY <2>1, <2>4 DEF Shared, Knobs
  <2> QED
    BY <2>2, <2>5
<1>2. CASE TakeLock(s) \/ ReleaseLock(s)
  <2>1. /\ command[s] # Idle /\ Advance(s) /\ found' = found
        /\ UNCHANGED <<knob, gate, identity, cuts>> /\ holder' \in {s, Nobody}
    BY <1>2 DEF TakeLock, ReleaseLock, Doing
  <2>2. AtWork'
    BY <2>1, Advances DEF AtWork
  <2> QED
    BY <2>1, <2>2 DEF Shared
<1>3. CASE ChangeNames(s)
  <2>1. /\ command[s] # Idle /\ Advance(s) /\ found' = found
        /\ UNCHANGED <<knob, gate, holder>>
    BY <1>3 DEF ChangeNames, Doing
  <2>2. AtWork'
    BY <2>1, Advances DEF AtWork
  <2>3. command[s] \in Commands
    BY <2>1, AtWorkLaws
  <2>4. identity' \in Names /\ cuts' \in SUBSET SUBSET Names
    <3>1. CASE Doing(s, "name") /\ identity' = Operation(s).name /\ UNCHANGED cuts
      <4>1. command[s].verb = "identity" /\ identity' = command[s].name
        BY <2>1, <3>1, NextOperation DEF Doing
      <4> QED
        BY <2>3, <3>1, <4>1, CommandLaws DEF Shared
    <3>2. CASE Doing(s, "insert") /\ cuts' = cuts \cup {Operation(s).cut} /\ UNCHANGED identity
      <4>1. /\ command[s].verb = "partition"
            /\ cuts' = cuts \cup {Cut(command[s].a, command[s].b)}
        BY <2>1, <3>2, NextOperation DEF Doing
      <4>2. Cut(command[s].a, command[s].b) \in SUBSET Names
        BY <2>3, <4>1, CommandLaws
      <4> QED
        BY <3>2, <4>1, <4>2 DEF Shared
    <3>3. CASE Doing(s, "erase") /\ cuts' = cuts \ {Operation(s).cut} /\ UNCHANGED identity
      BY <3>3 DEF Shared
    <3>4. CASE Doing(s, "empty") /\ cuts' = {} /\ UNCHANGED identity
      BY <3>4 DEF Shared
    <3> QED
      BY <1>3, <3>1, <3>2, <3>3, <3>4 DEF ChangeNames
  <2> QED
    BY <2>1, <2>2, <2>4 DEF Shared
<1>4. CASE LoadKnob(s)
  <2>1. UNCHANGED shared
    BY <1>4 DEF LoadKnob
  <2> QED
    BY <1>4, <2>1, Loads DEF Shared, shared
<1>5. CASE SetGate(s)
  <2>1. /\ command[s] # Idle /\ Advance(s) /\ found' = [found EXCEPT ![s] = FALSE]
        /\ UNCHANGED <<knob, identity, cuts, holder>> /\ gate' = found[s]
    BY <1>5 DEF SetGate, Doing
  <2>2. AtWork' /\ gate' \in BOOLEAN
    BY <2>1, Advances DEF AtWork
  <2> QED
    BY <2>1, <2>2 DEF Shared
<1> QED
  BY <1>1, <1>2, <1>3, <1>4, <1>5 DEF SetterStep

(* The configuration in force.                                              *)
LEMMA InForceTyped ==
  ASSUME IType
  PROVE  /\ Spelled \in Configs /\ InForce \in Configs
         /\ \A s \in Setters : command[s] # Idle => InForce = before
<1>1. Spelled \in Configs
  <2>1. PICK b \in BOOLEAN : b = (knob["hang"] = 1)
    OBVIOUS
  <2>2. Spelled = [latency |-> knob["latency"], jitter |-> knob["jitter"], drop |-> knob["drop"],
                   hang |-> b, identity |-> identity, cuts |-> cuts]
    BY <2>1 DEF Spelled
  <2> QED
    BY <2>2 DEF IType, Shared, Configs, Knobs
<1> QED
  BY <1>1 DEF IType, History, InForce, Quiet

(* So does the beginning of an instruction.                                 *)
LEMMA BeginTypes ==
  ASSUME IType, NEW s \in Setters, NEW cmd \in Commands, Begin(s, cmd)
  PROVE  AtWork' /\ Shared' /\ Reading' /\ History'
<1> USE DEF IType
<1>1. UNCHANGED <<shared, ip, found, readerVars>> /\ command' = [command EXCEPT ![s] = cmd]
      /\ command[s] = Idle /\ ~Refused(cmd)
  BY DEF Begin
<1>2. Shared' /\ Reading'
  BY <1>1 DEF Shared, Reading, shared, readerVars
<1>3. cmd # Idle /\ 1 \in 1 .. Len(Program(cmd))
  <2>1. cmd.verb \in Verbs
    BY CommandLaws
  <2>2. Len(Program(cmd)) = Last(cmd) /\ Stores(cmd) \in 1 .. 8
    BY <2>1, ProgramLaws DEF Last
  <2>3. 1 \in 1 .. Last(cmd)
    BY <2>2 DEF Last
  <2> QED
    BY <2>2, <2>3, CommandLaws
<1>4. AtWork'
  BY <1>1, <1>3 DEF AtWork
<1>5. InForce \in Configs
  BY InForceTyped
<1>6. Apply(InForce, cmd) \in Configs
  BY <1>1, <1>5, ApplyLaws
<1>7. /\ before' = InForce
      /\ could' = [r \in Readers |->
                    IF Inside(r) THEN could[r] \cup {Apply(InForce, cmd)} ELSE could[r]]
  BY DEF Begin
<1>8. History'
  BY <1>5, <1>6, <1>7 DEF History
<1> QED
  BY <1>2, <1>4, <1>8

(* And the rest of what setters do.                                         *)
LEMMA InstructTypes ==
  ASSUME IType, NEW s \in Setters, ObeyEnvironment(s) \/ ObeyCommand(s) \/ StartServing
  PROVE  IType'
<1> USE DEF IType
<1>1. CASE ObeyEnvironment(s)
  <2>1. /\ phase = "loading" /\ loaded < Len(env) /\ UNCHANGED <<env, issued>>
        /\ IF Refused(env[loaded + 1])
           THEN /\ phase' = "exited"
                /\ UNCHANGED <<shared, setterVars, readerVars, before, could, loaded>>
           ELSE Begin(s, env[loaded + 1]) /\ loaded' = loaded + 1 /\ UNCHANGED phase
    BY <1>1 DEF ObeyEnvironment
  <2>2. loaded + 1 \in 1 .. Len(env) /\ env[loaded + 1] \in Commands
    BY <2>1 DEF Loading
  <2>3. CASE Refused(env[loaded + 1])
    BY <2>1, <2>3 DEF AtWork, Shared, Loading, Reading, History, shared, setterVars, readerVars
  <2>4. CASE ~Refused(env[loaded + 1])
    <3>1. Begin(s, env[loaded + 1]) /\ loaded' = loaded + 1 /\ UNCHANGED <<phase, env, issued>>
      BY <2>1, <2>4
    <3>2. \A i \in 1 .. loaded + 1 : i \in 1 .. loaded \/ i = loaded + 1
      BY DEF Loading
    <3>3. Loading'
      BY <2>1, <2>2, <2>4, <3>1, <3>2 DEF Loading
    <3> QED
      BY <2>2, <3>1, <3>3, BeginTypes
  <2> QED
    BY <2>3, <2>4
<1>2. CASE ObeyCommand(s)
  <2>1. PICK cmd \in Commands : Begin(s, cmd)
    BY <1>2 DEF ObeyCommand
  <2>2. Loading'
    BY <1>2, BoundAssumption DEF ObeyCommand, Loading, loading
  <2> QED
    BY <2>1, <2>2, BeginTypes
<1>3. CASE StartServing
  BY <1>3 DEF StartServing, AtWork, Shared, Loading, Reading, History, shared, setterVars, readerVars
<1> QED
  BY <1>1, <1>2, <1>3

LEMMA CallTypes ==
  ASSUME IType, NEW r \in Readers, Call(r)
  PROVE  IType'
<1> USE DEF IType
<1>1. UNCHANGED <<shared, loading, issued, setterVars, before>>
  BY DEF Call
<1>2. AtWork' /\ Shared' /\ Loading'
  BY <1>1 DEF AtWork, Shared, Loading, shared, loading, setterVars
<1>3. Reading'
  BY DEF Call, Reading, Places
<1>4. {InForce} \cup {Apply(InForce, command[s]) : s \in {t \in Setters : command[t] # Idle}}
        \in SUBSET Configs
  <2>1. InForce \in Configs
    BY InForceTyped
  <2>2. \A s \in Setters : command[s] # Idle => Apply(InForce, command[s]) \in Configs
    BY <2>1, AtWorkLaws, ApplyLaws
  <2> QED
    BY <2>1, <2>2
<1>5. History'
  BY <1>1, <1>4 DEF Call, History
<1> QED
  BY <1>2, <1>3, <1>5

LEMMA ReaderTypes ==
  ASSUME IType, NEW r \in Readers, ReaderStep(r)
  PROVE  IType'
<1> USE DEF IType
<1>1. UNCHANGED <<shared, loading, issued, setterVars, check, before, could>>
  BY DEF ReaderStep, LoadGate, LoadLatency, LoadJitter, PollHang, LoadDrop, LoadFlag, LookUp, Quietly
<1>2. AtWork' /\ Shared' /\ Loading' /\ History'
  BY <1>1 DEF AtWork, Shared, Loading, History, shared, loading, setterVars
<1> USE DEF Reading, Places, Move, Return
<1>3. ASSUME NEW result
      PROVE  Return(r, result) /\ result \in BOOLEAN =>
               at' \in [Readers -> Places] /\ answer' \in [Readers -> BOOLEAN]
  OBVIOUS
<1>4. CASE LoadGate(r)
  <2>1. UNCHANGED <<mean, wait, check>>
    BY <1>4 DEF LoadGate, Quietly
  <2>2. CASE ~gate
    BY <1>3, <1>4, <2>1, <2>2, <1>2 DEF LoadGate
  <2>3. CASE gate
    <3>1. check[r] \in Checks /\ check[r].kind \in {"respond", "drop", "blocked"}
      BY <1>4 DEF LoadGate, Checks
    <3>2. UNCHANGED answer /\ at' = [at EXCEPT ![r] = CASE check[r].kind = "respond" -> "latency"
                                                       [] check[r].kind = "drop" -> "drop"
                                                       [] check[r].kind = "blocked" -> "flag"]
      BY <1>4, <2>3 DEF LoadGate
    <3> QED
      BY <2>1, <3>1, <3>2, <1>2
  <2> QED
    BY <2>2, <2>3
<1>5. CASE LoadLatency(r)
  BY <1>1, <1>2, <1>5 DEF LoadLatency, Shared, Knobs
<1>6. CASE LoadJitter(r)
  <2>1. PICK spread \in -knob["jitter"] .. knob["jitter"] :
          wait' = [wait EXCEPT ![r] = mean[r] + spread]
    BY <1>6 DEF LoadJitter
  <2>2. knob["jitter"] \in Nat
    BY DEF Shared, Knobs
  <2>3. mean[r] + spread \in Int
    BY <2>2
  <2> QED
    BY <1>1, <1>2, <1>6, <2>1, <2>3 DEF LoadJitter
<1>7. CASE PollHang(r)
  BY <1>1, <1>2, <1>3, <1>7 DEF PollHang
<1>8. CASE LoadDrop(r)
  BY <1>1, <1>2, <1>3, <1>8 DEF LoadDrop
<1>9. CASE LoadFlag(r)
  BY <1>1, <1>2, <1>3, <1>9 DEF LoadFlag
<1>10. CASE LookUp(r)
  BY <1>1, <1>2, <1>3, <1>10 DEF LookUp
<1> QED
  BY <1>4, <1>5, <1>6, <1>7, <1>8, <1>9, <1>10 DEF ReaderStep

LEMMA TypeInit == Init => IType
<1> SUFFICES ASSUME Init PROVE IType
  OBVIOUS
<1>1. env \in Seq(Commands)
  BY EnvironmentsAssumption DEF Init
<1>2. Len(env) \in Nat
  BY <1>1
<1> HIDE DEF Init
<1>3. AtWork
  BY DEF Init, AtWork
<1>4. Shared
  BY DEF Init, Shared, Knobs, Names
<1>5. Reading
  <2>1. /\ \A r \in Readers : at[r] = "outside"
        /\ check \in [Readers -> {NoCheck}] /\ at \in [Readers -> {"outside"}]
        /\ mean \in [Readers -> {0}] /\ wait \in [Readers -> {0}]
    BY DEF Init
  <2>2. check \in [Readers -> Checks \cup {NoCheck}]
    BY <2>1
  <2>3. at \in [Readers -> Places]
    BY <2>1 DEF Places
  <2>4. mean \in [Readers -> Nat] /\ wait \in [Readers -> Int]
    BY <2>1
  <2>5. answer \in [Readers -> BOOLEAN]
    BY DEF Init
  <2> QED
    BY <2>1, <2>2, <2>3, <2>4, <2>5 DEF Reading
<1>6. History
  BY DEF Init, History, Configs, Off, Names
<1>7. Loading
  <2>1. loaded = 0 /\ phase = "loading" /\ issued = 0
    BY DEF Init
  <2>2. 0 \in 0 .. Len(env) /\ 0 \in 0 .. MaxCommands /\ 1 .. 0 = {}
    BY <1>2, BoundAssumption
  <2> QED
    BY <1>1, <2>1, <2>2 DEF Loading
<1> QED
  BY <1>3, <1>4, <1>5, <1>6, <1>7 DEF IType
LEMMA TypeStep == IType /\ [Next]_vars => IType'
<1> SUFFICES ASSUME IType, [Next]_vars PROVE IType'
  OBVIOUS
<1>1. CASE UNCHANGED vars
  BY <1>1 DEF vars, shared, loading, setterVars, readerVars, IType, AtWork, Shared, Loading,
     Reading, History
<1>2. CASE Next
  <2>1. CASE \E s \in Setters : ObeyEnvironment(s) \/ ObeyCommand(s)
    BY <2>1, InstructTypes
  <2>2. CASE \E s \in Setters : SetterStep(s)
    BY <2>2, SetterTypes
  <2>3. CASE \E r \in Readers : Call(r) \/ ReaderStep(r)
    BY <2>3, CallTypes, ReaderTypes
  <2>4. CASE StartServing
    BY <2>4 DEF StartServing, IType, AtWork, Shared, Loading, Reading, History, shared,
       setterVars, readerVars
  <2>5. CASE Exited
    BY <1>1, <2>5 DEF Exited
  <2> QED
    BY <1>2, <2>1, <2>2, <2>3, <2>4, <2>5 DEF Next
<1> QED
  BY <1>1, <1>2

LEMMA Typed == Safety => []IType
  BY TypeInit, TypeStep, PTL DEF Safety

(* The variables keep their types.                                          *)
THEOREM TypeCorrect == Safety => []TypeOK
<1>1. IType => TypeOK
  BY DEF IType, AtWork, Shared, Loading, Reading, History, TypeOK, Places
<1> QED
  BY <1>1, Typed, PTL

-----------------------------------------------------------------------------
(* The lock and the flag, for any number of setters.                        *)

(* Between which operations an instruction has the lock.                    *)
Locked(cmd, i) ==
  \/ cmd.verb = "identity" /\ i \in 2 .. 3
  \/ cmd.verb \in {"partition", "heal"} /\ i \in 2 .. 4
  \/ cmd.verb = "clear" /\ i \in 6 .. 8

HolderIsInside ==
  \A s \in Setters : holder = s <=> command[s] # Idle /\ Locked(command[s], ip[s])

Truth == knob["cut"] = 1 <=> cuts # {}

(* The cuts have changed and the flag has not yet.                          *)
Late(cmd, i) ==
  \/ cmd.verb \in {"partition", "heal"} /\ i = 3
  \/ cmd.verb = "clear" /\ i = 7

FlagFollows ==
  /\ holder = Nobody => Truth
  /\ \A s \in Setters :
       holder = s =>
         /\ command[s].verb = "partition" /\ ip[s] = 3 => cuts # {}
         /\ command[s].verb = "clear" /\ ip[s] = 7 => cuts = {}
         /\ ~Late(command[s], ip[s]) => Truth

ILock == HolderIsInside /\ FlagFollows

(* A step of one setter leaves the others where they are.                   *)
LEMMA OthersStay ==
  ASSUME IType, NEW s \in Setters, SetterStep(s), NEW t \in Setters, t # s
  PROVE  command'[t] = command[t] /\ ip'[t] = ip[t] /\ found'[t] = found[t]
<1>1. /\ found' = found \/ \E b : found' = [found EXCEPT ![s] = b]
      /\ command' = command \/ \E c : command' = [command EXCEPT ![s] = c]
      /\ \E i : ip' = [ip EXCEPT ![s] = i]
  BY DEF SetterStep, StoreKnob, TakeLock, ReleaseLock, ChangeNames, LoadKnob, SetGate, Advance
<1> QED
  BY <1>1 DEF IType, AtWork

(* A setter's step, by the place it has in its instruction.                 *)
LEMMA SetterPlaces ==
  ASSUME IType, NEW s \in Setters, SetterStep(s)
  PROVE  /\ command[s] # Idle /\ ip[s] \in Nat /\ command[s].verb \in Verbs
         /\ \/ /\ ip[s] = Last(command[s])
               /\ command' = [command EXCEPT ![s] = Idle] /\ ip' = [ip EXCEPT ![s] = 1]
            \/ /\ ip[s] # Last(command[s]) /\ command' = command /\ ip'[s] = ip[s] + 1
            \/ /\ LoadKnob(s) /\ command' = command /\ ip'[s] = Stores(command[s]) + 5
               /\ LoadOf(command[s], ip[s], Operation(s).knob)
<1>1. command[s] # Idle
  BY DEF SetterStep, StoreKnob, TakeLock, ReleaseLock, ChangeNames, LoadKnob, SetGate, Doing
<1>2. ip[s] \in Nat /\ command[s].verb \in Verbs
  BY <1>1, AtWorkLaws DEF IType, AtWork
<1>3. CASE LoadKnob(s)
  <2>1. /\ command' = command /\ LoadOf(command[s], ip[s], Operation(s).knob)
        /\ \/ ip' = [ip EXCEPT ![s] = Stores(command[s]) + 5]
           \/ ip' = [ip EXCEPT ![s] = ip[s] + 1]
    BY <1>3, Loads DEF IType
  <2>2. ip[s] # Last(command[s])
    <3>1. Stores(command[s]) \in 1 .. 8
      BY <1>1, AtWorkLaws DEF IType
    <3> QED
      BY <2>1, <3>1 DEF LoadOf, Last
  <2> QED
    BY <1>1, <1>2, <1>3, <2>1, <2>2 DEF IType, AtWork
<1>4. CASE ~LoadKnob(s)
  <2>1. Advance(s) /\ found' \in [Setters -> BOOLEAN]
    BY <1>4 DEF SetterStep, StoreKnob, TakeLock, ReleaseLock, ChangeNames, SetGate, IType, AtWork
  <2>2. IF ip[s] = Last(command[s])
        THEN command' = [command EXCEPT ![s] = Idle] /\ ip' = [ip EXCEPT ![s] = 1]
        ELSE command' = command /\ ip' = [ip EXCEPT ![s] = ip[s] + 1]
    BY <1>1, <2>1, Advances DEF IType
  <2> QED
    BY <1>1, <1>2, <2>2 DEF IType, AtWork
<1> QED
  BY <1>3, <1>4


(* The lengths of the programs.                                             *)
LEMMA Lengths ==
  ASSUME NEW cmd
  PROVE  /\ cmd.verb = "latency" => Stores(cmd) = 2 /\ Last(cmd) = 7
         /\ cmd.verb = "drop" => Stores(cmd) = 1 /\ Last(cmd) = 6
         /\ cmd.verb = "hang" => Stores(cmd) = 1 /\ Last(cmd) = 6
         /\ cmd.verb = "identity" => Stores(cmd) = 3 /\ Last(cmd) = 3
         /\ cmd.verb = "partition" => Stores(cmd) = 4 /\ Last(cmd) = 9
         /\ cmd.verb = "heal" => Stores(cmd) = 4 /\ Last(cmd) = 9
         /\ cmd.verb = "clear" => Stores(cmd) = 8 /\ Last(cmd) = 13
  BY DEF Stores, Last

(* Whoever stores the flag or changes the names has the lock, and every     *)
(* setter has it exactly between its two operations on it.                  *)
LEMMA SetterLocks ==
  ASSUME IType, ILock, NEW s \in Setters, SetterStep(s)
  PROVE  ILock'
<1> DEFINE cmd == command[s]
           i == ip[s]
<1>1. command[s] # Idle /\ cmd.verb \in Verbs /\ i \in Nat
  BY SetterPlaces
<1>2. /\ holder = s <=> Locked(cmd, i)
      /\ \A t \in Setters : t # s => command'[t] = command[t] /\ ip'[t] = ip[t]
      /\ s # Nobody
  BY <1>1, OthersStay, NobodyAssumption DEF ILock, HolderIsInside
<1>3. \/ i = Last(cmd) /\ command'[s] = Idle
      \/ i # Last(cmd) /\ command'[s] = cmd /\ ip'[s] = i + 1
      \/ i # Last(cmd) /\ i > Stores(cmd) /\ command'[s] = cmd /\ ip'[s] = Stores(cmd) + 5
  <2>1. Stores(cmd) \in Nat
    BY <1>1, Lengths DEF Verbs
  <2> QED
    <3>1. command \in [Setters -> Commands \cup {Idle}]
      BY DEF IType, AtWork
    <3>2. CASE i = Last(cmd)
      <4>1. LoadOf(cmd, i, Operation(s).knob) => i # Last(cmd)
        BY <2>1 DEF LoadOf, Last
      <4>2. command' = [command EXCEPT ![s] = Idle]
        BY <3>2, <4>1, SetterPlaces
      <4> QED
        BY <3>1, <3>2, <4>2
    <3>3. CASE i # Last(cmd)
      <4>1. LoadOf(cmd, i, Operation(s).knob) => i > Stores(cmd)
        BY <2>1 DEF LoadOf
      <4> QED
        BY <3>3, <4>1, SetterPlaces
    <3> QED
      BY <3>2, <3>3
<1>4. /\ holder = s /\ ~Late(cmd, i) => Truth
      /\ holder = s /\ cmd.verb = "partition" /\ i = 3 => cuts # {}
      /\ holder = s /\ cmd.verb = "clear" /\ i = 7 => cuts = {}
      /\ holder = Nobody => Truth
  BY DEF ILock, FlagFollows
<1> DEFINE Here ==
      /\ holder' = s <=> command'[s] # Idle /\ Locked(command'[s], ip'[s])
      /\ \A t \in Setters : t # s => (holder' = t <=> holder = t)
      /\ holder' = Nobody => Truth'
      /\ holder' = s =>
           /\ command'[s].verb = "partition" /\ ip'[s] = 3 => cuts' # {}
           /\ command'[s].verb = "clear" /\ ip'[s] = 7 => cuts' = {}
           /\ ~Late(command'[s], ip'[s]) => Truth'
      /\ holder' \notin {s, Nobody} => UNCHANGED <<knob["cut"], cuts>>
<1>5. SUFFICES Here
  <2> SUFFICES ASSUME Here PROVE HolderIsInside' /\ FlagFollows'
    BY DEF ILock
  <2>1. HolderIsInside'
    <3> SUFFICES ASSUME NEW t \in Setters
                 PROVE  holder' = t <=> command'[t] # Idle /\ Locked(command'[t], ip'[t])
      BY DEF HolderIsInside
    <3> QED
      BY <1>2 DEF ILock, HolderIsInside
  <2>2. FlagFollows'
    <3> SUFFICES ASSUME NEW t \in Setters, holder' = t
                 PROVE  /\ command'[t].verb = "partition" /\ ip'[t] = 3 => cuts' # {}
                        /\ command'[t].verb = "clear" /\ ip'[t] = 7 => cuts' = {}
                        /\ ~Late(command'[t], ip'[t]) => Truth'
      BY DEF FlagFollows
    <3>1. CASE t # s
      <4>1. t # Nobody /\ holder = t /\ UNCHANGED <<knob["cut"], cuts>>
        BY <3>1, NobodyAssumption
      <4> QED
        BY <1>2, <3>1, <4>1 DEF ILock, FlagFollows, Truth
    <3> QED
      BY <3>1
  <2> QED
    BY <2>1, <2>2
<1> HIDE DEF cmd, i
<1>6. CASE StoreKnob(s)
  <2>1. UNCHANGED <<cuts, holder>> /\ knob \in [Knobs -> Nat]
    BY <1>6 DEF StoreKnob, IType, Shared
  <2>2. CASE Doing(s, "store") /\ knob' = [knob EXCEPT ![Operation(s).knob] = Operation(s).value]
    <3>1. StoreOf(cmd, i, Operation(s).knob, Operation(s).value)
      BY <1>1, <2>2, NextOperation DEF Doing, cmd, i, IType
    <3>2. i # Last(cmd) /\ ~(i > Stores(cmd))
      BY <3>1, Lengths DEF StoreOf
    <3>3. command'[s] = cmd /\ ip'[s] = i + 1
      BY <1>3, <3>2
    <3>4. CASE Operation(s).knob # "cut"
      <4>1. knob'["cut"] = knob["cut"]
        BY <2>1, <2>2, <3>4 DEF Knobs
      <4>2. /\ Locked(cmd, i) <=> Locked(cmd, i + 1)
            /\ ~Late(cmd, i) /\ ~Late(cmd, i + 1) /\ ~Locked(cmd, i)
            /\ cmd.verb = "clear" => i + 1 # 7
            /\ cmd.verb # "partition"
        BY <3>1, <3>4 DEF StoreOf, Locked, Late
      <4> QED
        BY <1>1, <1>2, <1>4, <2>1, <3>3, <4>1, <4>2 DEF Truth, cmd
    <3>5. CASE Operation(s).knob = "cut"
      <4>1. \/ cmd.verb = "partition" /\ i = 3 /\ Operation(s).value = 1
            \/ cmd.verb = "clear" /\ i = 7 /\ Operation(s).value = 0
        BY <3>1, <3>5 DEF StoreOf
      <4>2. knob'["cut"] = Operation(s).value
        BY <2>1, <2>2, <3>5 DEF Knobs
      <4>3. Locked(cmd, i) /\ Locked(cmd, i + 1) /\ ~Late(cmd, i + 1)
        BY <4>1 DEF Locked, Late
      <4>4. Truth'
        BY <1>2, <1>4, <2>1, <4>1, <4>2, <4>3 DEF Truth
      <4> QED
        BY <1>1, <1>2, <2>1, <3>3, <4>1, <4>3, <4>4 DEF cmd
    <3> QED
      BY <3>4, <3>5
  <2>3. CASE Doing(s, "anycut") /\ knob' = [knob EXCEPT !["cut"] = Bit(cuts # {})]
    <3>1. cmd.verb = "heal" /\ i = 3
      BY <1>1, <2>3, NextOperation DEF Doing, cmd, i, IType
    <3>2. command'[s] = cmd /\ ip'[s] = 4
      BY <1>3, <3>1, Lengths
    <3>3. Truth'
      BY <2>1, <2>3 DEF Truth, Knobs, Bit
    <3>4. Locked(cmd, i) /\ Locked(cmd, 4)
      BY <3>1 DEF Locked
    <3> QED
      BY <1>1, <1>2, <2>1, <3>1, <3>2, <3>3, <3>4 DEF cmd
  <2> QED
    BY <1>6, <2>2, <2>3 DEF StoreKnob
<1>7. CASE TakeLock(s)
  <2>1. LockAt(cmd, i) /\ UNCHANGED <<knob, cuts>> /\ holder = Nobody /\ holder' = s
    BY <1>1, <1>7, NextOperation DEF TakeLock, Doing, cmd, i, IType
  <2>2. /\ command'[s] = cmd /\ ip'[s] = i + 1 /\ Locked(cmd, i + 1) /\ ~Late(cmd, i + 1)
        /\ ~(cmd.verb = "partition" /\ i + 1 = 3) /\ ~(cmd.verb = "clear" /\ i + 1 = 7)
    BY <1>3, <2>1, Lengths DEF LockAt, Locked, Late
  <2>3. \A t \in Setters : holder # t
    BY <2>1, NobodyAssumption
  <2> QED
    BY <1>1, <1>4, <2>1, <2>2, <2>3 DEF Truth, cmd
<1>8. CASE ReleaseLock(s)
  <2>1. UnlockAt(cmd, i) /\ UNCHANGED <<knob, cuts>> /\ holder' = Nobody
    BY <1>1, <1>8, NextOperation DEF ReleaseLock, Doing, cmd, i, IType
  <2>2. /\ Locked(cmd, i) /\ ~Late(cmd, i)
        /\ command'[s] = Idle \/ (command'[s] = cmd /\ ip'[s] = i + 1 /\ ~Locked(cmd, i + 1))
    BY <1>3, <2>1, Lengths DEF UnlockAt, Locked, Late
  <2>3. \A t \in Setters : t # s => holder # t
    BY <1>2, <2>2
  <2> QED
    BY <1>2, <1>4, <2>1, <2>2, <2>3, NobodyAssumption DEF Truth
<1>9. CASE ChangeNames(s)
  <2>1. UNCHANGED <<knob, holder>>
    BY <1>9 DEF ChangeNames
  <2>2. \/ cmd.verb = "identity" /\ i = 2 /\ cuts' = cuts
        \/ cmd.verb = "partition" /\ i = 2 /\ cuts' # {}
        \/ cmd.verb = "heal" /\ i = 2
        \/ cmd.verb = "clear" /\ i = 6 /\ cuts' = {}
    BY <1>1, <1>9, NextOperation DEF ChangeNames, Doing, cmd, i, IType
  <2>3. /\ Locked(cmd, i) /\ Locked(cmd, i + 1) /\ ~Late(cmd, i)
        /\ command'[s] = cmd /\ ip'[s] = i + 1
        /\ cmd.verb # "identity" => Late(cmd, i + 1)
    BY <1>3, <2>2, Lengths DEF Locked, Late
  <2>4. holder = s /\ holder' = s /\ Truth
    BY <1>2, <1>4, <2>1, <2>3
  <2>5. cmd.verb = "identity" => Truth'
    BY <2>1, <2>2, <2>4 DEF Truth
  <2> QED
    BY <1>1, <1>2, <2>1, <2>2, <2>3, <2>4, <2>5 DEF cmd
<1>10. CASE LoadKnob(s) \/ SetGate(s)
  <2>1. UNCHANGED <<knob, cuts, holder>>
    <3>1. LoadKnob(s) => UNCHANGED <<knob, cuts, holder>>
      BY DEF LoadKnob, shared
    <3> QED
      BY <1>10, <3>1 DEF SetGate
  <2>2. /\ cmd.verb # "identity"
        /\ \/ i \in Stores(cmd) + 1 .. Stores(cmd) + 4 \/ i = Stores(cmd) + 5
    BY <1>1, <1>10, NextOperation, Lengths DEF LoadKnob, SetGate, Doing, LoadOf, cmd, i, IType, Verbs
  <2>3. /\ ~Locked(cmd, i)
        /\ command'[s] = Idle \/ (command'[s] = cmd /\ ~Locked(cmd, ip'[s]))
    BY <1>1, <1>3, <2>2, Lengths DEF Locked, Verbs
  <2>4. holder # s
    BY <1>2, <2>3
  <2> QED
    BY <1>2, <1>4, <2>1, <2>3, <2>4 DEF Truth
<1> QED
  BY <1>6, <1>7, <1>8, <1>9, <1>10 DEF SetterStep

(* An instruction that begins touches nothing yet.                          *)
LEMMA Begins ==
  ASSUME IType, NEW s \in Setters, NEW cmd \in Commands, Begin(s, cmd)
  PROVE  /\ command[s] = Idle /\ command'[s] = cmd /\ cmd # Idle /\ ~Refused(cmd)
         /\ \A t \in Setters : t # s => command'[t] = command[t]
         /\ ip'[s] = 1 /\ UNCHANGED <<knob, gate, identity, cuts, holder, ip, found>>
         /\ before' = InForce
  BY CommandLaws DEF Begin, IType, AtWork, shared

(* What is no setter's operation begins an instruction or leaves the knobs  *)
(* and the setters alone.                                                   *)
LEMMA OtherSteps ==
  ASSUME IType, [Next]_vars, ~\E s \in Setters : SetterStep(s)
  PROVE  \/ \E s \in Setters, cmd \in Commands : Begin(s, cmd)
         \/ UNCHANGED <<shared, setterVars, before>>
<1>1. CASE UNCHANGED vars
  BY <1>1 DEF vars
<1>2. ASSUME NEW s \in Setters, ObeyEnvironment(s)
      PROVE  \/ \E cmd \in Commands : Begin(s, cmd)
             \/ UNCHANGED <<shared, setterVars, before>>
  <2>1. loaded < Len(env) => env[loaded + 1] \in Commands
    BY DEF IType, Loading
  <2> QED
    BY <1>2, <2>1 DEF ObeyEnvironment
<1>3. ASSUME NEW s \in Setters, ObeyCommand(s)
      PROVE  \E cmd \in Commands : Begin(s, cmd)
  BY <1>3 DEF ObeyCommand
<1>4. ASSUME NEW r \in Readers, Call(r) \/ ReaderStep(r)
      PROVE  UNCHANGED <<shared, setterVars, before>>
  BY <1>4 DEF Call, ReaderStep, LoadGate, LoadLatency, LoadJitter, PollHang, LoadDrop, LoadFlag,
     LookUp, Quietly
<1>5. CASE StartServing
  BY <1>5 DEF StartServing
<1>6. CASE Exited
  BY <1>6 DEF Exited, vars
<1> QED
  BY <1>1, <1>2, <1>3, <1>4, <1>5, <1>6 DEF Next

LEMMA LockInit == Init => ILock
<1>1. Init => HolderIsInside
  BY NobodyAssumption DEF Init, HolderIsInside
<1>2. Init => FlagFollows
  <2>1. Init => Truth
    <3>1. Init => knob = [k \in Knobs |-> 0] /\ cuts = {}
      BY DEF Init
    <3> QED
      BY <3>1 DEF Truth, Knobs
  <2>2. Init => \A s \in Setters : holder # s
    BY NobodyAssumption DEF Init
  <2> QED
    BY <2>1, <2>2 DEF FlagFollows
<1> QED
  BY <1>1, <1>2 DEF ILock

LEMMA LockStep == IType /\ ILock /\ [Next]_vars => ILock'
<1> SUFFICES ASSUME IType, ILock, [Next]_vars PROVE ILock'
  OBVIOUS
<1>1. CASE \E s \in Setters : SetterStep(s)
  BY <1>1, SetterLocks
<1>2. CASE UNCHANGED <<shared, setterVars, before>>
  BY <1>2 DEF ILock, HolderIsInside, FlagFollows, Truth, shared, setterVars
<1>3. ASSUME NEW s \in Setters, NEW cmd \in Commands, Begin(s, cmd)
      PROVE  ILock'
  <2>1. /\ command[s] = Idle /\ command'[s] = cmd /\ ip'[s] = 1
        /\ \A t \in Setters : t # s => command'[t] = command[t]
        /\ UNCHANGED <<knob, cuts, holder, ip>>
    BY <1>3, Begins
  <2>2. ~Locked(cmd, 1)
    BY DEF Locked
  <2>3. HolderIsInside'
    BY <2>1, <2>2 DEF ILock, HolderIsInside
  <2>4. holder # s
    BY <2>1 DEF ILock, HolderIsInside
  <2>5. FlagFollows'
    BY <2>1, <2>4 DEF ILock, FlagFollows, Truth
  <2> QED
    BY <2>3, <2>5 DEF ILock
<1> QED
  BY <1>1, <1>2, <1>3, OtherSteps

LEMMA Locking == Safety => []ILock
  BY TypeInit, TypeStep, LockInit, LockStep, PTL DEF Safety

(* Whenever nobody holds the lock the flag in front of the cuts is up if    *)
(* and only if there is one, however many setters there are.                *)
THEOREM FlagIsTruthful == Safety => []FlagTruthful
<1>1. ILock => FlagTruthful
  BY DEF ILock, FlagFollows, Truth, FlagTruthful
<1> QED
  BY <1>1, Locking, PTL

-----------------------------------------------------------------------------
(* One setter at a time.                                                    *)

OneSetter == \A s, t \in Setters : s = t

(* Halfway through an instruction each knob is as it was or as it will be,  *)
(* by how many operations have been performed.                              *)
Stage(cmd, i, old, new) ==
  LET clear == cmd.verb = "clear"
  IN  /\ knob["latency"] = IF i > 1 THEN new.latency ELSE old.latency
      /\ knob["jitter"] = IF i > 2 THEN new.jitter ELSE old.jitter
      /\ knob["drop"] = IF i > (IF clear THEN 3 ELSE 1) THEN new.drop ELSE old.drop
      /\ knob["hang"] = Bit(IF i > (IF clear THEN 4 ELSE 1) THEN new.hang ELSE old.hang)
      /\ identity = IF i > 2 THEN new.identity ELSE old.identity
      /\ cuts = IF i > (IF clear THEN 6 ELSE 2) THEN new.cuts ELSE old.cuts
      /\ knob["cut"] = Bit(IF i > (IF clear THEN 7 ELSE 3) THEN new.cuts # {}
                                                           ELSE old.cuts # {})

Midway ==
  \A s \in Setters :
    command[s] # Idle => Stage(command[s], ip[s], before, Apply(before, command[s]))

(* What refresh_gate has found out.                                         *)
Refreshing ==
  \A s \in Setters :
    IF command[s] = Idle \/ command[s].verb = "identity" THEN ~found[s]
    ELSE LET done == ip[s] - Stores(command[s])
         IN  /\ done \in 2 .. 4 => knob["latency"] = 0
             /\ done \in 3 .. 4 => knob["drop"] = 0
             /\ done = 4 => knob["hang"] = 0
             /\ IF done = 5 THEN found[s] <=> Enabled(Apply(before, command[s]))
                            ELSE ~found[s]

GateFollows == gate <=> Enabled(InForce)

IOne == Midway /\ Refreshing /\ GateFollows

LEMMA OneInit == Init => IOne
<1> SUFFICES ASSUME Init PROVE IOne
  OBVIOUS
<1>1. Quiet /\ \A s \in Setters : command[s] = Idle /\ ~found[s]
  BY DEF Init, Quiet
<1>2. Midway /\ Refreshing
  BY <1>1 DEF Midway, Refreshing
<1>3. ~Enabled(Spelled) /\ ~gate
  <2>1. knob = [k \in Knobs |-> 0] /\ cuts = {} /\ ~gate
    BY DEF Init
  <2> QED
    <3>1. Spelled.latency = 0 /\ Spelled.drop = 0 /\ Spelled.cuts = {}
      BY <2>1 DEF Spelled, Knobs
    <3>2. ~Spelled.hang
      <4>1. knob["hang"] = 0
        BY <2>1 DEF Knobs
      <4>2. Spelled.hang <=> knob["hang"] = 1
        BY DEF Spelled
      <4> QED
        BY <4>1, <4>2
    <3> QED
      BY <2>1, <3>1, <3>2 DEF Enabled
<1> QED
  BY <1>1, <1>2, <1>3 DEF IOne, GateFollows, InForce

(* Two configurations with the same fields are the same.                    *)
LEMMA SameConfig ==
  ASSUME NEW c \in Configs, NEW d \in Configs,
         c.latency = d.latency, c.jitter = d.jitter, c.drop = d.drop,
         c.hang = d.hang, c.identity = d.identity, c.cuts = d.cuts
  PROVE  c = d
  BY DEF Configs


(* Whose instruction is under way.                                          *)
LEMMA TheOne ==
  ASSUME IType, OneSetter, NEW s \in Setters, command[s] # Idle
  PROVE  /\ ~Quiet /\ InForce = before /\ before \in Configs
         /\ command[s] \in Commands /\ ~Refused(command[s]) /\ command[s].verb \in Verbs
         /\ Apply(before, command[s]) \in Configs
         /\ \A t \in Setters : t = s
<1>1. ~Quiet /\ InForce = before /\ before \in Configs
  BY DEF Quiet, InForce, IType, History
<1>2. command[s] \in Commands /\ ~Refused(command[s]) /\ command[s].verb \in Verbs
  BY AtWorkLaws DEF IType
<1> QED
  BY <1>1, <1>2, ApplyLaws DEF OneSetter

(* Once its stores are made the knobs spell what the instruction asks for.  *)
LEMMA AllStored ==
  ASSUME IType, OneSetter, Midway, NEW s \in Setters, command[s] # Idle,
         \/ ip[s] > Stores(command[s])
         \/ command[s].verb = "identity" /\ ip[s] = 3
  PROVE  /\ Spelled = Apply(before, command[s])
         /\ knob["cut"] = Bit(Apply(before, command[s]).cuts # {})
<1> DEFINE cmd == command[s]
           new == Apply(before, cmd)
           i == ip[s]
<1>1. /\ before \in Configs /\ new \in Configs /\ cmd \in Commands /\ ~Refused(cmd)
      /\ cmd.verb \in Verbs
  BY TheOne
<1>2. Changed(cmd, before, new)
  BY <1>1, ApplyLaws
<1>3. Stage(cmd, i, before, new)
  BY DEF Midway
<1>4. /\ (i > 1 \/ cmd.verb # "clear") /\ i \in Nat
      /\ cmd.verb = "latency" => i > 2
      /\ cmd.verb \in {"drop", "hang"} => i > 1
      /\ cmd.verb = "identity" => i > 2
      /\ cmd.verb \in {"partition", "heal"} => i > 3
      /\ cmd.verb = "clear" => i > 8
  BY <1>1, Lengths DEF Verbs, IType, AtWork
<1> USE DEF Stage, Changed
<1> HIDE DEF cmd, new, i
<1>5. /\ knob["latency"] = new.latency /\ knob["jitter"] = new.jitter /\ knob["drop"] = new.drop
      /\ identity = new.identity /\ cuts = new.cuts
  BY <1>1, <1>2, <1>3, <1>4 DEF Verbs
<1>6. knob["hang"] = Bit(new.hang) /\ knob["cut"] = Bit(new.cuts # {})
  <2>1. new.hang = before.hang \/ i > (IF cmd.verb = "clear" THEN 4 ELSE 1)
    BY <1>1, <1>2, <1>4 DEF Verbs
  <2>2. new.cuts = before.cuts \/ i > (IF cmd.verb = "clear" THEN 7 ELSE 3)
    BY <1>1, <1>2, <1>4 DEF Verbs
  <2> QED
    BY <1>3, <2>1, <2>2
<1>7. (knob["hang"] = 1) = new.hang
  <2>1. new.hang \in BOOLEAN
    BY <1>1 DEF Configs
  <2> QED
    BY <1>6, <2>1 DEF Bit
<1>8. Spelled = new
  <2>1. Spelled \in Configs
    BY InForceTyped
  <2>2. /\ Spelled.latency = new.latency /\ Spelled.jitter = new.jitter
        /\ Spelled.drop = new.drop /\ Spelled.identity = new.identity
        /\ Spelled.cuts = new.cuts
    BY <1>5 DEF Spelled
  <2>3. Spelled.hang = new.hang
    BY <1>7 DEF Spelled
  <2> QED
    BY <1>1, <2>1, <2>2, <2>3, SameConfig
<1> QED
  BY <1>6, <1>8 DEF new, cmd


(* The setter at work, in names that a step does not change.                *)
LEMMA Working ==
  ASSUME IType, IOne, OneSetter, NEW s \in Setters, SetterStep(s)
  PROVE  \E cmd \in Commands, i \in Nat, old \in Configs, new \in Configs :
           /\ cmd = command[s] /\ i = ip[s] /\ old = before /\ new = Apply(old, cmd)
           /\ cmd # Idle /\ cmd.verb \in Verbs /\ Stores(cmd) \in Nat /\ before' = before
           /\ Stage(cmd, i, old, new) /\ Changed(cmd, old, new)
<1>1. command[s] # Idle /\ ip[s] \in Nat
  BY SetterPlaces
<1>2. /\ before \in Configs /\ command[s] \in Commands /\ ~Refused(command[s])
      /\ command[s].verb \in Verbs
  BY <1>1, TheOne
<1>3. /\ Apply(before, command[s]) \in Configs
      /\ Changed(command[s], before, Apply(before, command[s]))
  BY <1>2, ApplyLaws
<1>4. Stage(command[s], ip[s], before, Apply(before, command[s]))
  BY <1>1 DEF IOne, Midway
<1>5. before' = before
  BY DEF SetterStep, StoreKnob, TakeLock, ReleaseLock, ChangeNames, LoadKnob, SetGate, Advance
<1>6. Stores(command[s]) \in Nat
  BY <1>2, Lengths DEF Verbs
<1> QED
  BY <1>1, <1>2, <1>3, <1>4, <1>5, <1>6

(* A setter that goes on is where its next stage is.                        *)
LEMMA OnToStage ==
  ASSUME OneSetter, NEW s \in Setters, NEW cmd, NEW i, NEW old,
         command'[s] = cmd, ip'[s] = i, before' = old, Stage(cmd, i, old, Apply(old, cmd))'
  PROVE  Midway'
<1>1. \A t \in Setters : t = s
  BY DEF OneSetter
<1> QED
  BY <1>1 DEF Midway

(* A store, or a change of the names, takes one field from what it was to   *)
(* what it will be.                                                         *)
LEMMA OneField ==
  ASSUME IType, IOne, OneSetter, NEW s \in Setters, StoreKnob(s) \/ ChangeNames(s)
  PROVE  /\ ip[s] <= Stores(command[s]) /\ command'[s] = command[s] /\ ip'[s] = ip[s] + 1
         /\ Midway'
<1>1. PICK cmd \in Commands, i \in Nat, old \in Configs, new \in Configs :
        /\ cmd = command[s] /\ i = ip[s] /\ old = before /\ new = Apply(old, cmd)
        /\ cmd # Idle /\ cmd.verb \in Verbs /\ Stores(cmd) \in Nat /\ before' = before
        /\ Stage(cmd, i, old, new) /\ Changed(cmd, old, new)
  BY Working DEF SetterStep
<1>2. /\ StoreKnob(s) =>
          \/ StoreOf(cmd, i, Operation(s).knob, Operation(s).value)
          \/ cmd.verb = "heal" /\ i = 3
      /\ ChangeNames(s) =>
          \/ cmd.verb \in {"identity", "partition", "heal"} /\ i = 2
          \/ cmd.verb = "clear" /\ i = 6
  BY <1>1, NextOperation DEF StoreKnob, ChangeNames, Doing, IType
<1>3. i <= Stores(cmd) /\ i # Last(cmd)
  BY <1>2, Lengths DEF StoreOf
<1>4. LoadOf(cmd, i, Operation(s).knob) => ~(i <= Stores(cmd))
  BY <1>1 DEF LoadOf
<1>5. command'[s] = cmd /\ ip'[s] = i + 1
  BY <1>1, <1>3, <1>4, SetterPlaces DEF SetterStep
<1>6. SUFFICES Stage(cmd, i + 1, old, new)'
  BY <1>1, <1>3, <1>5, OnToStage
<1> USE DEF Stage, Changed
<1>7. CASE StoreKnob(s)
  <2>1. UNCHANGED <<identity, cuts>> /\ knob \in [Knobs -> Nat]
    BY <1>7 DEF StoreKnob, IType, Shared
  <2>2. CASE Doing(s, "store") /\ knob' = [knob EXCEPT ![Operation(s).knob] = Operation(s).value]
    <3>1. StoreOf(cmd, i, Operation(s).knob, Operation(s).value)
      BY <1>1, <2>2, NextOperation DEF Doing, IType
    <3>2. PICK k, v : StoreOf(cmd, i, k, v) /\ knob' = [knob EXCEPT ![k] = v]
      BY <2>2, <3>1
    <3>3. CASE cmd.verb = "latency"
      BY <1>1, <2>1, <3>2, <3>3 DEF StoreOf, Knobs
    <3>4. CASE cmd.verb = "drop"
      BY <1>1, <2>1, <3>2, <3>4 DEF StoreOf, Knobs
    <3>5. CASE cmd.verb = "hang"
      BY <1>1, <2>1, <3>2, <3>5 DEF StoreOf, Knobs
    <3>6. CASE cmd.verb = "partition"
      BY <1>1, <2>1, <3>2, <3>6 DEF StoreOf, Knobs, Bit
    <3>7. CASE cmd.verb = "clear"
      BY <1>1, <2>1, <3>2, <3>7 DEF StoreOf, Knobs, Bit
    <3> QED
      BY <3>2, <3>3, <3>4, <3>5, <3>6, <3>7 DEF StoreOf
  <2>3. CASE Doing(s, "anycut") /\ knob' = [knob EXCEPT !["cut"] = Bit(cuts # {})]
    <3>1. cmd.verb = "heal" /\ i = 3
      BY <1>1, <2>3, NextOperation DEF Doing, IType
    <3> QED
      BY <1>1, <2>1, <2>3, <3>1 DEF Knobs
  <2> QED
    BY <1>7, <2>2, <2>3 DEF StoreKnob
<1>8. CASE ChangeNames(s)
  <2>1. knob' = knob
    BY <1>8 DEF ChangeNames
  <2>2. \/ cmd.verb = "identity" /\ i = 2 /\ identity' = cmd.name /\ cuts' = cuts
        \/ cmd.verb = "partition" /\ i = 2 /\ cuts' = cuts \cup {Cut(cmd.a, cmd.b)} /\ identity' = identity
        \/ cmd.verb = "heal" /\ i = 2 /\ cuts' = cuts \ {Cut(cmd.a, cmd.b)} /\ identity' = identity
        \/ cmd.verb = "clear" /\ i = 6 /\ cuts' = {} /\ identity' = identity
    BY <1>1, <1>8, NextOperation DEF ChangeNames, Doing, IType
  <2>3. CASE cmd.verb = "identity"
    BY <1>1, <2>1, <2>2, <2>3
  <2>4. CASE cmd.verb = "partition"
    <3>1. i = 2 /\ identity' = identity /\ cuts' = cuts \cup {Cut(cmd.a, cmd.b)}
      BY <2>2, <2>4
    <3>2. cuts = old.cuts /\ new.cuts = old.cuts \cup {Cut(cmd.a, cmd.b)}
      BY <1>1, <2>4, <3>1
    <3>3. cuts' = new.cuts
      BY <3>1, <3>2
    <3> QED
      BY <1>1, <2>1, <2>4, <3>1, <3>3
  <2>5. CASE cmd.verb = "heal"
    <3>1. i = 2 /\ identity' = identity /\ cuts' = cuts \ {Cut(cmd.a, cmd.b)}
      BY <2>2, <2>5
    <3>2. cuts = old.cuts /\ new.cuts = old.cuts \ {Cut(cmd.a, cmd.b)}
      BY <1>1, <2>5, <3>1
    <3>3. cuts' = new.cuts
      BY <3>1, <3>2
    <3> QED
      BY <1>1, <2>1, <2>5, <3>1, <3>3
  <2>6. CASE cmd.verb = "clear"
    BY <1>1, <2>1, <2>2, <2>6
  <2> QED
    BY <2>2, <2>3, <2>4, <2>5, <2>6
<1> QED
  BY <1>7, <1>8

(* The operations on the lock and on the gate store nothing.                *)
LEMMA NoField ==
  ASSUME IType, IOne, OneSetter, NEW s \in Setters,
         TakeLock(s) \/ ReleaseLock(s) \/ LoadKnob(s), ip[s] # Last(command[s])
  PROVE  Midway'
<1>1. PICK cmd \in Commands, i \in Nat, old \in Configs, new \in Configs :
        /\ cmd = command[s] /\ i = ip[s] /\ old = before /\ new = Apply(old, cmd)
        /\ cmd # Idle /\ cmd.verb \in Verbs /\ Stores(cmd) \in Nat /\ before' = before
        /\ Stage(cmd, i, old, new) /\ Changed(cmd, old, new)
  BY Working DEF SetterStep
<1>2. UNCHANGED <<knob, identity, cuts>>
  BY DEF TakeLock, ReleaseLock, LoadKnob, shared
<1>3. \/ LockAt(cmd, i) /\ ip'[s] = i + 1
      \/ cmd.verb # "identity" /\ UnlockAt(cmd, i) /\ ip'[s] = i + 1
      \/ cmd.verb # "identity" /\ i > Stores(cmd) /\ ip'[s] \in Nat /\ ip'[s] > Stores(cmd)
  <2>1. SetterStep(s)
    BY DEF SetterStep
  <2>2. CASE LoadKnob(s)
    <3>1. LoadOf(cmd, i, Operation(s).knob)
      BY <1>1, <2>2, Loads DEF IType
    <3>2. ip'[s] = i + 1 \/ ip'[s] = Stores(cmd) + 5
      BY <1>1, <2>1, SetterPlaces
    <3>3. cmd.verb # "identity" /\ i > Stores(cmd)
      BY <1>1, <3>1 DEF LoadOf
    <3> QED
      BY <1>1, <3>2, <3>3
  <2>3. CASE TakeLock(s) \/ ReleaseLock(s)
    <3>1. LockAt(cmd, i) \/ UnlockAt(cmd, i)
      BY <1>1, <2>3, NextOperation DEF TakeLock, ReleaseLock, Doing, IType
    <3>2. ip'[s] = i + 1
      <4>1. ~LoadOf(cmd, i, Operation(s).knob)
        BY <1>1, <3>1, Lengths DEF LoadOf, LockAt, UnlockAt
      <4> QED
        BY <1>1, <2>1, <4>1, SetterPlaces
    <3> QED
      BY <1>1, <3>1, <3>2, Lengths DEF UnlockAt
  <2> QED
    BY <2>2, <2>3
<1>4. command'[s] = cmd
  BY <1>1, SetterPlaces DEF SetterStep
<1>5. PICK j \in Nat : j = ip'[s]
  BY <1>1, <1>3
<1>6. SUFFICES Stage(cmd, j, old, new)'
  BY <1>1, <1>4, <1>5, OnToStage
<1> USE DEF Stage, Changed
<1>8. CASE LockAt(cmd, i) /\ j = i + 1
  BY <1>1, <1>2, <1>8 DEF LockAt
<1>9. CASE cmd.verb # "identity" /\ UnlockAt(cmd, i) /\ j = i + 1
  BY <1>1, <1>2, <1>9 DEF UnlockAt
<1>10. CASE cmd.verb # "identity" /\ i > Stores(cmd) /\ j > Stores(cmd)
  <2>1. CASE cmd.verb = "latency"
    BY <1>1, <1>2, <1>10, <2>1, Lengths
  <2>2. CASE cmd.verb \in {"drop", "hang"}
    BY <1>1, <1>2, <1>10, <2>2, Lengths
  <2>3. CASE cmd.verb \in {"partition", "heal"}
    BY <1>1, <1>2, <1>10, <2>3, Lengths
  <2>4. CASE cmd.verb = "clear"
    BY <1>1, <1>2, <1>10, <2>4, Lengths
  <2> QED
    BY <1>1, <1>10, <2>1, <2>2, <2>3, <2>4 DEF Verbs
<1> QED
  BY <1>3, <1>5, <1>8, <1>9, <1>10

(* A setter's step keeps the invariant; its last one replaces the           *)
(* configuration in force, and no other does.                               *)
LEMMA SetterOne ==
  ASSUME IType, IOne, OneSetter, NEW s \in Setters, SetterStep(s)
  PROVE  /\ IOne'
         /\ InForce' = IF ip[s] = Last(command[s]) THEN Apply(InForce, command[s]) ELSE InForce
<1>1. PICK cmd \in Commands, i \in Nat, old \in Configs, new \in Configs :
        /\ cmd = command[s] /\ i = ip[s] /\ old = before /\ new = Apply(old, cmd)
        /\ cmd # Idle /\ cmd.verb \in Verbs /\ Stores(cmd) \in Nat /\ before' = before
        /\ Stage(cmd, i, old, new) /\ Changed(cmd, old, new)
  BY Working
<1>2. InForce = old /\ \A t \in Setters : t = s
  BY <1>1, TheOne
<1>3. gate <=> Enabled(old)
  BY <1>2 DEF IOne, GateFollows
<1>4. IF cmd.verb = "identity" THEN ~found[s]
      ELSE /\ i - Stores(cmd) \in 2 .. 4 => knob["latency"] = 0
           /\ i - Stores(cmd) \in 3 .. 4 => knob["drop"] = 0
           /\ i - Stores(cmd) = 4 => knob["hang"] = 0
           /\ IF i - Stores(cmd) = 5 THEN found[s] <=> Enabled(new) ELSE ~found[s]
  BY <1>1 DEF IOne, Refreshing
<1>5. found \in [Setters -> BOOLEAN] /\ knob \in [Knobs -> Nat] /\ knob["hang"] \in {0, 1}
  BY DEF IType, AtWork, Shared
<1>6. CASE i = Last(cmd)
  <2>1. command'[s] = Idle
    <3>1. LoadOf(cmd, i, Operation(s).knob) => i # Last(cmd)
      BY <1>1 DEF LoadOf, Last
    <3> QED
      BY <1>1, <1>6, <3>1, SetterPlaces DEF IType, AtWork
  <2>2. Quiet' /\ InForce' = Spelled'
    BY <1>2, <2>1 DEF Quiet, InForce
  <2>3. Spelled = new
    <3>1. i > Stores(cmd) \/ (cmd.verb = "identity" /\ i = 3)
      BY <1>1, <1>6 DEF Last
    <3> QED
      BY <1>1, <3>1, AllStored DEF IOne
  <2>4. \/ cmd.verb = "identity" /\ ReleaseLock(s)
        \/ cmd.verb # "identity" /\ SetGate(s)
    <3>1. \/ cmd.verb = "identity" /\ i = 3
          \/ cmd.verb # "identity" /\ i = Stores(cmd) + 5
      BY <1>6 DEF Last
    <3>2. ~StoreKnob(s) /\ ~ChangeNames(s)
      <4>1. i <= Stores(cmd) /\ command'[s] = cmd => FALSE
        BY <1>1, <2>1
      <4> QED
        BY <1>1, <4>1, OneField
    <3>3. ~TakeLock(s)
      <4>1. TakeLock(s) => LockAt(cmd, i)
        BY <1>1, NextOperation DEF TakeLock, Doing, IType
      <4> QED
        BY <1>6, <4>1, Lengths DEF LockAt
    <3>4. ~LoadKnob(s)
      BY <1>1, <2>1, Loads DEF IType
    <3>5. SetGate(s) => cmd.verb # "identity"
      BY <1>1, NextOperation DEF SetGate, Doing, IType
    <3>6. ReleaseLock(s) => cmd.verb = "identity"
      <4>1. ReleaseLock(s) => UnlockAt(cmd, i)
        BY <1>1, NextOperation DEF ReleaseLock, Doing, IType
      <4> QED
        BY <1>6, <4>1, Lengths DEF UnlockAt
    <3> QED
      BY <3>1, <3>2, <3>3, <3>4, <3>5, <3>6 DEF SetterStep
  <2>5. Spelled' = new
    <3>1. UNCHANGED <<knob, identity, cuts>>
      BY <2>4 DEF ReleaseLock, SetGate
    <3> QED
      BY <2>3, <3>1 DEF Spelled
  <2>6. (gate' <=> Enabled(new)) /\ ~found'[s]
    <3>1. CASE cmd.verb = "identity" /\ ReleaseLock(s)
      <4>1. gate' = gate /\ found' = found
        BY <3>1 DEF ReleaseLock
      <4>2. Enabled(new) <=> Enabled(old)
        BY <1>1, <3>1 DEF Changed, Enabled
      <4> QED
        BY <1>3, <1>4, <3>1, <4>1, <4>2
    <3>2. CASE cmd.verb # "identity" /\ SetGate(s)
      <4>1. gate' = found[s] /\ found' = [found EXCEPT ![s] = FALSE]
        BY <3>2 DEF SetGate
      <4>2. i - Stores(cmd) = 5
        BY <1>1, <1>6, <3>2 DEF Last
      <4>3. ~found'[s]
        BY <1>5, <4>1
      <4> QED
        BY <1>4, <3>2, <4>1, <4>2, <4>3
    <3> QED
      BY <2>4, <3>1, <3>2
  <2>7. Midway' /\ Refreshing'
    BY <1>2, <2>1, <2>6 DEF Midway, Refreshing
  <2>8. GateFollows'
    BY <2>2, <2>5, <2>6 DEF GateFollows
  <2> QED
    BY <1>1, <1>2, <1>6, <2>2, <2>5, <2>7, <2>8 DEF IOne
<1>7. CASE i # Last(cmd)
  <2>1. command'[s] = cmd
    BY <1>1, <1>7, SetterPlaces
  <2>2. InForce' = before
    BY <1>1, <2>1 DEF Quiet, InForce
  <2>3. ~SetGate(s)
    <3>1. SetGate(s) => cmd.verb # "identity" /\ i = Stores(cmd) + 5
      BY <1>1, NextOperation DEF SetGate, Doing, IType
    <3> QED
      BY <1>7, <3>1 DEF Last
  <2>4. Midway'
    BY <1>1, <1>7, <2>3, OneField, NoField DEF SetterStep
  <2>5. gate' = gate
    BY <2>3 DEF SetterStep, StoreKnob, TakeLock, ReleaseLock, ChangeNames, LoadKnob, shared
  <2>6. Refreshing'
    <3>1. SUFFICES IF cmd.verb = "identity" THEN ~found'[s]
             ELSE /\ ip'[s] - Stores(cmd) \in 2 .. 4 => knob'["latency"] = 0
                  /\ ip'[s] - Stores(cmd) \in 3 .. 4 => knob'["drop"] = 0
                  /\ ip'[s] - Stores(cmd) = 4 => knob'["hang"] = 0
                  /\ IF ip'[s] - Stores(cmd) = 5 THEN found'[s] <=> Enabled(new) ELSE ~found'[s]
      BY <1>1, <1>2, <2>1 DEF Refreshing
    <3>2. CASE LoadKnob(s)
      <4>1. /\ LoadOf(cmd, i, Operation(s).knob)
            /\ IF knob[Operation(s).knob] # 0
               THEN /\ found' = [found EXCEPT ![s] = TRUE]
                    /\ ip' = [ip EXCEPT ![s] = Stores(cmd) + 5]
               ELSE found' = found /\ ip' = [ip EXCEPT ![s] = i + 1]
        BY <1>1, <3>2, Loads DEF IType
      <4>2. PICK k : k = Operation(s).knob /\ LoadOf(cmd, i, k)
        BY <4>1
      <4>3. ip \in [Setters -> Nat]
        BY DEF IType, AtWork
      <4>4. knob' = knob
        BY <3>2 DEF LoadKnob, shared
      <4>5. Spelled = new /\ knob["cut"] = Bit(new.cuts # {})
        <5>1. i > Stores(cmd)
          BY <1>1, <4>2 DEF LoadOf
        <5> QED
          BY <1>1, <5>1, AllStored DEF IOne
      <4>6. Enabled(new) <=> \E n \in {"latency", "drop", "hang", "cut"} : knob[n] # 0
        <5>1. /\ new.latency = knob["latency"] /\ new.drop = knob["drop"]
              /\ new.hang <=> knob["hang"] = 1
          BY <4>5 DEF Spelled
        <5> QED
          BY <1>5, <4>5, <5>1 DEF Enabled, Bit
      <4>7. CASE knob[k] # 0
        <5>1. ip'[s] - Stores(cmd) = 5 /\ found'[s]
          BY <1>1, <1>5, <4>1, <4>2, <4>3, <4>7
        <5>2. cmd.verb # "identity" /\ k \in {"latency", "drop", "hang", "cut"}
          BY <4>2 DEF LoadOf
        <5> QED
          BY <4>6, <4>7, <5>1, <5>2
      <4>8. CASE knob[k] = 0
        <5>1. ip'[s] = i + 1 /\ found' = found
          BY <4>1, <4>2, <4>3, <4>8
        <5>2. PICK d \in Int : d = i - Stores(cmd)
          BY <1>1
        <5>3. ip'[s] - Stores(cmd) = d + 1
          BY <1>1, <5>1, <5>2
        <5>4. /\ cmd.verb # "identity"
              /\ \/ d = 1 /\ k = "latency"
                 \/ d = 2 /\ k = "drop"
                 \/ d = 3 /\ k = "hang"
                 \/ d = 4 /\ k = "cut"
          BY <1>1, <4>2, <5>2 DEF LoadOf
        <5>5. /\ d \in 2 .. 4 => knob["latency"] = 0
              /\ d \in 3 .. 4 => knob["drop"] = 0
              /\ d = 4 => knob["hang"] = 0
              /\ ~found[s]
          BY <1>4, <5>2, <5>4
        <5>6. d = 4 => ~Enabled(new)
          BY <4>6, <4>8, <5>4, <5>5
        <5> QED
          BY <4>4, <4>8, <5>1, <5>3, <5>4, <5>5, <5>6
      <4> QED
        BY <4>7, <4>8
    <3>3. CASE ~LoadKnob(s)
      <4>1. found' = found
        BY <2>3, <3>3 DEF SetterStep, StoreKnob, TakeLock, ReleaseLock, ChangeNames
      <4>2. ip'[s] = i + 1
        BY <1>1, <1>7, <3>3, SetterPlaces
      <4>3. i <= Stores(cmd)
        <5>1. TakeLock(s) \/ ReleaseLock(s) => LockAt(cmd, i) \/ UnlockAt(cmd, i)
          BY <1>1, NextOperation DEF TakeLock, ReleaseLock, Doing, IType
        <5>2. TakeLock(s) \/ ReleaseLock(s) => i <= Stores(cmd)
          BY <5>1, Lengths DEF LockAt, UnlockAt
        <5> QED
          BY <1>1, <2>3, <3>3, <5>2, OneField DEF SetterStep
      <4> QED
        BY <1>1, <1>4, <4>1, <4>2, <4>3
    <3> QED
      BY <3>2, <3>3
  <2>7. GateFollows'
    BY <1>1, <1>3, <2>2, <2>5 DEF GateFollows
  <2> QED
    BY <1>1, <1>2, <1>7, <2>2, <2>4, <2>6, <2>7 DEF IOne
<1> QED
  BY <1>6, <1>7

(* An instruction that begins finds the knobs as the last one left them.    *)
LEMMA BeginOne ==
  ASSUME IType, ILock, IOne, OneSetter, NEW s \in Setters, NEW cmd \in Commands, Begin(s, cmd)
  PROVE  IOne' /\ InForce' = InForce
<1>1. /\ command[s] = Idle /\ command'[s] = cmd /\ cmd # Idle /\ ~Refused(cmd)
      /\ ip'[s] = 1 /\ UNCHANGED <<knob, gate, identity, cuts, found>>
      /\ before' = InForce
  BY Begins
<1>2. \A t \in Setters : t = s
  BY DEF OneSetter
<1>3. Quiet /\ InForce = Spelled /\ ~Quiet' /\ InForce' = before'
  BY <1>1, <1>2 DEF Quiet, InForce
<1>4. Truth /\ knob["hang"] \in {0, 1} /\ knob["cut"] \in {0, 1}
  <2>1. holder = Nobody
    BY <1>1, <1>2 DEF ILock, HolderIsInside, IType, Shared
  <2> QED
    BY <2>1 DEF ILock, FlagFollows, IType, Shared
<1>5. PICK old \in Configs : old = InForce
  BY InForceTyped
<1>6. Stage(cmd, 1, old, Apply(old, cmd))'
  <2>1. /\ knob["latency"] = old.latency /\ knob["jitter"] = old.jitter
        /\ knob["drop"] = old.drop /\ (old.hang <=> knob["hang"] = 1)
        /\ identity = old.identity /\ cuts = old.cuts
    BY <1>3, <1>5 DEF Spelled
  <2>2. knob["hang"] = Bit(old.hang) /\ knob["cut"] = Bit(old.cuts # {})
    BY <1>4, <2>1 DEF Truth, Bit
  <2> QED
    BY <1>1, <2>1, <2>2 DEF Stage
<1>7. Midway'
  BY <1>1, <1>5, <1>6, OnToStage
<1>8. Refreshing'
  <2>1. ~found'[s]
    BY <1>1 DEF IOne, Refreshing
  <2>2. Stores(cmd) \in 1 .. 8
    <3>1. cmd.verb \in Verbs
      BY CommandLaws
    <3> QED
      BY <3>1, Lengths DEF Verbs
  <2>3. /\ ~(1 - Stores(cmd) \in 2 .. 4) /\ ~(1 - Stores(cmd) \in 3 .. 4)
        /\ 1 - Stores(cmd) # 4 /\ 1 - Stores(cmd) # 5
    BY <2>2
  <2> QED
    BY <1>1, <1>2, <2>1, <2>3 DEF Refreshing
<1>9. GateFollows' /\ InForce' = InForce
  BY <1>1, <1>3 DEF IOne, GateFollows
<1> QED
  BY <1>7, <1>8, <1>9 DEF IOne

(* The configuration in force is replaced as a whole or not at all.         *)
ConfigStep ==
  \/ InForce' = InForce
  \/ \E cmd \in Commands : ~Refused(cmd) /\ InForce' = Apply(InForce, cmd)

LEMMA OneStep ==
  ASSUME OneSetter, IType, ILock, IOne, [Next]_vars
  PROVE  IOne' /\ ConfigStep
<1>1. ASSUME NEW s \in Setters, SetterStep(s) PROVE IOne' /\ ConfigStep
  <2>1. command[s] # Idle
    BY <1>1, SetterPlaces
  <2>2. command[s] \in Commands /\ ~Refused(command[s])
    BY <2>1, TheOne
  <2> QED
    BY <1>1, <2>2, SetterOne DEF ConfigStep
<1>2. CASE UNCHANGED <<shared, setterVars, before>>
  <2>1. UNCHANGED <<knob, gate, identity, cuts, command, ip, found, before>>
    BY <1>2 DEF shared, setterVars
  <2>2. Quiet' = Quiet /\ Spelled' = Spelled
    BY <2>1 DEF Quiet, Spelled
  <2>3. InForce' = InForce
    BY <2>1, <2>2 DEF InForce
  <2>4. Midway'
    BY <2>1 DEF IOne, Midway, Stage
  <2>5. Refreshing' /\ GateFollows'
    BY <2>1, <2>3 DEF IOne, Refreshing, GateFollows
  <2> QED
    BY <2>3, <2>4, <2>5 DEF IOne, ConfigStep
<1>3. ASSUME NEW s \in Setters, NEW cmd \in Commands, Begin(s, cmd) PROVE IOne' /\ ConfigStep
  BY <1>3, BeginOne DEF ConfigStep
<1> QED
  BY <1>1, <1>2, <1>3, OtherSteps

LEMMA OneAtATime ==
  ASSUME OneSetter
  PROVE  Safety => [](IType /\ ILock /\ IOne)
<1>1. IType /\ ILock /\ IOne /\ [Next]_vars => (IType /\ ILock /\ IOne)'
  BY TypeStep, LockStep, OneStep
<1> QED
  BY TypeInit, LockInit, OneInit, <1>1, PTL DEF Safety

(* With one setter, the gate is open if and only if some fault is on        *)
(* whenever no instruction is being obeyed.                                 *)
THEOREM GateIsTruthful == ASSUME OneSetter PROVE Safety => []GateTruthful
<1>1. IOne => GateTruthful
  BY DEF IOne, GateFollows, GateTruthful, InForce
<1> QED
  BY <1>1, OneAtATime, PTL

(* At the beginning nothing is on.                                          *)
LEMMA InitiallyOff == Init => InForce = Off
<1> SUFFICES ASSUME Init PROVE InForce = Off
  OBVIOUS
<1>1. Quiet
  BY DEF Init, Quiet
<1>2. knob = [k \in Knobs |-> 0] /\ identity = "" /\ cuts = {}
  BY DEF Init
<1>3. knob["hang"] = 0 /\ knob["latency"] = 0 /\ knob["jitter"] = 0 /\ knob["drop"] = 0
  BY <1>2 DEF Knobs
<1>4. Spelled \in Configs /\ Off \in Configs
  BY TypeInit, InForceTyped DEF Configs, Off, Names
<1>5. /\ Spelled.latency = Off.latency /\ Spelled.jitter = Off.jitter
      /\ Spelled.drop = Off.drop /\ Spelled.identity = Off.identity /\ Spelled.cuts = Off.cuts
  BY <1>2, <1>3 DEF Spelled, Off
<1>6. ~Spelled.hang /\ ~Off.hang
  <2>1. Spelled.hang <=> knob["hang"] = 1
    BY DEF Spelled
  <2>2. ~Off.hang
    BY DEF Off
  <2> QED
    BY <1>3, <2>1, <2>2
<1>7. Spelled.hang = Off.hang
  BY <1>4, <1>6 DEF Configs
<1>8. Spelled = Off
  BY <1>4, <1>5, <1>7, SameConfig
<1> QED
  BY <1>1, <1>8 DEF InForce

(* What the environment asks for so far, with one variable more of it       *)
(* obeyed: what the earlier ones ask for still stands.                      *)
LEMMA OneMore ==
  ASSUME env \in Environments, NEW k \in 1 .. Len(env), ~Refused(env[k]),
         NEW c \in Configs, Configured(c, k - 1)
  PROVE  Configured(Apply(c, env[k]), k)
<1>1. /\ env \in Seq(Commands) /\ Len(env) \in Nat
      /\ \A i \in 1 .. Len(env) : env[i].verb \notin {"heal", "clear"}
      /\ \A i, j \in 1 .. Len(env) :
           i # j /\ env[i].verb = env[j].verb => env[i].verb = "partition"
  BY EnvironmentsAssumption
<1>2. PICK cmd \in Commands : cmd = env[k]
  BY <1>1
<1>3. PICK d \in Configs : d = Apply(c, cmd) /\ Changed(cmd, c, d)
  BY <1>2, ApplyLaws
<1>4. cmd.verb \in Verbs /\ cmd.verb \notin {"heal", "clear"}
  BY <1>1, <1>2, CommandLaws
<1>5. \A i \in 1 .. k : i = k \/ i \in 1 .. k - 1
  OBVIOUS
<1>6. \A i \in 1 .. k - 1 : /\ env[i].verb = cmd.verb => cmd.verb = "partition"
                           /\ env[i].verb \notin {"heal", "clear"}
  BY <1>1, <1>2
<1>7. ASSUME NEW i \in 1 .. k PROVE ~Refused(env[i]) /\ Grants(d, env[i])
  <2>1. CASE i = k
    BY <1>2, <1>3, <2>1 DEF Grants, Changed
  <2>2. CASE i \in 1 .. k - 1
    <3>1. ~Refused(env[i]) /\ Grants(c, env[i])
      BY <2>2 DEF Configured
    <3>2. PICK e : e = env[i] /\ (e.verb = cmd.verb => cmd.verb = "partition")
      BY <1>6, <2>2
    <3>3. Grants(d, e)
      BY <1>3, <1>4, <3>1, <3>2 DEF Grants, Changed
    <3> QED
      BY <3>1, <3>2, <3>3
  <2> QED
    BY <1>5, <2>1, <2>2
<1>8. ASSUME NEW verb, Unset(verb, k)
      PROVE  Unset(verb, k - 1) /\ cmd.verb # verb
  BY <1>2, <1>8 DEF Unset
<1>9. /\ Unset("identity", k) => d.identity = ""
      /\ Unset("latency", k) => d.latency = 0 /\ d.jitter = 0
      /\ Unset("drop", k) => d.drop = 0
      /\ Unset("hang", k) => ~d.hang
  BY <1>3, <1>4, <1>8 DEF Configured, Changed
<1>10. ASSUME NEW cut \in d.cuts
       PROVE  \E i \in 1 .. k : env[i].verb = "partition" /\ cut = Cut(env[i].a, env[i].b)
  <2>1. CASE cut \in c.cuts
    <3>1. PICK i \in 1 .. k - 1 : env[i].verb = "partition" /\ cut = Cut(env[i].a, env[i].b)
      BY <2>1 DEF Configured
    <3> QED
      BY <3>1
  <2>2. CASE cut \notin c.cuts
    <3>1. cmd.verb = "partition" /\ cut = Cut(cmd.a, cmd.b)
      BY <1>3, <1>4, <1>10, <2>2 DEF Changed
    <3> QED
      BY <1>2, <3>1
  <2> QED
    BY <2>1, <2>2
<1>11. Configured(d, k)
  BY <1>7, <1>9, <1>10 DEF Configured
<1> QED
  BY <1>2, <1>3, <1>11

(* The variables obeyed so far are in force, but for one that is being      *)
(* obeyed.                                                                  *)
Obeying(cmd) == ~Quiet /\ \A s \in Setters : command[s] # Idle => command[s] = cmd

IEnv ==
  /\ env \in Environments
  /\ phase = "loading" =>
       \/ Quiet /\ Configured(InForce, loaded)
       \/ /\ loaded > 0 /\ Obeying(env[loaded])
          /\ Configured(InForce, loaded - 1)
  /\ phase = "serving" /\ issued = 0 => Quiet /\ Configured(InForce, Len(env))

LEMMA EnvInit == Init => IEnv
<1> SUFFICES ASSUME Init PROVE IEnv
  OBVIOUS
<1>1. InForce = Off /\ loaded = 0 /\ phase = "loading" /\ env \in Environments /\ Quiet
  BY InitiallyOff DEF Init, Quiet
<1>2. 1 .. 0 = {}
  OBVIOUS
<1>3. Configured(Off, 0)
  BY <1>2 DEF Configured, Off
<1> QED
  BY <1>1, <1>3 DEF IEnv

LEMMA EnvStep ==
  ASSUME OneSetter, IType, ILock, IOne, IEnv, [Next]_vars
  PROVE  IEnv'
<1>1. PICK c \in Configs, n \in Nat : c = InForce /\ n = loaded
  BY InForceTyped DEF IType, Loading
<1>2. ASSUME UNCHANGED env, NEW d, InForce' = d, NEW k, Configured(d, k)
      PROVE  /\ env' \in Environments
             /\ loaded' = k => Configured(InForce, loaded)'
             /\ Len(env) = k => Configured(InForce, Len(env))'
             /\ loaded' = k + 1 /\ k \in Nat => Configured(InForce, loaded - 1)'
  <2>1. Configured(InForce, k)'
    <3>1. env' = env /\ InForce' = d
      BY <1>2
    <3> QED
      BY <1>2, <3>1, Zenon DEF Configured, Unset
  <2>2. loaded' = k => Configured(InForce, loaded)'
    BY <2>1
  <2>3. Len(env) = k => Configured(InForce, Len(env))'
    BY <1>2, <2>1
  <2>4. loaded' = k + 1 /\ k \in Nat => Configured(InForce, loaded - 1)'
    <3>1. ASSUME loaded' = k + 1, k \in Nat PROVE loaded' - 1 = k
      BY <3>1
    <3> QED
      BY <2>1, <3>1
  <2> QED
    BY <1>2, <2>2, <2>3, <2>4 DEF IEnv
<1>3. CASE UNCHANGED <<shared, setterVars, before, loading, issued>>
  <2>1. UNCHANGED <<knob, identity, cuts, command, before, env, loaded, phase, issued>>
    BY <1>3 DEF shared, setterVars, loading
  <2>2. InForce' = InForce /\ Quiet' = Quiet /\ Obeying(env[loaded])' = Obeying(env[loaded])
    BY <2>1 DEF InForce, Quiet, Spelled, Obeying
  <2> QED
    BY <2>1, <2>2 DEF IEnv, Configured, Unset
<1>4. ASSUME NEW s \in Setters, SetterStep(s) PROVE IEnv'
  <2>1. UNCHANGED <<env, loaded, phase, issued>>
    BY <1>4 DEF SetterStep, StoreKnob, TakeLock, ReleaseLock, ChangeNames, LoadKnob, SetGate,
       Advance, loading
  <2>2. command[s] # Idle /\ ~Quiet /\ \A t \in Setters : t = s
    BY <1>4, SetterPlaces, TheOne
  <2>3. InForce' = IF ip[s] = Last(command[s]) THEN Apply(InForce, command[s]) ELSE InForce
    BY <1>4, SetterOne
  <2>4. ~(phase = "serving" /\ issued = 0) /\ env \in Environments
    BY <2>2 DEF IEnv
  <2>5. CASE phase = "loading"
    <3>1. /\ loaded > 0 /\ command[s] = env[loaded] /\ Configured(c, n - 1)
          /\ n \in 1 .. Len(env) /\ ~Refused(env[n])
      BY <1>1, <2>2, <2>5 DEF IEnv, Obeying, IType, Loading
    <3>2. CASE ip[s] = Last(command[s])
      <4>1. Configured(Apply(c, env[n]), n)
        BY <1>1, <2>4, <3>1, OneMore
      <4>2. Quiet'
        <5>1. command' = [command EXCEPT ![s] = Idle]
          <6>1. LoadOf(command[s], ip[s], Operation(s).knob) => ip[s] # Last(command[s])
            <7>1. Stores(command[s]) \in Nat
              BY <2>2, AtWorkLaws DEF IType
            <7> QED
              BY <7>1 DEF LoadOf, Last
          <6> QED
            BY <1>4, <3>2, <6>1, SetterPlaces
        <5> QED
          BY <2>2, <5>1 DEF Quiet, IType, AtWork
      <4>3. InForce' = Apply(c, env[n])
        BY <1>1, <2>3, <3>1, <3>2
      <4>4. Configured(InForce, loaded)'
        BY <1>1, <1>2, <2>1, <4>1, <4>3
      <4> QED
        BY <2>1, <2>4, <4>2, <4>4 DEF IEnv
    <3>3. CASE ip[s] # Last(command[s])
      <4>1. command' = command /\ InForce' = c
        BY <1>1, <1>4, <2>3, <3>3, SetterPlaces
      <4>2. Obeying(env[loaded])'
        BY <2>1, <2>2, <2>5, <4>1 DEF IEnv, Obeying, Quiet
      <4>3. Configured(InForce, loaded - 1)'
        <5>1. loaded' = (n - 1) + 1 /\ n - 1 \in Nat
          BY <1>1, <2>1, <3>1
        <5> QED
          BY <1>2, <2>1, <3>1, <4>1, <5>1
      <4> QED
        BY <2>1, <2>4, <3>1, <4>2, <4>3 DEF IEnv
    <3> QED
      BY <3>2, <3>3
  <2>6. CASE phase # "loading"
    BY <2>1, <2>4, <2>6 DEF IEnv
  <2> QED
    BY <2>5, <2>6
<1>5. ASSUME NEW s \in Setters, ObeyEnvironment(s) PROVE IEnv'
  <2>1. /\ phase = "loading" /\ Quiet /\ loaded < Len(env) /\ UNCHANGED <<env, issued>>
        /\ Configured(c, n) /\ env \in Environments
    BY <1>1, <1>5 DEF ObeyEnvironment, IEnv, Obeying
  <2>2. CASE Refused(env[loaded + 1])
    BY <1>5, <2>1, <2>2 DEF ObeyEnvironment, IEnv
  <2>3. CASE ~Refused(env[loaded + 1])
    <3>1. PICK cmd \in Commands : cmd = env[loaded + 1]
      BY <2>1 DEF IType, Loading
    <3>2. Begin(s, cmd) /\ loaded' = loaded + 1 /\ phase' = phase
      BY <1>5, <2>3, <3>1 DEF ObeyEnvironment
    <3>3. InForce' = c
      BY <1>1, <3>2, BeginOne
    <3>4. command'[s] = cmd /\ cmd # Idle /\ \A t \in Setters : t = s
      BY <3>2, Begins DEF OneSetter
    <3>5. Obeying(env[loaded])'
      BY <2>1, <3>1, <3>2, <3>4 DEF Obeying, Quiet
    <3>6. Configured(InForce, loaded - 1)'
      BY <1>1, <1>2, <2>1, <3>2, <3>3
    <3>7. loaded' > 0
      BY <1>1, <3>2
    <3> QED
      BY <2>1, <3>2, <3>5, <3>6, <3>7 DEF IEnv
  <2> QED
    BY <2>2, <2>3
<1>6. ASSUME NEW s \in Setters, ObeyCommand(s) PROVE IEnv'
  <2>1. phase' = "serving" /\ issued' = issued + 1 /\ issued \in Nat /\ env' = env
    BY <1>6, BoundAssumption DEF ObeyCommand, loading, IType, Loading
  <2>2. issued' # 0
    BY <2>1
  <2> QED
    BY <2>1, <2>2 DEF IEnv
<1>7. CASE StartServing
  <2>1. /\ phase = "loading" /\ Quiet /\ loaded = Len(env) /\ phase' = "serving"
        /\ UNCHANGED <<knob, identity, cuts, command, before, env, loaded>>
    BY <1>7 DEF StartServing, shared, setterVars
  <2>2. Configured(c, n) /\ env \in Environments
    BY <1>1, <2>1 DEF IEnv, Obeying
  <2>3. InForce' = c /\ Quiet'
    BY <1>1, <2>1 DEF InForce, Quiet, Spelled
  <2>4. Configured(InForce, Len(env))'
    BY <1>1, <1>2, <2>1, <2>2, <2>3
  <2> QED
    BY <2>1, <2>2, <2>3, <2>4 DEF IEnv
<1>8. ASSUME NEW r \in Readers, Call(r) \/ ReaderStep(r)
      PROVE  UNCHANGED <<shared, setterVars, before, loading, issued>>
  BY <1>8 DEF Call, ReaderStep, LoadGate, LoadLatency, LoadJitter, PollHang, LoadDrop, LoadFlag,
     LookUp, Quietly
<1>9. UNCHANGED vars \/ Exited => UNCHANGED <<shared, setterVars, before, loading, issued>>
  BY DEF Exited, vars
<1> QED
  BY <1>3, <1>4, <1>5, <1>6, <1>7, <1>8, <1>9 DEF Next

(* With one setter, a target that serves runs exactly the experiment that   *)
(* its environment asks for.                                                *)
THEOREM EnvironmentIsServed == ASSUME OneSetter PROVE Safety => []ServesItsEnvironment
<1>1. IEnv => ServesItsEnvironment
  BY DEF IEnv, ServesItsEnvironment, InForce
<1>2. (IType /\ ILock /\ IOne) /\ IEnv /\ [Next]_vars => IEnv'
  BY EnvStep
<1>3. Safety => [](IType /\ ILock /\ IOne)
  BY OneAtATime
<1> QED
  BY <1>1, <1>2, <1>3, EnvInit, PTL DEF Safety

(* What Config says of an instruction is what Instructions says.            *)
LEMMA SameInstructions ==
  /\ Config!Init <=> InForce = Off
  /\ Config!Next <=> \E cmd \in Commands : ~Refused(cmd) /\ InForce' = Apply(InForce, cmd)
<1>1. Config!Init <=> InForce = Off
  BY SMT DEF Config!Init, Config!Off, Off
<1>2. \A cmd \in Commands : Config!Refused(cmd) <=> Refused(cmd)
  <2>1. Config!Million = Million
    BY SMT DEF Config!Million, Million
  <2> QED
    BY <2>1, Zenon DEF Config!Refused, Refused
<1>3. \A c : \A cmd \in Commands : Config!Apply(c, cmd) = Apply(c, cmd)
  BY SMT DEF Config!Apply, Apply, Config!Ppm, Ppm, Config!Hanging, Hanging, Config!Cut, Cut,
     Config!Off, Off
<1>4. Config!Next <=>
        \E cmd \in Commands : ~Config!Refused(cmd) /\ InForce' = Config!Apply(InForce, cmd)
  BY Zenon DEF Config!Next
<1>5. Config!Next <=> \E cmd \in Commands : ~Refused(cmd) /\ InForce' = Apply(InForce, cmd)
  BY <1>2, <1>3, <1>4
<1> QED
  BY <1>1, <1>5

(* With one setter, the knobs implement one configuration that each         *)
(* instruction replaces as a whole or leaves alone: every step of the       *)
(* atomics is a step of the configuration or a stutter.                     *)
THEOREM KnobsAreAConfiguration == ASSUME OneSetter PROVE Safety => ConfigSpec
<1>1. Init => Config!Init
  BY InitiallyOff, SameInstructions
<1>2. ConfigStep => [Config!Next]_InForce
  BY SameInstructions DEF ConfigStep
<1>3. IType /\ ILock /\ IOne /\ [Next]_vars => ConfigStep
  BY OneStep
<1> QED
  BY <1>1, <1>2, <1>3, OneAtATime, PTL DEF Safety, ConfigSpec, Config!Spec

-----------------------------------------------------------------------------
(* Readers, with one setter.                                                *)

(* The configuration in force and the one being put in force.               *)
Possible ==
  {InForce} \cup {Apply(InForce, command[s]) : s \in {t \in Setters : command[t] # Idle}}

Known == \A r \in Readers : Inside(r) => Possible \subseteq could[r]

(* What a single load finds is of one of them.                              *)
LEMMA Found ==
  ASSUME OneSetter, IType, ILock, IOne
  PROVE  /\ \E c \in Possible : knob["latency"] = c.latency
         /\ \E c \in Possible : knob["jitter"] = c.jitter
         /\ \E c \in Possible : knob["drop"] = c.drop
         /\ \E c \in Possible : knob["hang"] # 1 => ~c.hang
         /\ \E c \in Possible : knob["cut"] = 0 => c.cuts = {}
         /\ \E c \in Possible : identity = c.identity /\ cuts = c.cuts
         /\ ~gate => ~Enabled(InForce)
         /\ InForce \in Possible /\ Possible \subseteq Configs
<1>1. ~gate => ~Enabled(InForce)
  BY DEF IOne, GateFollows
<1>2. CASE Quiet
  <2>1. InForce = Spelled /\ InForce \in Possible /\ InForce \in Configs
    BY <1>2, InForceTyped DEF InForce, Possible
  <2>2. /\ knob["latency"] = InForce.latency /\ knob["jitter"] = InForce.jitter
        /\ knob["drop"] = InForce.drop /\ identity = InForce.identity /\ cuts = InForce.cuts
        /\ InForce.hang <=> knob["hang"] = 1
    BY <2>1 DEF Spelled
  <2>3. Truth
    <3>1. holder = Nobody
      BY <1>2 DEF Quiet, ILock, HolderIsInside, IType, Shared
    <3> QED
      BY <3>1 DEF ILock, FlagFollows
  <2>4. Possible = {InForce}
    BY <1>2 DEF Quiet, Possible
  <2>5. knob["cut"] = 0 => InForce.cuts = {}
    BY <2>2, <2>3 DEF Truth
  <2> QED
    BY <1>1, <2>1, <2>2, <2>4, <2>5
<1>3. CASE ~Quiet
  <2>1. PICK s \in Setters : command[s] # Idle
    BY <1>3 DEF Quiet
  <2>2. /\ InForce = before /\ before \in Configs /\ command[s] \in Commands
        /\ ~Refused(command[s]) /\ Apply(before, command[s]) \in Configs
        /\ \A t \in Setters : t = s
    BY <2>1, TheOne
  <2>3. PICK cmd \in Commands, i \in Nat, old \in Configs, new \in Configs :
          /\ cmd = command[s] /\ i = ip[s] /\ old = before /\ new = Apply(before, cmd)
    BY <2>2 DEF IType, AtWork
  <2>4. Stage(cmd, i, old, new) /\ Changed(cmd, old, new)
    BY <2>1, <2>2, <2>3, ApplyLaws DEF IOne, Midway
  <2>5. Possible = {old, new} /\ InForce = old
    BY <2>1, <2>2, <2>3 DEF Possible
  <2>6. /\ knob["latency"] \in {old.latency, new.latency}
        /\ knob["jitter"] \in {old.jitter, new.jitter}
        /\ knob["drop"] \in {old.drop, new.drop}
        /\ knob["hang"] \in {Bit(old.hang), Bit(new.hang)}
        /\ knob["cut"] \in {Bit(old.cuts # {}), Bit(new.cuts # {})}
    BY <2>4 DEF Stage
  <2>7. \/ identity = old.identity /\ cuts = old.cuts
        \/ identity = new.identity /\ cuts = new.cuts
    <3>1. identity \in {old.identity, new.identity} /\ cuts \in {old.cuts, new.cuts}
      BY <2>4 DEF Stage
    <3>2. cmd.verb # "identity" => new.identity = old.identity
      BY <2>4 DEF Changed
    <3>3. cmd.verb = "identity" => new.cuts = old.cuts
      BY <2>4 DEF Changed
    <3> QED
      BY <3>1, <3>2, <3>3
  <2>8. knob["hang"] # 1 => ~old.hang \/ ~new.hang
    BY <2>6 DEF Bit
  <2>9. knob["cut"] = 0 => old.cuts = {} \/ new.cuts = {}
    BY <2>6 DEF Bit
  <2>10. /\ \E c \in Possible : knob["latency"] = c.latency
         /\ \E c \in Possible : knob["jitter"] = c.jitter
         /\ \E c \in Possible : knob["drop"] = c.drop
    BY <2>5, <2>6
  <2>11. /\ \E c \in Possible : knob["hang"] # 1 => ~c.hang
         /\ \E c \in Possible : knob["cut"] = 0 => c.cuts = {}
         /\ \E c \in Possible : identity = c.identity /\ cuts = c.cuts
    BY <2>5, <2>7, <2>8, <2>9
  <2> QED
    BY <1>1, <2>5, <2>10, <2>11
<1> QED
  BY <1>2, <1>3

(* Nothing becomes possible during an instruction.                          *)
LEMMA SetterPossible ==
  ASSUME OneSetter, IType, ILock, IOne, NEW s \in Setters, SetterStep(s)
  PROVE  Possible' \subseteq Possible
<1>1. /\ command[s] # Idle /\ InForce = before /\ before' = before
      /\ \A t \in Setters : t = s
  <2>1. command[s] # Idle
    BY SetterPlaces
  <2>2. before' = before
    BY DEF SetterStep, StoreKnob, TakeLock, ReleaseLock, ChangeNames, LoadKnob, SetGate, Advance
  <2> QED
    BY <2>1, <2>2, TheOne
<1>2. InForce' = IF ip[s] = Last(command[s]) THEN Apply(InForce, command[s]) ELSE InForce
  BY SetterOne
<1>3. CASE ip[s] = Last(command[s])
  <2>1. command'[s] = Idle
    <3>1. Stores(command[s]) \in 1 .. 8
      BY <1>1, AtWorkLaws DEF IType
    <3>2. ~LoadOf(command[s], ip[s], Operation(s).knob)
      BY <1>3, <3>1 DEF LoadOf, Last
    <3> QED
      BY <1>3, <3>2, SetterPlaces DEF IType, AtWork
  <2>2. Possible' = {InForce'}
    BY <1>1, <2>1 DEF Possible
  <2>3. InForce' = Apply(InForce, command[s])
    BY <1>2, <1>3
  <2> QED
    BY <1>1, <2>2, <2>3 DEF Possible
<1>4. CASE ip[s] # Last(command[s])
  <2>1. command' = command
    BY <1>4, SetterPlaces
  <2>2. InForce' = InForce
    BY <1>2, <1>4
  <2> QED
    BY <2>1, <2>2 DEF Possible
<1> QED
  BY <1>3, <1>4

LEMMA SamePossible ==
  ASSUME UNCHANGED <<shared, setterVars, before>>
  PROVE  Possible' = Possible
<1>1. UNCHANGED <<knob, identity, cuts, command, before>>
  BY DEF shared, setterVars
<1>2. InForce' = InForce
  BY <1>1 DEF InForce, Quiet, Spelled
<1> QED
  BY <1>1, <1>2 DEF Possible

(* While only one configuration is possible, a response has waited for      *)
(* nothing yet, knows that configuration's latency, or has waited as asked. *)
Waiting ==
  \A r \in Readers : \A c \in Configs :
    check[r].kind = "respond" /\ could[r] = {c} =>
      /\ at[r] \in {"gate", "latency"} => wait[r] = 0
      /\ at[r] = "jitter" => mean[r] = c.latency
      /\ at[r] \in {"hang", "returned"} =>
           wait[r] \in c.latency - c.jitter .. c.latency + c.jitter

IReader == Known /\ ChecksAnswerByAConfiguration /\ Waiting

(* Whose step it is.                                                        *)
LEMMA StepKinds ==
  ASSUME IType, [Next]_vars
  PROVE  \/ \E s \in Setters : SetterStep(s) /\ UNCHANGED <<readerVars, could>>
         \/ \E s \in Setters, cmd \in Commands : Begin(s, cmd)
         \/ \E r \in Readers : Call(r) \/ ReaderStep(r)
         \/ UNCHANGED <<shared, setterVars, before, readerVars, could>>
<1>1. ASSUME NEW s \in Setters, SetterStep(s) PROVE UNCHANGED <<readerVars, could>>
  BY <1>1 DEF SetterStep, StoreKnob, TakeLock, ReleaseLock, ChangeNames, LoadKnob, SetGate, Advance
<1>2. ASSUME NEW s \in Setters, ObeyEnvironment(s)
      PROVE  \/ \E cmd \in Commands : Begin(s, cmd)
             \/ UNCHANGED <<shared, setterVars, before, readerVars, could>>
  <2>1. loaded < Len(env) => env[loaded + 1] \in Commands
    BY DEF IType, Loading
  <2> QED
    BY <1>2, <2>1 DEF ObeyEnvironment
<1>3. ASSUME NEW s \in Setters, ObeyCommand(s)
      PROVE  \E cmd \in Commands : Begin(s, cmd)
  BY <1>3 DEF ObeyCommand
<1>4. StartServing \/ Exited \/ UNCHANGED vars =>
        UNCHANGED <<shared, setterVars, before, readerVars, could>>
  BY DEF StartServing, Exited, vars
<1> QED
  BY <1>1, <1>2, <1>3, <1>4 DEF Next

(* What a check answers depends on its own variables only.                  *)
LEMMA StillAnswers ==
  ASSUME UNCHANGED readerVars,
         \A r \in Readers : at[r] = "returned" => could'[r] = could[r],
         ChecksAnswerByAConfiguration
  PROVE  ChecksAnswerByAConfiguration'
<1>1. \A r \in Readers : at'[r] = at[r] /\ check'[r] = check[r] /\ answer'[r] = answer[r]
  BY DEF readerVars
<1> SUFFICES ASSUME NEW r \in Readers, at[r] = "returned"
             PROVE  \E c \in could[r] : AnswersBy(r, c)'
  BY <1>1 DEF ChecksAnswerByAConfiguration
<1>2. PICK c \in could[r] : AnswersBy(r, c)
  BY DEF ChecksAnswerByAConfiguration
<1> QED
  BY <1>1, <1>2, ZenonT(60) DEF AnswersBy

LEMMA SetterReader ==
  ASSUME OneSetter, IType, ILock, IOne, IReader,
         \/ \E s \in Setters : SetterStep(s) /\ UNCHANGED <<readerVars, could>>
         \/ UNCHANGED <<shared, setterVars, before, readerVars, could>>
  PROVE  IReader'
<1>1. UNCHANGED <<readerVars, could>>
  OBVIOUS
<1>2. Possible' \subseteq Possible
  BY SetterPossible, SamePossible
<1>3. Known'
  BY <1>1, <1>2 DEF IReader, Known, Inside, readerVars
<1>4. ChecksAnswerByAConfiguration'
  BY <1>1, StillAnswers DEF IReader
<1>5. Waiting'
  BY <1>1 DEF IReader, Waiting, readerVars
<1> QED
  BY <1>3, <1>4, <1>5 DEF IReader

LEMMA BeginReader ==
  ASSUME OneSetter, IType, ILock, IOne, IReader, NEW s \in Setters, NEW cmd \in Commands,
         Begin(s, cmd)
  PROVE  IReader'
<1>1. /\ command[s] = Idle /\ command'[s] = cmd /\ \A t \in Setters : t = s
      /\ UNCHANGED readerVars
      /\ \A r \in Readers : could'[r] = IF Inside(r) THEN could[r] \cup {Apply(InForce, cmd)}
                                                     ELSE could[r]
  BY Begins DEF Begin, OneSetter
<1>2. InForce' = InForce
  BY BeginOne
<1>3. Possible' \subseteq {InForce, Apply(InForce, cmd)}
  BY <1>1, <1>2 DEF Possible
<1>4. \A r \in Readers : Inside(r) => InForce \in could[r]
  BY DEF IReader, Known, Possible
<1>5. \A r \in Readers : Inside(r)' <=> Inside(r)
  BY <1>1 DEF Inside, readerVars
<1>6. Known'
  BY <1>1, <1>3, <1>4, <1>5 DEF Known
<1>7. ChecksAnswerByAConfiguration'
  BY <1>1, StillAnswers DEF IReader, Inside
<1>8. \A r \in Readers : \A c : could'[r] = {c} => could[r] = {c}
  BY <1>1, <1>4
<1>9. Waiting'
  <2> SUFFICES ASSUME NEW r \in Readers, NEW c \in Configs, check[r].kind = "respond",
                      could'[r] = {c}
               PROVE  /\ at[r] \in {"gate", "latency"} => wait[r] = 0
                      /\ at[r] = "jitter" => mean[r] = c.latency
                      /\ at[r] \in {"hang", "returned"} =>
                           wait[r] \in c.latency - c.jitter .. c.latency + c.jitter
    BY <1>1 DEF Waiting, readerVars
  <2>1. could[r] = {c}
    BY <1>8
  <2> QED
    BY <2>1 DEF IReader, Waiting
<1> QED
  BY <1>6, <1>7, <1>9 DEF IReader

LEMMA CallReader ==
  ASSUME IType, IReader, NEW r \in Readers, Call(r)
  PROVE  IReader'
<1>1. /\ could' = [could EXCEPT ![r] = Possible] /\ at' = [at EXCEPT ![r] = "gate"]
      /\ wait' = [wait EXCEPT ![r] = 0] /\ mean' = [mean EXCEPT ![r] = 0]
      /\ answer' = [answer EXCEPT ![r] = FALSE]
      /\ \E c \in Checks : check' = [check EXCEPT ![r] = c]
  BY DEF Call, Possible
<1>2. /\ could'[r] = Possible /\ at'[r] = "gate" /\ wait'[r] = 0
      /\ \A q \in Readers : q # r =>
           /\ could'[q] = could[q] /\ at'[q] = at[q] /\ wait'[q] = wait[q]
           /\ mean'[q] = mean[q] /\ answer'[q] = answer[q] /\ check'[q] = check[q]
  BY <1>1 DEF IType, Reading, History
<1>3. Possible' = Possible
  BY SamePossible DEF Call
<1>4. Known'
  BY <1>2, <1>3 DEF IReader, Known, Inside
<1>5. ChecksAnswerByAConfiguration'
  <2> SUFFICES ASSUME NEW q \in Readers, at'[q] = "returned"
               PROVE  \E c \in could'[q] : AnswersBy(q, c)'
    BY DEF ChecksAnswerByAConfiguration
  <2>1. q # r
    BY <1>2
  <2>2. PICK c \in could[q] : AnswersBy(q, c)
    BY <1>2, <2>1 DEF IReader, ChecksAnswerByAConfiguration
  <2> QED
    BY <1>2, <2>1, <2>2, ZenonT(60) DEF AnswersBy
<1>6. Waiting'
  <2> SUFFICES ASSUME NEW q \in Readers, NEW c \in Configs, check'[q].kind = "respond",
                      could'[q] = {c}
               PROVE  /\ at'[q] \in {"gate", "latency"} => wait'[q] = 0
                      /\ at'[q] = "jitter" => mean'[q] = c.latency
                      /\ at'[q] \in {"hang", "returned"} =>
                           wait'[q] \in c.latency - c.jitter .. c.latency + c.jitter
    BY DEF Waiting
  <2> QED
    BY <1>2 DEF IReader, Waiting
<1> QED
  BY <1>4, <1>5, <1>6 DEF IReader

LEMMA SameAnswer ==
  ASSUME NEW q \in Readers, NEW c, AnswersBy(q, c), check'[q] = check[q], answer'[q] = answer[q]
  PROVE  AnswersBy(q, c)'
  BY DEF AnswersBy

(* A reader's step concerns that reader alone.                              *)
LEMMA OneReader ==
  ASSUME IType, IReader, NEW r \in Readers, Quietly, Inside(r),
         at' \in [Readers -> Places],
         \A q \in Readers : q # r =>
           at'[q] = at[q] /\ mean'[q] = mean[q] /\ wait'[q] = wait[q] /\ answer'[q] = answer[q],
         at'[r] = "returned" => \E c \in could[r] : AnswersBy(r, c)',
         \A c \in Configs :
           check[r].kind = "respond" /\ could[r] = {c} =>
             /\ at'[r] \in {"gate", "latency"} => wait'[r] = 0
             /\ at'[r] = "jitter" => mean'[r] = c.latency
             /\ at'[r] \in {"hang", "returned"} =>
                  wait'[r] \in c.latency - c.jitter .. c.latency + c.jitter
  PROVE  IReader'
<1>1. UNCHANGED <<shared, setterVars, check, before, could>>
  BY DEF Quietly
<1>2. Possible' = Possible
  BY <1>1, SamePossible
<1>3. Known'
  <2> SUFFICES ASSUME NEW q \in Readers, Inside(q)' PROVE Possible \subseteq could[q]
    BY <1>1, <1>2 DEF Known
  <2>1. Inside(q)
    BY DEF Inside
  <2> QED
    BY <2>1 DEF IReader, Known
<1>4. ChecksAnswerByAConfiguration'
  <2> SUFFICES ASSUME NEW q \in Readers, at'[q] = "returned"
               PROVE  \E c \in could[q] : AnswersBy(q, c)'
    BY <1>1 DEF ChecksAnswerByAConfiguration
  <2>1. CASE q # r
    <3>1. PICK c \in could[q] : AnswersBy(q, c)
      BY <2>1 DEF IReader, ChecksAnswerByAConfiguration
    <3>2. check'[q] = check[q] /\ answer'[q] = answer[q]
      BY <1>1, <2>1
    <3> QED
      BY <3>1, <3>2, SameAnswer
  <2> QED
    BY <2>1
<1>5. Waiting'
  <2> SUFFICES ASSUME NEW q \in Readers, NEW c \in Configs, check[q].kind = "respond",
                      could[q] = {c}
               PROVE  /\ at'[q] \in {"gate", "latency"} => wait'[q] = 0
                      /\ at'[q] = "jitter" => mean'[q] = c.latency
                      /\ at'[q] \in {"hang", "returned"} =>
                           wait'[q] \in c.latency - c.jitter .. c.latency + c.jitter
    BY <1>1 DEF Waiting
  <2> QED
    BY DEF IReader, Waiting
<1> QED
  BY <1>3, <1>4, <1>5 DEF IReader

LEMMA NoDraw == 0 \in Draws
  BY SMT DEF Draws

LEMMA ReaderReader ==
  ASSUME OneSetter, IType, ILock, IOne, IReader, NEW r \in Readers, ReaderStep(r)
  PROVE  IReader'
<1>1. /\ Quietly /\ Inside(r)
      /\ \E l : at' = [at EXCEPT ![r] = l] \/ at' = at
      /\ mean' = mean \/ \E m : mean' = [mean EXCEPT ![r] = m]
      /\ wait' = wait \/ \E w : wait' = [wait EXCEPT ![r] = w]
      /\ answer' = answer \/ \E a : answer' = [answer EXCEPT ![r] = a]
  BY DEF ReaderStep, LoadGate, LoadLatency, LoadJitter, PollHang, LoadDrop, LoadFlag, LookUp,
         Move, Return, Inside
<1>2. at' \in [Readers -> Places]
  BY ReaderTypes DEF IType, Reading
<1>3. \A q \in Readers : q # r =>
        at'[q] = at[q] /\ mean'[q] = mean[q] /\ wait'[q] = wait[q] /\ answer'[q] = answer[q]
  BY <1>1 DEF IType, Reading
<1>4. /\ at \in [Readers -> Places] /\ mean \in [Readers -> Nat] /\ wait \in [Readers -> Int]
      /\ answer \in [Readers -> BOOLEAN] /\ check' = check
      /\ knob["latency"] \in Nat /\ knob["jitter"] \in Nat
  BY <1>1 DEF IType, Reading, Quietly, Shared, Knobs
<1>5. /\ InForce \in Possible /\ Possible \subseteq could[r] /\ Possible \subseteq Configs
      /\ \A c : could[r] = {c} => \A d \in Possible : d = c
  BY <1>1, Found DEF IReader, Known
<1>6. SUFFICES /\ at'[r] = "returned" => \E c \in could[r] : AnswersBy(r, c)'
               /\ \A c \in Configs :
                    check[r].kind = "respond" /\ could[r] = {c} =>
                      /\ at'[r] \in {"gate", "latency"} => wait'[r] = 0
                      /\ at'[r] = "jitter" => mean'[r] = c.latency
                      /\ at'[r] \in {"hang", "returned"} =>
                           wait'[r] \in c.latency - c.jitter .. c.latency + c.jitter
  BY <1>1, <1>2, <1>3, OneReader
<1>7. ASSUME NEW c \in Configs, check[r].kind = "respond", could[r] = {c}
      PROVE  /\ at[r] \in {"gate", "latency"} => wait[r] = 0
             /\ at[r] = "jitter" => mean[r] = c.latency
             /\ at[r] \in {"hang", "returned"} =>
                  wait[r] \in c.latency - c.jitter .. c.latency + c.jitter
             /\ c.latency \in Nat /\ c.jitter \in Nat
  BY <1>7 DEF IReader, Waiting, Configs
<1>8. CASE LoadGate(r) /\ ~gate
  <2>1. at'[r] = "returned" /\ ~answer'[r] /\ wait'[r] = wait[r] /\ at[r] = "gate"
    BY <1>4, <1>8 DEF LoadGate, Move, Return
  <2>2. ~Enabled(InForce)
    BY <1>8, Found
  <2>3. check[r] \in Checks
    BY <2>1 DEF IType, Reading
  <2>4. PICK c \in could[r] : c = InForce
    BY <1>5
  <2>5. AnswersBy(r, c)'
    <3>1. c.latency = 0 /\ c.drop = 0 /\ ~c.hang /\ c.cuts = {}
      BY <2>2, <2>4 DEF Enabled
    <3>2. CASE check[r].kind = "respond"
      BY <1>4, <3>1, <3>2 DEF AnswersBy
    <3>3. CASE check[r].kind = "drop"
      <4>1. (answer[r] = (0 < c.drop))'
        <5>1. ~(0 < c.drop) /\ ~answer'[r] /\ answer'[r] \in BOOLEAN
          BY <2>1, <3>1, ReaderTypes DEF IType, Reading
        <5> QED
          BY <5>1
      <4> QED
        BY <1>4, <3>3, <4>1, NoDraw DEF AnswersBy
    <3>4. CASE check[r].kind = "blocked"
      <4>1. (answer[r] = CutFrom(c, check[r].peer))'
        <5>1. ~CutFrom(c, check[r].peer)' /\ ~answer'[r] /\ answer'[r] \in BOOLEAN
          BY <2>1, <3>1, ReaderTypes DEF IType, Reading, CutFrom
        <5> QED
          BY <5>1 DEF CutFrom
      <4> QED
        BY <1>4, <3>4, <4>1 DEF AnswersBy
    <3> QED
      BY <2>3, <3>2, <3>3, <3>4 DEF Checks
  <2>6. ASSUME NEW d \in Configs, check[r].kind = "respond", could[r] = {d}
        PROVE  wait'[r] \in d.latency - d.jitter .. d.latency + d.jitter
    <3>1. d = InForce /\ wait[r] = 0
      BY <1>5, <1>7, <2>1, <2>6
    <3>2. d.latency = 0 /\ d.jitter \in Nat
      BY <1>7, <2>2, <2>6, <3>1 DEF Enabled
    <3> QED
      BY <2>1, <3>1, <3>2
  <2> QED
    BY <2>1, <2>5, <2>6
<1>9. CASE LoadGate(r) /\ gate
  <2>1. /\ at[r] = "gate" /\ check[r] \in Checks /\ wait' = wait
        /\ at' = [at EXCEPT ![r] = CASE check[r].kind = "respond" -> "latency"
                                    [] check[r].kind = "drop" -> "drop"
                                    [] check[r].kind = "blocked" -> "flag"]
    BY <1>9 DEF LoadGate, Move, IType, Reading
  <2>2. at'[r] \in {"latency", "drop", "flag"} /\ (check[r].kind = "respond" => at'[r] = "latency")
    BY <1>4, <2>1 DEF Checks
  <2> QED
    BY <1>7, <2>1, <2>2
<1>10. CASE LoadLatency(r)
  <2>1. /\ at[r] = "latency" /\ wait' = wait /\ mean'[r] = knob["latency"]
        /\ IF knob["latency"] > 0 THEN at'[r] = "jitter" ELSE at'[r] = "hang"
    BY <1>4, <1>10 DEF LoadLatency, Move
  <2>2. ASSUME NEW c \in Configs, check[r].kind = "respond", could[r] = {c}
        PROVE  /\ mean'[r] = c.latency /\ wait'[r] = 0
               /\ at'[r] = "hang" => wait'[r] \in c.latency - c.jitter .. c.latency + c.jitter
    <3>1. knob["latency"] = c.latency
      BY <1>5, <2>2, Found
    <3> QED
      BY <1>4, <1>7, <2>1, <2>2, <3>1
  <2> QED
    BY <2>1, <2>2
<1>11. CASE LoadJitter(r)
  <2>1. PICK spread \in -knob["jitter"] .. knob["jitter"] :
          wait' = [wait EXCEPT ![r] = mean[r] + spread]
    BY <1>11 DEF LoadJitter
  <2>2. at[r] = "jitter" /\ at'[r] = "hang" /\ wait'[r] = mean[r] + spread /\ mean[r] \in Nat
    BY <1>4, <1>11, <2>1 DEF LoadJitter, Move
  <2>3. ASSUME NEW c \in Configs, check[r].kind = "respond", could[r] = {c}
        PROVE  wait'[r] \in c.latency - c.jitter .. c.latency + c.jitter
    <3>1. knob["jitter"] = c.jitter
      BY <1>5, <2>3, Found
    <3>2. mean[r] = c.latency /\ c.latency \in Nat /\ c.jitter \in Nat
      BY <1>7, <2>2, <2>3
    <3> QED
      BY <2>1, <2>2, <3>1, <3>2
  <2> QED
    BY <2>2, <2>3
<1>12. CASE PollHang(r)
  <2>1. at[r] = "hang" /\ wait' = wait /\ check[r].kind = "respond" /\ at'[r] \in {"hang", "returned"}
    BY <1>4, <1>12 DEF PollHang, Move, Return, IType, Reading
  <2>2. at'[r] = "returned" => \E c \in could[r] : AnswersBy(r, c)'
    <3> SUFFICES ASSUME at'[r] = "returned" PROVE \E c \in could[r] : AnswersBy(r, c)'
      OBVIOUS
    <3>1. knob["hang"] # 1
      BY <1>12, <2>1 DEF PollHang
    <3>2. PICK c \in could[r] : ~c.hang
      BY <1>5, <3>1, Found
    <3> QED
      BY <1>4, <2>1, <3>2 DEF AnswersBy
  <2> QED
    BY <1>7, <2>1, <2>2
<1>13. CASE LoadDrop(r)
  <2>1. PICK draw \in Draws : Return(r, draw < knob["drop"])
    BY <1>13 DEF LoadDrop
  <2>2. check[r].kind = "drop" /\ at'[r] = "returned" /\ answer'[r] = (draw < knob["drop"])
    BY <1>4, <1>13, <2>1 DEF LoadDrop, Return, Move, IType, Reading
  <2>3. PICK c \in could[r] : knob["drop"] = c.drop
    BY <1>5, Found
  <2>4. AnswersBy(r, c)'
    BY <1>4, <2>2, <2>3 DEF AnswersBy
  <2> QED
    BY <2>2, <2>4
<1>14. CASE LoadFlag(r)
  <2>1. /\ at[r] = "flag" /\ check[r].kind = "blocked"
        /\ IF knob["cut"] = 0 THEN at'[r] = "returned" /\ ~answer'[r] ELSE at'[r] = "lookup"
    BY <1>4, <1>14 DEF LoadFlag, Return, Move, IType, Reading
  <2>2. at'[r] = "returned" => \E c \in could[r] : AnswersBy(r, c)'
    <3> SUFFICES ASSUME at'[r] = "returned" PROVE \E c \in could[r] : AnswersBy(r, c)'
      OBVIOUS
    <3>1. knob["cut"] = 0 /\ ~answer'[r] /\ answer'[r] \in BOOLEAN
      BY <2>1, ReaderTypes DEF IType, Reading
    <3>2. PICK c \in could[r] : c.cuts = {}
      BY <1>5, <3>1, Found
    <3>3. ~CutFrom(c, check[r].peer)
      BY <3>2 DEF CutFrom
    <3>4. answer'[r] = CutFrom(c, check[r].peer)
      BY <3>1, <3>3 DEF CutFrom
    <3> QED
      BY <1>4, <2>1, <3>4 DEF AnswersBy
  <2> QED
    BY <2>1, <2>2
<1>15. CASE LookUp(r)
  <2>1. /\ check[r].kind = "blocked" /\ at'[r] = "returned"
        /\ answer'[r] = (identity # "" /\ Cut(identity, check[r].peer) \in cuts)
    BY <1>4, <1>15 DEF LookUp, Return, Move, IType, Reading
  <2>2. PICK c \in could[r] : identity = c.identity /\ cuts = c.cuts
    BY <1>5, Found
  <2>3. answer'[r] = CutFrom(c, check[r].peer)
    BY <2>1, <2>2 DEF CutFrom
  <2>4. AnswersBy(r, c)'
    BY <1>4, <2>1, <2>3 DEF AnswersBy
  <2> QED
    BY <2>1, <2>4
<1> QED
  BY <1>8, <1>9, <1>10, <1>11, <1>12, <1>13, <1>14, <1>15 DEF ReaderStep

LEMMA ReaderInit == Init => IReader
  BY DEF Init, IReader, Known, Inside, ChecksAnswerByAConfiguration, Waiting, NoCheck

LEMMA ReaderInvariant ==
  ASSUME OneSetter, IType, ILock, IOne, IReader, [Next]_vars
  PROVE  IReader'
  BY StepKinds, SetterReader, BeginReader, CallReader, ReaderReader

LEMMA ReadersServed == ASSUME OneSetter PROVE Safety => [](IType /\ IReader)
<1>1. IType /\ ILock /\ IOne /\ IReader /\ [Next]_vars => (IType /\ ILock /\ IOne /\ IReader)'
  BY TypeStep, LockStep, OneStep, ReaderInvariant
<1> QED
  BY TypeInit, LockInit, OneInit, ReaderInit, <1>1, PTL DEF Safety

(* With one setter, a check answers by a configuration that was in force,   *)
(* or being put in force, between its call and its return, however its      *)
(* loads interleave with the stores.                                        *)
THEOREM ChecksAreConsistent == ASSUME OneSetter PROVE Safety => []ChecksAnswerByAConfiguration
<1>1. IReader => ChecksAnswerByAConfiguration
  BY DEF IReader
<1> QED
  BY <1>1, ReadersServed, PTL

(* With one setter, a response made while nobody touches the knobs waits    *)
(* for the mean give or take the jitter.                                    *)
THEOREM ResponsesWaitAsAsked == ASSUME OneSetter PROVE Safety => []WaitsAsAsked
<1>1. IType /\ IReader => WaitsAsAsked
  <2> SUFFICES ASSUME IType, IReader, NEW r \in Readers, at[r] = "returned",
                      check[r].kind = "respond", NEW c \in could[r], could[r] = {c}
               PROVE  wait[r] \in c.latency - c.jitter .. c.latency + c.jitter
    BY DEF WaitsAsAsked
  <2>1. c \in Configs
    BY DEF IType, History
  <2> QED
    BY <2>1 DEF IReader, Waiting
<1> QED
  BY <1>1, ReadersServed, PTL
=============================================================================
