-------------------------- MODULE OpenLoop_proofs ---------------------------
(***************************************************************************)
(* Theorems about OpenLoop, for every number of connections, every plan,   *)
(* every rate and every behaviour of the target.                           *)
(***************************************************************************)
EXTENDS OpenLoop, CountingLaws

(* Facts about the operators the worker counts with.                        *)

LEMMA DueNat == \A i \in Nat : Due(i) \in Nat
  BY PlanAssumption DEF Due, DueAt

LEMMA TallyFields ==
  \A t \in Tallies :
    /\ t.attempted \in Nat /\ t.opened \in Nat
    /\ t.errors \in [ErrorKinds -> Nat]
    /\ t.latency \in Seq(Nat) /\ t.lag \in Seq(Nat) /\ t.wait \in Seq(Nat)
    /\ t.rig \in Seq(Int)
  BY DEF Tallies

LEMMA TallyOfType ==
  \A a, o \in Nat, e \in [ErrorKinds -> Nat], h, l, w \in Seq(Nat), r \in Seq(Int) :
    TallyOf(a, e, o, h, l, w, r) \in Tallies
  BY DEF TallyOf, Tallies

(* Appending lengthens by one, concatenating adds the lengths.              *)
LEMMA SeqFacts ==
  ASSUME NEW S, NEW s \in Seq(S), NEW t \in Seq(S), NEW e \in S
  PROVE  /\ Append(s, e) \in Seq(S) /\ Len(Append(s, e)) = Len(s) + 1
         /\ s \o t \in Seq(S) /\ Len(s \o t) = Len(s) + Len(t)
         /\ Len(s) \in Nat
  OBVIOUS

LEMMA AccountBalances ==
  ASSUME NEW t \in Tallies, NEW o \in AllOutcomes,
         NEW late \in Nat, NEW waited \in Nat, NEW fromDue \in Nat
  PROVE  /\ Account(t, o, late, waited, fromDue) \in Tallies
         /\ Balanced(t) => Balanced(Account(t, o, late, waited, fromDue))
<1> DEFINE h == IF o \in Timed THEN Append(t.latency, fromDue) ELSE t.latency
           a == Account(t, o, late, waited, fromDue)
<1>1. /\ t.attempted \in Nat /\ t.opened \in Nat
      /\ t.errors \in [ErrorKinds -> Nat]
      /\ t.latency \in Seq(Nat) /\ t.lag \in Seq(Nat) /\ t.wait \in Seq(Nat)
      /\ t.rig \in Seq(Int)
  BY TallyFields
<1>2. /\ Counted(t.errors, o) \in [ErrorKinds -> Nat]
      /\ Untimed(Counted(t.errors, o))
           = Untimed(t.errors) + (IF o \in Timed THEN 0 ELSE 1)
      /\ Untimed(t.errors) \in Nat
  BY <1>1, CountedOnce, UntimedNat
<1>3. /\ h \in Seq(Nat)
      /\ Len(h) = Len(t.latency) + (IF o \in Timed THEN 1 ELSE 0)
      /\ Len(t.latency) \in Nat
  <2>1. t.latency \in Seq(Nat) /\ Len(t.latency) \in Nat
    BY <1>1
  <2>2. CASE o \in Timed
    BY <2>1, <2>2
  <2>3. CASE o \notin Timed
    BY <2>1, <2>3
  <2> QED BY <2>2, <2>3
<1>4. /\ Append(t.lag, late) \in Seq(Nat) /\ Append(t.wait, waited) \in Seq(Nat)
  BY <1>1
<1>5. late - waited \in Int /\ t.attempted + 1 \in Nat
  BY <1>1
<1>6. Append(t.rig, late - waited) \in Seq(Int)
  BY <1>1, <1>5
<1>7. a = TallyOf(t.attempted + 1, Counted(t.errors, o), t.opened, h,
                  Append(t.lag, late), Append(t.wait, waited),
                  Append(t.rig, late - waited))
  BY DEF Account
<1>8. a \in Tallies
  <2> HIDE DEF h, a
  <2> QED BY <1>1, <1>2, <1>3, <1>4, <1>5, <1>6, <1>7, TallyOfType
<1>9. a.attempted = t.attempted + 1 /\ a.errors = Counted(t.errors, o) /\ a.latency = h
  BY <1>7 DEF TallyOf
<1>10. ASSUME Balanced(t) PROVE Balanced(a)
  <2>1. t.attempted = Len(t.latency) + Untimed(t.errors)
    BY <1>10 DEF Balanced
  <2>2. t.attempted + 1 = Len(h) + Untimed(Counted(t.errors, o))
    <3> HIDE DEF h
    <3>1. CASE o \in Timed
      BY <1>2, <1>3, <2>1, <3>1
    <3>2. CASE o \notin Timed
      BY <1>2, <1>3, <2>1, <3>2
    <3> QED BY <3>1, <3>2
  <2> HIDE DEF h, a
  <2> QED BY <1>9, <2>2 DEF Balanced
<1> QED BY <1>8, <1>10

LEMMA ConnectFailureBalances ==
  ASSUME NEW t \in Tallies
  PROVE  /\ AccountConnectFailure(t) \in Tallies
         /\ Balanced(t) => Balanced(AccountConnectFailure(t))
         /\ AccountConnectFailure(t).rig = t.rig
         /\ AccountConnectFailure(t).lag = t.lag
         /\ AccountConnectFailure(t).wait = t.wait
<1>1. /\ t.attempted \in Nat /\ t.attempted + 1 \in Nat /\ t.opened \in Nat
      /\ t.errors \in [ErrorKinds -> Nat]
      /\ t.latency \in Seq(Nat) /\ t.lag \in Seq(Nat) /\ t.wait \in Seq(Nat)
      /\ t.rig \in Seq(Int)
  BY TallyFields
<1> DEFINE e == Bump(t.errors, "connect")
           a == TallyOf(t.attempted + 1, e, t.opened, t.latency, t.lag, t.wait, t.rig)
<1>2. e \in [ErrorKinds -> Nat] /\ Untimed(e) = Untimed(t.errors) + 1
  BY <1>1, ConnectCounted
<1>3. a \in Tallies
  BY <1>1, <1>2, TallyOfType
<1>4. /\ a.attempted = t.attempted + 1 /\ a.errors = e /\ a.latency = t.latency
      /\ a.rig = t.rig /\ a.lag = t.lag /\ a.wait = t.wait
  BY DEF TallyOf
<1>5. Balanced(t) => Balanced(a)
  <2> HIDE DEF e, a
  <2>1. Untimed(t.errors) \in Nat /\ Len(t.latency) \in Nat
    BY <1>1, UntimedNat
  <2>2. t.attempted \in Nat
    BY <1>1
  <2> QED BY <1>2, <1>4, <2>1, <2>2 DEF Balanced
<1>6. AccountConnectFailure(t) = a
  BY DEF AccountConnectFailure
<1> HIDE DEF a
<1> QED BY <1>3, <1>4, <1>5, <1>6

LEMMA ConnectBalances ==
  ASSUME NEW t \in Tallies
  PROVE  /\ AccountConnect(t) \in Tallies
         /\ Balanced(t) => Balanced(AccountConnect(t))
         /\ AccountConnect(t).rig = t.rig
         /\ AccountConnect(t).lag = t.lag
         /\ AccountConnect(t).wait = t.wait
<1>1. /\ t.attempted \in Nat /\ t.opened + 1 \in Nat
      /\ t.errors \in [ErrorKinds -> Nat]
      /\ t.latency \in Seq(Nat) /\ t.lag \in Seq(Nat) /\ t.wait \in Seq(Nat)
      /\ t.rig \in Seq(Int)
  BY TallyFields
<1>2. AccountConnect(t) \in Tallies
  BY <1>1, TallyOfType DEF AccountConnect
<1> QED BY <1>2 DEF AccountConnect, TallyOf, Balanced

LEMMA MergeBalances ==
  ASSUME NEW r \in Tallies, NEW t \in Tallies
  PROVE  /\ Merge(r, t) \in Tallies
         /\ Balanced(r) /\ Balanced(t) => Balanced(Merge(r, t))
<1>1. /\ t.attempted \in Nat /\ t.opened \in Nat
      /\ t.errors \in [ErrorKinds -> Nat]
      /\ t.latency \in Seq(Nat) /\ t.lag \in Seq(Nat) /\ t.wait \in Seq(Nat)
      /\ t.rig \in Seq(Int)
  BY TallyFields
<1>2. /\ r.attempted \in Nat /\ r.opened \in Nat
      /\ r.errors \in [ErrorKinds -> Nat]
      /\ r.latency \in Seq(Nat) /\ r.lag \in Seq(Nat) /\ r.wait \in Seq(Nat)
      /\ r.rig \in Seq(Int)
  BY TallyFields
<1> DEFINE e == Added(r.errors, t.errors)
           h == r.latency \o t.latency
           m == Merge(r, t)
<1>3. e \in [ErrorKinds -> Nat] /\ Untimed(e) = Untimed(r.errors) + Untimed(t.errors)
  BY <1>1, <1>2, ErrorsAdd
<1>12. /\ Len(h) = Len(r.latency) + Len(t.latency)
      /\ Len(r.latency) \in Nat /\ Len(t.latency) \in Nat
  BY <1>1, <1>2, SeqFacts
<1>5. /\ h \in Seq(Nat)
      /\ r.lag \o t.lag \in Seq(Nat) /\ r.wait \o t.wait \in Seq(Nat)
      /\ r.rig \o t.rig \in Seq(Int)
  BY <1>1, <1>2, SeqFacts
<1>6. r.attempted + t.attempted \in Nat /\ r.opened + t.opened \in Nat
  BY <1>1, <1>2
<1>7. m = TallyOf(r.attempted + t.attempted, e, r.opened + t.opened, h,
                  r.lag \o t.lag, r.wait \o t.wait, r.rig \o t.rig)
  BY DEF Merge
<1>8. m \in Tallies
  <2> HIDE DEF e, h, m
  <2> QED BY <1>3, <1>5, <1>6, <1>7, TallyOfType
<1>9. m.attempted = r.attempted + t.attempted /\ m.errors = e /\ m.latency = h
  BY DEF Merge, TallyOf
<1>10. Untimed(r.errors) \in Nat /\ Untimed(t.errors) \in Nat
  BY <1>1, <1>2, UntimedNat
<1>11. ASSUME Balanced(r), Balanced(t) PROVE Balanced(m)
  <2> HIDE DEF e, h, m
  <2>1. /\ r.attempted = Len(r.latency) + Untimed(r.errors)
        /\ t.attempted = Len(t.latency) + Untimed(t.errors)
    BY <1>11 DEF Balanced
  <2>2. r.attempted + t.attempted = Len(h) + Untimed(e)
    <3> DEFINE x == Len(r.latency)
               y == Len(t.latency)
               u == Untimed(r.errors)
               v == Untimed(t.errors)
    <3>1. Len(h) = x + y /\ x \in Nat /\ y \in Nat
      BY <1>12
    <3>2. Untimed(e) = u + v /\ u \in Nat /\ v \in Nat
      BY <1>3, <1>10
    <3>3. r.attempted = x + u /\ t.attempted = y + v
      BY <2>1
    <3> HIDE DEF x, y, u, v
    <3> QED BY <3>1, <3>2, <3>3
  <2> QED BY <1>9, <2>2 DEF Balanced
<1> QED BY <1>8, <1>11

LEMMA EmptyBalances == EmptyTally \in Tallies /\ Balanced(EmptyTally)
<1>1. NoErrors \in [ErrorKinds -> Nat] /\ Untimed(NoErrors) = 0
  BY DEF NoErrors, Untimed, ErrorKinds
<1>2. <<>> \in Seq(Nat) /\ <<>> \in Seq(Int) /\ Len(<<>>) = 0
  OBVIOUS
<1>3. EmptyTally \in Tallies
  BY <1>1, <1>2, TallyOfType DEF EmptyTally
<1> QED BY <1>1, <1>2, <1>3 DEF EmptyTally, TallyOf, Balanced

-----------------------------------------------------------------------------
(* The clock readings a worker keeps are in the order it takes them.  What  *)
(* is recorded as a latency or a lag is a natural number because of it, so  *)
(* the types and the order are one invariant.                               *)
ClocksOrdered ==
  \A w \in Workers :
    /\ begun[w] <= now /\ freeAt[w] <= now /\ sending[w] <= now
    /\ pc[w] \in {"sending", "exchange"} =>
         Due(slot[w]) <= sending[w] /\ freeAt[w] <= sending[w]
    /\ pc[w] = "exchange" => sending[w] <= begun[w]

(* A worker whose thread has not been started has done nothing.             *)
Unborn == \A w \in Workers : w > started => pc[w] = "unborn"

IType == TypeOK /\ ClocksOrdered /\ Unborn

LEMMA TypeInit == Init => IType
<1> SUFFICES ASSUME Init PROVE IType
  OBVIOUS
<1>1. EmptyTally \in Tallies
  BY EmptyBalances
<1>2. TypeOK
  BY <1>1, ConnectionsAssumption DEF Init, TypeOK, States
<1>3. ClocksOrdered
  BY DEF Init, ClocksOrdered
<1>4. Unborn
  BY DEF Init, Unborn
<1> QED BY <1>2, <1>3, <1>4 DEF IType

LEMMA TypeWorker ==
  ASSUME NEW w \in Workers, IType, WorkerStep(w)
  PROVE  IType'
<1> USE DEF IType, TypeOK, ClocksOrdered, Unborn, Goto, At, States, driverVars,
            history
<1>1. CASE Expire(w)
  BY <1>1 DEF Expire
<1>2. CASE StartConnect(w)
  BY <1>2 DEF StartConnect
<1>3. CASE Reuse(w)
  BY <1>3 DEF Reuse
<1>4. CASE Connected(w)
  <2>1. AccountConnect(tally[w]) \in Tallies
    BY ConnectBalances
  <2> QED BY <1>4, <2>1 DEF Connected
<1>5. CASE ConnectFails(w)
  <2>1. AccountConnectFailure(tally[w]) \in Tallies
    BY ConnectFailureBalances
  <2>2. tally' \in [Workers -> Tallies]
    BY <1>5, <2>1 DEF ConnectFails
  <2>3. sock' \in [Workers -> {"none", "bounded", "bare"}]
    BY <1>5 DEF ConnectFails
  <2>4. /\ pc' \in [Workers -> States] /\ begun' \in [Workers -> Nat]
        /\ pc[w] = "connecting" /\ pc'[w] = "pause" /\ begun'[w] = now
        /\ \A v \in Workers \ {w} : pc'[v] = pc[v] /\ begun'[v] = begun[v]
        /\ UNCHANGED <<now, next, driverVars, freeAt, slot, sending, history, stolen>>
    BY <1>5 DEF ConnectFails
  <2> QED BY <2>2, <2>3, <2>4
<1>6. CASE Unpause(w)
  BY <1>6 DEF Unpause
<1>7. CASE ReadFreeAt(w)
  BY <1>7 DEF ReadFreeAt
<1>8. CASE Claim(w)
  <2>4. next' = next + 1 /\ past' \in {past, past \cup {next}}
    BY <1>8 DEF Claim
  <2>1. next' \in Nat /\ past' \subseteq Nat
    BY <2>4
  <2>2. CASE pc' = [pc EXCEPT ![w] = "done"]
    BY <1>8, <2>1, <2>2 DEF Claim
  <2>3. CASE pc' = [pc EXCEPT ![w] = "sleeping"]
    <3>1. /\ slot' = [slot EXCEPT ![w] = next] /\ UNCHANGED <<freeAt, past>>
          /\ pc[w] = "claim"
      BY <1>8, <2>3 DEF Claim
    <3>2. UNCHANGED <<now, driverVars, sock, begun, sending, tally, sent, stolen>>
      BY <1>8 DEF Claim
    <3> QED BY <2>1, <2>3, <3>1, <3>2
  <2> QED BY <1>8, <2>2, <2>3 DEF Claim
<1>9. CASE Wake(w)
  BY <1>9, DueNat DEF Wake
<1>10. CASE Begin(w)
  <2>1. sent' \subseteq Nat
    BY <1>10 DEF Begin
  <2> QED BY <1>10, <2>1 DEF Begin
<1>11. CASE Finish(w)
  <2>1. PICK outcome \in AllOutcomes : FinishAs(w, outcome)
    BY <1>11, OutcomesAssumption DEF Finish
  <2>2. /\ Late(w) \in Nat /\ Waited(w) \in Nat /\ FromDue(w, outcome) \in Nat
    BY <2>1, DueNat DEF FinishAs, Late, Waited, FromDue, Elapsed, Larger
  <2>3. Account(tally[w], outcome, Late(w), Waited(w), FromDue(w, outcome)) \in Tallies
    BY <2>2, AccountBalances
  <2>4. tally' \in [Workers -> Tallies]
    BY <2>1, <2>3 DEF FinishAs
  <2>5. sock' \in [Workers -> {"none", "bounded", "bare"}]
    BY <2>1 DEF FinishAs
  <2> QED BY <2>1, <2>4, <2>5 DEF FinishAs
<1> QED
  BY <1>1, <1>2, <1>3, <1>4, <1>5, <1>6, <1>7, <1>8, <1>9, <1>10, <1>11
  DEF WorkerStep

LEMMA TypeDriver ==
  ASSUME IType, DriverStep
  PROVE  IType'
<1> USE DEF IType, TypeOK, workerVars, history
<1>1. CASE Spawn
  <2>1. started + 1 \in Workers /\ started' \in 0 .. Connections /\ started \in Nat
    BY <1>1, ConnectionsAssumption DEF Spawn, Workers
  <2>2. /\ pc' = [pc EXCEPT ![started + 1] = "top"]
        /\ UNCHANGED <<now, next, main, joined, merged, run, sock, begun, freeAt,
                       slot, sending, tally, history, stolen>>
        /\ started' = started + 1
    BY <1>1 DEF Spawn, Goto
  <2>3. TypeOK'
    BY <2>1, <2>2 DEF States
  <2>4. ClocksOrdered'
    BY <2>1, <2>2 DEF ClocksOrdered, States
  <2>5. Unborn'
    BY <2>1, <2>2 DEF Unborn, Workers
  <2> QED BY <2>3, <2>4, <2>5
<1>2. CASE SpawnEnds
  BY <1>2 DEF SpawnEnds, ClocksOrdered, Unborn
<1>3. CASE WarmupEnds
  BY <1>3 DEF WarmupEnds, ClocksOrdered, Unborn
<1>4. CASE Join
  <2>1. joined' \in 0 .. started
    BY <1>4, ConnectionsAssumption DEF Join
  <2> QED BY <1>4, <2>1 DEF Join, ClocksOrdered, Unborn
<1>5. CASE MergeWorker
  <2>1. CASE merged < started /\ merged' = merged + 1
                /\ run' = Merge(run, tally[merged + 1]) /\ UNCHANGED main
    <3>1. merged + 1 \in Workers /\ merged' \in 0 .. started
      BY <2>1, ConnectionsAssumption DEF Workers
    <3>2. run' \in Tallies
      BY <2>1, <3>1, MergeBalances
    <3> QED BY <1>5, <2>1, <3>1, <3>2 DEF MergeWorker, ClocksOrdered, Unborn
  <2>2. CASE main' = "done" /\ UNCHANGED <<merged, run>>
    BY <1>5, <2>2 DEF MergeWorker, ClocksOrdered, Unborn
  <2> QED BY <1>5, <2>1, <2>2 DEF MergeWorker
<1> QED
  BY <1>1, <1>2, <1>3, <1>4, <1>5 DEF DriverStep

LEMMA TypeTick ==
  ASSUME IType, Tick
  PROVE  IType'
<1> USE DEF IType, TypeOK, Tick, driverVars, workerVars, history
<1>1. stolen' \in [Threads -> Nat]
  OBVIOUS
<1>2. TypeOK'
  BY <1>1
<1>3. ClocksOrdered'
  BY DEF ClocksOrdered
<1>4. Unborn'
  BY DEF Unborn
<1> QED BY <1>2, <1>3, <1>4

LEMMA TypeStep == IType /\ [Next]_vars => IType'
<1> SUFFICES ASSUME IType, [Next]_vars PROVE IType'
  OBVIOUS
<1>1. CASE UNCHANGED vars
  BY <1>1 DEF vars, driverVars, workerVars, history, IType, TypeOK, ClocksOrdered,
             Unborn
<1>2. CASE Next
  BY <1>1, <1>2, TypeWorker, TypeDriver, TypeTick DEF Next, Returned
<1> QED BY <1>1, <1>2

(* The types, and the order of the clock readings behind them.              *)
THEOREM TypeCorrect == Safety => []IType
<1>1. Init => IType
  BY TypeInit
<1>2. IType /\ [Next]_vars => IType'
  BY TypeStep
<1> QED BY <1>1, <1>2, PTL DEF Safety

(* Every state has the types the program's variables have, however many     *)
(* connections, whatever the plan and whatever the target does.             *)
THEOREM TypesHold == Safety => []TypeOK
<1>1. IType => TypeOK
  BY DEF IType
<1> QED BY <1>1, TypeCorrect, PTL

-----------------------------------------------------------------------------
(* The slots.  SlotsConserved is inductive once the types are known, and    *)
(* the three kinds of step that disturb it are the steps of SlotLedger.     *)

LEMMA HeldIs ==
  /\ \A i : i \in Held <=> \E v \in Workers : Holds(v) /\ slot[v] = i
  /\ \A i : i \in Held' <=> \E v \in Workers : Holds(v)' /\ slot'[v] = i
  BY DEF Held

(* A step after which the same workers hold the same slots.                 *)
LEMMA SlotsUndisturbed ==
  ASSUME SlotsConserved, UNCHANGED <<next, sent, past>>,
         \A v \in Workers : /\ Holds(v)' <=> Holds(v)
                            /\ Holds(v) => slot'[v] = slot[v]
  PROVE  SlotsConserved' /\ [Ledger!Next]_(Ledger!vars)
<1>1. Held' = Held
  BY DEF Held
<1>2. SlotsConserved'
  BY <1>1 DEF SlotsConserved
<1>3. UNCHANGED Ledger!vars
  BY <1>1 DEF Ledger!vars
<1> QED BY <1>2, <1>3

(* A worker takes the next slot: it was nobody's before.                    *)
LEMMA SlotTaken ==
  ASSUME IType, SlotsConserved, NEW w \in Workers, Claim(w),
         Goto(w, "sleeping")
  PROVE  SlotsConserved' /\ [Ledger!Next]_(Ledger!vars)
<1>1. /\ next' = next + 1 /\ UNCHANGED <<sent, past>>
      /\ slot' = [slot EXCEPT ![w] = next]
      /\ pc' = [pc EXCEPT ![w] = "sleeping"] /\ pc[w] = "claim"
  <2>1. pc'[w] = "sleeping"
    BY DEF Goto, IType, TypeOK
  <2> QED BY <2>1 DEF Claim, Goto, At, IType, TypeOK
<1>2. pc \in [Workers -> States] /\ slot \in [Workers -> Nat] /\ next \in Nat
  BY DEF IType, TypeOK
<1>3. ~Holds(w) /\ Holds(w)' /\ slot'[w] = next
  BY <1>1, <1>2 DEF Holds
<1>4. \A v \in Workers \ {w} : (Holds(v)' <=> Holds(v)) /\ slot'[v] = slot[v]
  BY <1>1, <1>2 DEF Holds
<1>5. Held' = Held \cup {next}
  BY <1>3, <1>4, HeldIs
<1>6. next \notin Held \cup sent \cup past
  BY <1>2 DEF SlotsConserved
<1>7. 0 .. next' - 1 = (0 .. next - 1) \cup {next}
  BY <1>1, <1>2
<1>8. \A v \in Workers : Holds(v) => slot[v] # next
  BY <1>6, HeldIs
<1>9. \A v, u \in Workers : Holds(v)' /\ Holds(u)' /\ v # u => slot'[v] # slot'[u]
  BY <1>3, <1>4, <1>8 DEF SlotsConserved
<1>10. SlotsConserved'
  BY <1>1, <1>5, <1>6, <1>7, <1>9 DEF SlotsConserved
<1>11. Ledger!HandOut
  BY <1>1, <1>5 DEF Ledger!HandOut
<1> QED BY <1>10, <1>11 DEF Ledger!Next

(* A worker takes a slot that is due past the deadline, and is done.        *)
LEMMA SlotPast ==
  ASSUME IType, SlotsConserved, NEW w \in Workers, Claim(w), Goto(w, "done")
  PROVE  SlotsConserved' /\ [Ledger!Next]_(Ledger!vars)
<1>1. /\ next' = next + 1 /\ UNCHANGED <<sent, slot>> /\ past' = past \cup {next}
      /\ pc' = [pc EXCEPT ![w] = "done"] /\ pc[w] = "claim"
  <2>1. pc'[w] = "done"
    BY DEF Goto, IType, TypeOK
  <2> QED BY <2>1 DEF Claim, Goto, At, IType, TypeOK
<1>2. pc \in [Workers -> States] /\ slot \in [Workers -> Nat] /\ next \in Nat
  BY DEF IType, TypeOK
<1>3. \A v \in Workers : Holds(v)' <=> Holds(v)
  BY <1>1, <1>2 DEF Holds
<1>4. Held' = Held
  BY <1>1, <1>3 DEF Held
<1>5. next \notin Held \cup sent \cup past
  BY <1>2 DEF SlotsConserved
<1>6. 0 .. next' - 1 = (0 .. next - 1) \cup {next}
  BY <1>1, <1>2
<1>7. SlotsConserved'
  BY <1>1, <1>3, <1>4, <1>5, <1>6 DEF SlotsConserved
<1>8. Ledger!HandOutLate
  BY <1>1, <1>4 DEF Ledger!HandOutLate
<1> QED BY <1>7, <1>8 DEF Ledger!Next

(* A worker starts the request of the slot it holds.                        *)
LEMMA SlotSent ==
  ASSUME IType, SlotsConserved, NEW w \in Workers, Begin(w)
  PROVE  SlotsConserved' /\ [Ledger!Next]_(Ledger!vars)
<1>1. /\ sent' = sent \cup {slot[w]} /\ UNCHANGED <<next, slot, past>>
      /\ pc' = [pc EXCEPT ![w] = "exchange"] /\ pc[w] = "sending"
  BY DEF Begin, Goto, history
<1>2. pc \in [Workers -> States] /\ slot \in [Workers -> Nat] /\ next \in Nat
  BY DEF IType, TypeOK
<1>3. Holds(w) /\ ~Holds(w)'
  BY <1>1, <1>2 DEF Holds
<1>4. \A v \in Workers \ {w} : Holds(v)' <=> Holds(v)
  BY <1>1, <1>2 DEF Holds
<1>5. \A v \in Workers \ {w} : Holds(v) => slot[v] # slot[w]
  BY <1>3 DEF SlotsConserved
<1>6. slot[w] \in Held
  BY <1>3, HeldIs
<1>7. Held' = Held \ {slot[w]}
  BY <1>1, <1>3, <1>4, <1>5, HeldIs
<1>8. SlotsConserved'
  BY <1>1, <1>3, <1>4, <1>6, <1>7 DEF SlotsConserved
<1>9. Ledger!Send
  BY <1>1, <1>6, <1>7 DEF Ledger!Send
<1> QED BY <1>8, <1>9 DEF Ledger!Next

LEMMA SlotsStep ==
  ASSUME IType, SlotsConserved, [Next]_vars
  PROVE  SlotsConserved' /\ [Ledger!Next]_(Ledger!vars)
<1> USE DEF IType, TypeOK, Goto, At, Holds, history
<1>1. CASE UNCHANGED vars
  <2>1. UNCHANGED <<next, sent, past, pc, slot>>
    BY <1>1 DEF vars, workerVars
  <2> QED BY <2>1, SlotsUndisturbed
<1>2. CASE DriverStep
  <2>1. UNCHANGED <<next, sent, past, slot>>
    BY <1>2 DEF DriverStep, Spawn, SpawnEnds, WarmupEnds, Join, MergeWorker, workerVars
  <2>2. CASE Spawn
    <3>1. started + 1 \in Workers /\ started + 1 > started
      BY <2>2, ConnectionsAssumption DEF Spawn, Workers
    <3>2. pc[started + 1] = "unborn"
      BY <3>1 DEF Unborn
    <3>3. pc' = [pc EXCEPT ![started + 1] = "top"]
      BY <2>2 DEF Spawn
    <3>4. \A v \in Workers : Holds(v)' <=> Holds(v)
      BY <3>1, <3>2, <3>3
    <3> QED BY <2>1, <3>4, SlotsUndisturbed
  <2>3. CASE UNCHANGED pc
    BY <2>1, <2>3, SlotsUndisturbed
  <2> QED
    BY <1>2, <2>2, <2>3
    DEF DriverStep, SpawnEnds, WarmupEnds, Join, MergeWorker, workerVars
<1>3. CASE Tick
  <2>1. UNCHANGED <<next, sent, past, pc, slot>>
    BY <1>3 DEF Tick, workerVars
  <2> QED BY <2>1, SlotsUndisturbed
<1>4. ASSUME NEW w \in Workers, WorkerStep(w)
      PROVE  SlotsConserved' /\ [Ledger!Next]_(Ledger!vars)
  <2>1. CASE Claim(w)
    BY <2>1, SlotTaken, SlotPast DEF Claim
  <2>2. CASE Begin(w)
    BY <2>2, SlotSent
  <2>3. CASE Finish(w)
    <3>1. /\ UNCHANGED <<next, sent, past>> /\ pc[w] = "exchange"
          /\ pc' = [pc EXCEPT ![w] = "top"] /\ slot' = [slot EXCEPT ![w] = 0]
      BY <2>3 DEF Finish, FinishAs
    <3> QED BY <3>1, SlotsUndisturbed
  <2>4. CASE \/ Expire(w) \/ StartConnect(w) \/ Reuse(w) \/ Connected(w)
             \/ ConnectFails(w) \/ Unpause(w) \/ ReadFreeAt(w)
    <3>1. /\ UNCHANGED <<next, sent, past, slot>>
          /\ pc[w] \notin {"sleeping", "sending"}
          /\ \E label \in States \ {"sleeping", "sending"} :
               pc' = [pc EXCEPT ![w] = label]
      BY <2>4
      DEF Expire, StartConnect, Reuse, Connected, ConnectFails, Unpause,
          ReadFreeAt, States
    <3>2. \A v \in Workers : Holds(v)' <=> Holds(v)
      BY <3>1
    <3> QED BY <3>1, <3>2, SlotsUndisturbed
  <2>5. CASE Wake(w)
    <3>1. /\ UNCHANGED <<next, sent, past, slot>> /\ pc[w] = "sleeping"
          /\ pc' = [pc EXCEPT ![w] = "sending"]
      BY <2>5 DEF Wake
    <3> QED BY <3>1, SlotsUndisturbed
  <2> QED BY <1>4, <2>1, <2>2, <2>3, <2>4, <2>5 DEF WorkerStep
<1> QED BY <1>1, <1>2, <1>3, <1>4 DEF Next, Returned

LEMMA SlotsInit == Init => SlotsConserved /\ Ledger!Init
<1> SUFFICES ASSUME Init PROVE SlotsConserved /\ Ledger!Init
  OBVIOUS
<1>1. \A w \in Workers : ~Holds(w)
  BY DEF Init, Holds
<1>2. Held = {}
  BY <1>1 DEF Held
<1>3. 0 .. next - 1 = {}
  BY DEF Init
<1> QED BY <1>1, <1>2, <1>3 DEF Init, SlotsConserved, Ledger!Init

(* No slot is lost and none is carried twice: every slot claimed is held by *)
(* exactly one worker, or sent, or past the deadline.                       *)
THEOREM SlotsAreConserved == Safety => []SlotsConserved
<1>1. Init => SlotsConserved
  BY SlotsInit
<1>2. IType /\ SlotsConserved /\ [Next]_vars => SlotsConserved'
  BY SlotsStep
<1> QED BY <1>1, <1>2, TypeCorrect, PTL DEF Safety

(* The runner implements the safety part of SlotLedger.                     *)
THEOREM KeepsTheLedger == Safety => LedgerSafety
<1>1. Init => Ledger!Init
  BY SlotsInit
<1>2. IType /\ SlotsConserved /\ [Next]_vars => [Ledger!Next]_(Ledger!vars)
  BY SlotsStep
<1> QED
  BY <1>1, <1>2, TypeCorrect, SlotsAreConserved, PTL
  DEF Safety, LedgerSafety, Ledger!Safety

-----------------------------------------------------------------------------
(* The accounting.  Only five actions touch a tally, each through one of    *)
(* the operators whose balance was proved above.                            *)

LEMMA BalanceStep ==
  ASSUME IType, AccountsBalance, [Next]_vars
  PROVE  AccountsBalance'
<1> USE DEF AccountsBalance, Goto, At
<1>0. tally \in [Workers -> Tallies] /\ run \in Tallies
  BY DEF IType, TypeOK
<1>1. CASE UNCHANGED <<tally, run>>
  BY <1>1
<1>2. CASE MergeWorker
  <2>1. CASE merged < started /\ run' = Merge(run, tally[merged + 1])
    <3>1. merged + 1 \in Workers
      BY <2>1, ConnectionsAssumption DEF IType, TypeOK, Workers
    <3>2. Balanced(Merge(run, tally[merged + 1]))
      BY <1>0, <3>1, MergeBalances
    <3> QED BY <1>2, <2>1, <3>2 DEF MergeWorker, workerVars
  <2>2. CASE UNCHANGED run
    BY <1>2, <2>2 DEF MergeWorker, workerVars
  <2> QED BY <1>2, <2>1, <2>2 DEF MergeWorker
<1>3. ASSUME NEW w \in Workers, Connected(w) PROVE AccountsBalance'
  <2>1. Balanced(AccountConnect(tally[w]))
    BY <1>0, ConnectBalances
  <2>2. tally' = [tally EXCEPT ![w] = AccountConnect(tally[w])] /\ UNCHANGED run
    BY <1>3 DEF Connected, driverVars
  <2> QED BY <1>0, <2>1, <2>2
<1>4. ASSUME NEW w \in Workers, ConnectFails(w) PROVE AccountsBalance'
  <2>1. Balanced(AccountConnectFailure(tally[w]))
    BY <1>0, ConnectFailureBalances
  <2>2. /\ tally' \in {tally, [tally EXCEPT ![w] = AccountConnectFailure(tally[w])]}
        /\ UNCHANGED run
    BY <1>4 DEF ConnectFails, driverVars
  <2> QED BY <1>0, <2>1, <2>2
<1>5. ASSUME NEW w \in Workers, Finish(w) PROVE AccountsBalance'
  <2>1. PICK outcome \in AllOutcomes : FinishAs(w, outcome)
    BY <1>5, OutcomesAssumption DEF Finish
  <2> DEFINE a == Account(tally[w], outcome, Late(w), Waited(w), FromDue(w, outcome))
  <2>2. /\ Late(w) \in Nat /\ Waited(w) \in Nat /\ FromDue(w, outcome) \in Nat
    BY <2>1, DueNat
    DEF FinishAs, Late, Waited, FromDue, Elapsed, Larger, IType, TypeOK, ClocksOrdered
  <2>3. Balanced(a)
    BY <1>0, <2>2, AccountBalances
  <2>4. tally' \in {tally, [tally EXCEPT ![w] = a]} /\ UNCHANGED run
    BY <2>1 DEF FinishAs, driverVars
  <2> HIDE DEF a
  <2> QED BY <1>0, <2>3, <2>4
<1>6. CASE Spawn \/ SpawnEnds \/ WarmupEnds \/ Join \/ Tick \/ UNCHANGED vars
  <2>1. UNCHANGED <<tally, run>>
    BY <1>6
    DEF Spawn, SpawnEnds, WarmupEnds, Join, Tick, vars, driverVars, workerVars
  <2> QED BY <1>1, <2>1
<1>7. ASSUME NEW w \in Workers,
             \/ Expire(w) \/ StartConnect(w) \/ Reuse(w) \/ Unpause(w)
             \/ ReadFreeAt(w) \/ Claim(w) \/ Wake(w) \/ Begin(w)
      PROVE  AccountsBalance'
  <2>1. UNCHANGED <<tally, run>>
    BY <1>7
    DEF Expire, StartConnect, Reuse, Unpause, ReadFreeAt, Claim, Wake, Begin,
        driverVars
  <2> QED BY <1>1, <2>1
<1> QED
  BY <1>2, <1>3, <1>4, <1>5, <1>6, <1>7
  DEF Next, DriverStep, WorkerStep, Returned

LEMMA BalanceInit == Init => AccountsBalance
<1> SUFFICES ASSUME Init PROVE AccountsBalance
  OBVIOUS
<1>1. run = EmptyTally /\ \A w \in Workers : tally[w] = EmptyTally
  BY DEF Init
<1> QED BY <1>1, EmptyBalances DEF AccountsBalance

(* The accounting adds up in every worker at every moment, and in the run   *)
(* at every turn of the merge: no attempt vanishes and none counts twice.   *)
THEOREM AccountsAlwaysBalance == Safety => []AccountsBalance
<1>1. IType /\ AccountsBalance /\ [Next]_vars => AccountsBalance'
  BY BalanceStep
<1> QED BY BalanceInit, <1>1, TypeCorrect, PTL DEF Safety

-----------------------------------------------------------------------------
(* The split of the lateness.                                               *)

SplitSamples(lag, wait, rig, limit) ==
  /\ Len(lag) = Len(rig) /\ Len(wait) = Len(rig)
  /\ \A i \in 1 .. Len(rig) :
       lag[i] = wait[i] + rig[i] /\ rig[i] \in 0 .. limit

Split(t, limit) == SplitSamples(t.lag, t.wait, t.rig, limit)

LEMMA SplitAppend ==
  \A l, w \in Seq(Nat), r \in Seq(Int), late, waited, limit \in Nat :
    SplitSamples(l, w, r, limit) /\ late - waited \in 0 .. limit =>
      SplitSamples(Append(l, late), Append(w, waited),
                   Append(r, late - waited), limit)
<1> SUFFICES ASSUME NEW l \in Seq(Nat), NEW w \in Seq(Nat), NEW r \in Seq(Int),
                    NEW late \in Nat, NEW waited \in Nat, NEW limit \in Nat,
                    SplitSamples(l, w, r, limit), late - waited \in 0 .. limit
             PROVE  SplitSamples(Append(l, late), Append(w, waited),
                                 Append(r, late - waited), limit)
  OBVIOUS
<1> DEFINE x == late - waited
<1>1. x \in Int /\ x \in 0 .. limit /\ late = waited + x
  OBVIOUS
<1> HIDE DEF x
<1>2. /\ Len(Append(l, late)) = Len(l) + 1 /\ Len(Append(w, waited)) = Len(w) + 1
      /\ Len(Append(r, x)) = Len(r) + 1 /\ Len(r) \in Nat
  BY <1>1
<1>3. Len(l) = Len(r) /\ Len(w) = Len(r)
  BY DEF SplitSamples
<1>4. ASSUME NEW i \in 1 .. Len(r) + 1
      PROVE  /\ Append(l, late)[i] = Append(w, waited)[i] + Append(r, x)[i]
             /\ Append(r, x)[i] \in 0 .. limit
  <2>1. CASE i \in 1 .. Len(r)
    <3>1. /\ Append(l, late)[i] = l[i] /\ Append(w, waited)[i] = w[i]
          /\ Append(r, x)[i] = r[i]
      BY <1>1, <1>3, <2>1
    <3> QED BY <2>1, <3>1 DEF SplitSamples
  <2>2. CASE i = Len(r) + 1
    <3>1. /\ Append(l, late)[i] = late /\ Append(w, waited)[i] = waited
          /\ Append(r, x)[i] = x
      BY <1>1, <1>3, <2>2
    <3> QED BY <1>1, <3>1
  <2>3. i \in 1 .. Len(r) \/ i = Len(r) + 1
    BY <1>2
  <2> QED BY <2>1, <2>2, <2>3
<1>5. SplitSamples(Append(l, late), Append(w, waited), Append(r, x), limit)
  BY <1>2, <1>3, <1>4 DEF SplitSamples
<1> QED BY <1>5 DEF x

(* Where a worker is with its slot, the ticks since it came free -- or      *)
(* since the slot came due, if that is later -- are ticks it could have run *)
(* in and did not.                                                          *)
DelayIsStolen ==
  \A w \in Workers :
    /\ pc[w] = "claim" => now - freeAt[w] <= stolen[w]
    /\ pc[w] = "sleeping" => now - Larger(freeAt[w], Due(slot[w])) <= stolen[w]
    /\ pc[w] \in {"sending", "exchange"} =>
         sending[w] - Larger(freeAt[w], Due(slot[w])) <= stolen[w]

SamplesSplit == \A w \in Workers : Split(tally[w], stolen[w])

ILag == DelayIsStolen /\ SamplesSplit

LEMMA LagInit == Init => ILag
<1> SUFFICES ASSUME Init PROVE ILag
  OBVIOUS
<1>1. DelayIsStolen
  BY DEF Init, DelayIsStolen
<1>2. \A w \in Workers : tally[w] = EmptyTally /\ stolen[w] = 0
  BY DEF Init, Threads
<1>3. Split(EmptyTally, 0)
  BY DEF Split, SplitSamples, EmptyTally, TallyOf
<1> QED BY <1>1, <1>2, <1>3 DEF ILag, SamplesSplit

(* At the end of an exchange the rig's part of the lateness is what is left *)
(* of it after the worker came free and the slot came due.                  *)
LEMMA RigPart ==
  ASSUME IType, ILag, NEW w \in Workers, pc[w] = "exchange"
  PROVE  /\ Late(w) \in Nat /\ Waited(w) \in Nat
         /\ Late(w) - Waited(w) \in 0 .. stolen[w]
<1>1. /\ slot[w] \in Nat /\ sending[w] \in Nat /\ freeAt[w] \in Nat
      /\ stolen[w] \in Nat /\ Due(slot[w]) \in Nat
  BY DueNat DEF IType, TypeOK, Threads
<1>2. Due(slot[w]) <= sending[w] /\ freeAt[w] <= sending[w]
  BY DEF IType, ClocksOrdered
<1>3. sending[w] - Larger(freeAt[w], Due(slot[w])) <= stolen[w]
  BY DEF ILag, DelayIsStolen
<1> QED BY <1>1, <1>2, <1>3 DEF Late, Waited, Larger

LEMMA SamplesStep ==
  ASSUME IType, ILag, [Next]_vars
  PROVE  SamplesSplit'
<1> USE DEF ILag, SamplesSplit, Goto, At
<1>0. /\ tally \in [Workers -> Tallies] /\ stolen \in [Threads -> Nat]
      /\ Workers \subseteq Threads
  BY DEF IType, TypeOK, Threads
<1>1. CASE UNCHANGED <<tally, stolen>>
  BY <1>1
<1>2. ASSUME NEW w \in Workers, Connected(w) \/ ConnectFails(w)
      PROVE  SamplesSplit'
  <2>1. UNCHANGED stolen
    BY <1>2 DEF Connected, ConnectFails
  <2>2. PICK t \in {tally[w], AccountConnect(tally[w]), AccountConnectFailure(tally[w])} :
          tally' \in {tally, [tally EXCEPT ![w] = t]}
    BY <1>0, <1>2 DEF Connected, ConnectFails
  <2>3. t.lag = tally[w].lag /\ t.wait = tally[w].wait /\ t.rig = tally[w].rig
    BY <1>0, ConnectBalances, ConnectFailureBalances
  <2>4. Split(t, stolen[w])
    BY <2>3 DEF Split
  <2> QED BY <1>0, <2>1, <2>2, <2>4
<1>3. ASSUME NEW w \in Workers, Finish(w) PROVE SamplesSplit'
  <2>1. PICK outcome \in AllOutcomes : FinishAs(w, outcome)
    BY <1>3, OutcomesAssumption DEF Finish
  <2> DEFINE t == tally[w]
             a == Account(t, outcome, Late(w), Waited(w), FromDue(w, outcome))
  <2>2. /\ Late(w) \in Nat /\ Waited(w) \in Nat
        /\ Late(w) - Waited(w) \in 0 .. stolen[w]
    BY <2>1, RigPart DEF FinishAs
  <2>3. /\ a.lag = Append(t.lag, Late(w)) /\ a.wait = Append(t.wait, Waited(w))
        /\ a.rig = Append(t.rig, Late(w) - Waited(w))
    BY DEF Account, TallyOf
  <2>4. t.lag \in Seq(Nat) /\ t.wait \in Seq(Nat) /\ t.rig \in Seq(Int)
    BY <1>0, TallyFields
  <2>5. Split(t, stolen[w]) /\ stolen[w] \in Nat
    BY <1>0
  <2>6. Split(a, stolen[w])
    <3> HIDE DEF a, t
    <3> QED BY <2>2, <2>3, <2>4, <2>5, SplitAppend DEF Split
  <2>7. tally' \in {tally, [tally EXCEPT ![w] = a]} /\ UNCHANGED stolen
    BY <2>1 DEF FinishAs
  <2> HIDE DEF a
  <2> QED BY <1>0, <2>6, <2>7
<1>4. CASE Tick
  <2>1. UNCHANGED tally /\ \A w \in Workers : stolen[w] <= stolen'[w]
    BY <1>0, <1>4 DEF Tick, workerVars
  <2>2. \A w \in Workers : stolen[w] \in Nat /\ stolen'[w] \in Nat
    BY <1>0, <1>4 DEF Tick
  <2>3. \A w \in Workers : Split(tally[w], stolen'[w])
    BY <2>1, <2>2 DEF Split, SplitSamples
  <2> QED BY <2>1, <2>3
<1>5. CASE DriverStep \/ UNCHANGED vars
  <2>1. UNCHANGED <<tally, stolen>>
    BY <1>5
    DEF DriverStep, Spawn, SpawnEnds, WarmupEnds, Join, MergeWorker, vars, workerVars
  <2> QED BY <1>1, <2>1
<1>6. ASSUME NEW w \in Workers,
             \/ Expire(w) \/ StartConnect(w) \/ Reuse(w) \/ Unpause(w)
             \/ ReadFreeAt(w) \/ Claim(w) \/ Wake(w) \/ Begin(w)
      PROVE  SamplesSplit'
  <2>1. UNCHANGED <<tally, stolen>>
    BY <1>6
    DEF Expire, StartConnect, Reuse, Unpause, ReadFreeAt, Claim, Wake, Begin
  <2> QED BY <1>1, <2>1
<1> QED
  BY <1>2, <1>3, <1>4, <1>5, <1>6 DEF Next, WorkerStep, Returned

LEMMA DelayStep ==
  ASSUME IType, ILag, [Next]_vars
  PROVE  DelayIsStolen'
<1> USE DEF ILag, DelayIsStolen, Goto, At
<1>0. /\ now \in Nat /\ next \in Nat /\ pc \in [Workers -> States]
      /\ freeAt \in [Workers -> Nat] /\ slot \in [Workers -> Nat]
      /\ sending \in [Workers -> Nat] /\ stolen \in [Threads -> Nat]
      /\ Workers \subseteq Threads
      /\ \A w \in Workers : freeAt[w] <= now
  BY DEF IType, TypeOK, Threads, ClocksOrdered
<1>9. \A w \in Workers : w # Driver
  BY ConnectionsAssumption DEF Workers, Driver
<1>1. CASE Tick
  <2>1. UNCHANGED <<pc, freeAt, slot, sending>> /\ now' = now + 1
    BY <1>1 DEF Tick, workerVars
  <2>2. ASSUME NEW w \in Workers
        PROVE  /\ stolen'[w] \in Nat /\ stolen[w] <= stolen'[w]
               /\ Runnable(w) => stolen'[w] = stolen[w] + 1
    BY <1>0, <1>1 DEF Tick
  <2>3. ASSUME NEW w \in Workers, pc[w] = "claim"
        PROVE  now + 1 - freeAt[w] <= stolen'[w]
    BY <1>0, <1>9, <2>2, <2>3 DEF Runnable
  <2>4. ASSUME NEW w \in Workers, pc[w] = "sleeping"
        PROVE  now + 1 - Larger(freeAt[w], Due(slot[w])) <= stolen'[w]
    <3>1. Due(slot[w]) \in Nat
      BY <1>0, DueNat
    <3>2. CASE now >= Due(slot[w])
      BY <1>0, <1>9, <2>2, <2>4, <3>1, <3>2 DEF Runnable, Larger
    <3>3. CASE now < Due(slot[w])
      BY <1>0, <2>2, <3>1, <3>3 DEF Larger
    <3> QED BY <1>0, <3>1, <3>2, <3>3
  <2>5. ASSUME NEW w \in Workers, pc[w] \in {"sending", "exchange"}
        PROVE  sending[w] - Larger(freeAt[w], Due(slot[w])) <= stolen'[w]
    <3>1. Due(slot[w]) \in Nat
      BY <1>0, DueNat
    <3> QED BY <1>0, <2>2, <2>5, <3>1 DEF Larger
  <2> SUFFICES ASSUME NEW w \in Workers
               PROVE  /\ pc'[w] = "claim" => now' - freeAt'[w] <= stolen'[w]
                      /\ pc'[w] = "sleeping" =>
                           now' - Larger(freeAt'[w], Due(slot'[w])) <= stolen'[w]
                      /\ pc'[w] \in {"sending", "exchange"} =>
                           sending'[w] - Larger(freeAt'[w], Due(slot'[w])) <= stolen'[w]
    OBVIOUS
  <2>6. /\ pc'[w] = pc[w] /\ freeAt'[w] = freeAt[w] /\ slot'[w] = slot[w]
        /\ sending'[w] = sending[w] /\ now' = now + 1
    BY <2>1
  <2>7. CASE pc[w] = "claim"
    BY <1>0, <2>2, <2>3, <2>6, <2>7
  <2>8. CASE pc[w] = "sleeping"
    <3> DEFINE x == Larger(freeAt[w], Due(slot[w]))
    <3>1. Larger(freeAt'[w], Due(slot'[w])) = x
      BY <2>6
    <3>2. x \in Int
      <4>1. freeAt[w] \in Nat /\ Due(slot[w]) \in Nat
        BY <1>0, DueNat
      <4> QED BY <4>1 DEF Larger
    <3>3. now + 1 - x <= stolen'[w]
      BY <2>4, <2>8
    <3> HIDE DEF x
    <3> QED BY <1>0, <2>6, <2>8, <3>1, <3>2, <3>3
  <2>9. CASE pc[w] \in {"sending", "exchange"}
    BY <2>5, <2>6, <2>9
  <2> QED BY <2>6, <2>7, <2>8, <2>9
<1>2. ASSUME NEW w \in Workers, ReadFreeAt(w) PROVE DelayIsStolen'
  <2>1. /\ pc' = [pc EXCEPT ![w] = "claim"] /\ freeAt' = [freeAt EXCEPT ![w] = now]
        /\ UNCHANGED <<now, slot, sending, stolen>>
    BY <1>2 DEF ReadFreeAt
  <2>2. freeAt'[w] = now' /\ pc'[w] = "claim" /\ stolen'[w] \in Nat
    BY <1>0, <2>1
  <2>3. \A v \in Workers \ {w} : pc'[v] = pc[v] /\ freeAt'[v] = freeAt[v]
    BY <1>0, <2>1
  <2> QED BY <1>0, <2>1, <2>2, <2>3
<1>3. ASSUME NEW w \in Workers, Claim(w) PROVE DelayIsStolen'
  <2>2. CASE pc' = [pc EXCEPT ![w] = "sleeping"]
    <3>1. /\ slot' = [slot EXCEPT ![w] = next] /\ pc[w] = "claim"
          /\ UNCHANGED <<now, freeAt, sending, stolen>>
      BY <1>0, <1>3, <2>2 DEF Claim
    <3>2. Due(next) \in Nat
      BY <1>0, DueNat
    <3>3. now - Larger(freeAt[w], Due(next)) <= stolen[w]
      BY <1>0, <3>1, <3>2 DEF Larger
    <3> QED BY <1>0, <2>2, <3>1, <3>3
  <2>3. CASE pc' = [pc EXCEPT ![w] = "done"]
    BY <1>0, <1>3, <2>3 DEF Claim
  <2> QED BY <1>3, <2>2, <2>3 DEF Claim
<1>4. ASSUME NEW w \in Workers, Wake(w) PROVE DelayIsStolen'
  BY <1>0, <1>4 DEF Wake
<1>5. ASSUME NEW w \in Workers, Begin(w) PROVE DelayIsStolen'
  BY <1>0, <1>5 DEF Begin
<1>6. ASSUME NEW w \in Workers, Finish(w) PROVE DelayIsStolen'
  <2>1. PICK outcome \in AllOutcomes : FinishAs(w, outcome)
    BY <1>6, OutcomesAssumption DEF Finish
  <2> QED BY <1>0, <2>1 DEF FinishAs
<1>7. ASSUME NEW w \in Workers,
             \/ Expire(w) \/ StartConnect(w) \/ Reuse(w) \/ Unpause(w)
             \/ Connected(w) \/ ConnectFails(w)
      PROVE  DelayIsStolen'
  <2>1. /\ UNCHANGED <<now, freeAt, slot, sending, stolen>>
        /\ \E label \in {"done", "connecting", "free", "top", "pause"} :
             pc' = [pc EXCEPT ![w] = label]
    BY <1>7
    DEF Expire, StartConnect, Reuse, Unpause, Connected, ConnectFails
  <2> QED BY <1>0, <2>1
<1>8. CASE DriverStep \/ UNCHANGED vars
  <2>1. UNCHANGED <<now, freeAt, slot, sending, stolen>>
    BY <1>8
    DEF DriverStep, Spawn, SpawnEnds, WarmupEnds, Join, MergeWorker, vars, workerVars
  <2>2. CASE UNCHANGED pc
    BY <2>1, <2>2
  <2>3. CASE pc' = [pc EXCEPT ![started + 1] = "top"]
    BY <1>0, <2>1, <2>3
  <2> QED
    BY <1>8, <2>2, <2>3
    DEF DriverStep, Spawn, SpawnEnds, WarmupEnds, Join, MergeWorker, vars, workerVars
<1> QED
  BY <1>1, <1>2, <1>3, <1>4, <1>5, <1>6, <1>7, <1>8
  DEF Next, WorkerStep, Returned

(* The lateness of every sample splits exactly, and the part charged to the *)
(* rig is at most the time the rig kept the worker from running: no target, *)
(* however slow, can make the rig blame itself.                             *)
THEOREM RigLagIsAlwaysTheRigs == Safety => []RigLagIsTheRigs
<1>1. IType /\ ILag /\ [Next]_vars => ILag'
  BY SamplesStep, DelayStep DEF ILag
<1>2. IType /\ ILag => RigLagIsTheRigs
  <2> SUFFICES ASSUME IType, ILag, NEW w \in Workers,
                      NEW i \in DOMAIN tally[w].rig
               PROVE  /\ tally[w].lag[i] = tally[w].wait[i] + tally[w].rig[i]
                      /\ tally[w].rig[i] \in 0 .. stolen[w]
    BY DEF RigLagIsTheRigs
  <2>1. tally[w].rig \in Seq(Int)
    BY TallyFields DEF IType, TypeOK
  <2>2. i \in 1 .. Len(tally[w].rig)
    BY <2>1
  <2> QED BY <2>2 DEF ILag, SamplesSplit, Split, SplitSamples
<1> QED BY LagInit, <1>1, <1>2, TypeCorrect, PTL DEF Safety

-----------------------------------------------------------------------------
(* The window.                                                              *)

(* A slot that a worker carries is due before the end of the window.        *)
HeldInWindow ==
  \A w \in Workers :
    pc[w] \in {"sleeping", "sending", "exchange"} => Due(slot[w]) < Deadline

(* Nothing is due before the schedule starts, with the measurement.         *)
LEMMA DueAfterWarmup == \A i \in Nat : Warmup <= Due(i) /\ Due(i) \in Nat
<1> SUFFICES ASSUME NEW i \in Nat PROVE Warmup <= Due(i) /\ Due(i) \in Nat
  OBVIOUS
<1>1. DueAt(i) \in Nat
  BY PlanAssumption DEF DueAt
<1> QED  BY <1>1, PlanAssumption DEF Due

(* The slot and the place of every worker but the one that steps stay, and  *)
(* of that one the slot stays too until the turn ends.                      *)
LEMMA CarriedSlots ==
  ASSUME IType, [Next]_vars
  PROVE  \A w \in Workers :
           pc'[w] \in {"sleeping", "sending", "exchange"} =>
             \/ slot'[w] = slot[w] /\ pc[w] \in {"sleeping", "sending", "exchange"}
             \/ slot'[w] = next /\ Due(next) < Deadline
<1>0. pc \in [Workers -> States] /\ slot \in [Workers -> Nat]
  BY DEF IType, TypeOK
<1> SUFFICES ASSUME NEW w \in Workers, pc'[w] \in {"sleeping", "sending", "exchange"}
             PROVE  \/ slot'[w] = slot[w] /\ pc[w] \in {"sleeping", "sending", "exchange"}
                    \/ slot'[w] = next /\ Due(next) < Deadline
  OBVIOUS
<1>1. ASSUME NEW u \in Workers, WorkerStep(u)
      PROVE  \/ slot'[w] = slot[w] /\ pc[w] \in {"sleeping", "sending", "exchange"}
             \/ slot'[w] = next /\ Due(next) < Deadline
  BY <1>0, <1>1
  DEF WorkerStep, Expire, StartConnect, Reuse, Connected, ConnectFails, Unpause,
      ReadFreeAt, Claim, Wake, Begin, Finish, FinishAs, Goto, At
<1>2. CASE DriverStep \/ Tick \/ UNCHANGED vars
  BY <1>0, <1>2
  DEF DriverStep, Spawn, SpawnEnds, WarmupEnds, Join, MergeWorker, Tick, Goto,
      vars, workerVars
<1> QED  BY <1>1, <1>2 DEF Next, Returned

LEMMA WindowStep == IType /\ HeldInWindow /\ [Next]_vars => HeldInWindow'
  BY CarriedSlots DEF HeldInWindow

(* due_at is within half a tick of the exact time of a slot.                *)
LEMMA DueIsRounded ==
  ASSUME NEW i \in Nat
  PROVE  /\ DueAt(i) \in Nat
         /\ 2 * RateSlots * DueAt(i) <= 2 * i * RateTicks + RateSlots
         /\ 2 * i * RateTicks - RateSlots <= 2 * RateSlots * DueAt(i)
<1> DEFINE exact == 2 * i * RateTicks
           unit == 2 * RateSlots
<1>1. exact \in Nat /\ unit \in Nat /\ unit > 0 /\ unit = RateSlots + RateSlots
      /\ RateSlots \in Nat
  BY PlanAssumption
<1>2. DueAt(i) = (exact + RateSlots) \div unit
  BY DEF DueAt
<1> HIDE DEF exact, unit
<1> DEFINE q == (exact + RateSlots) \div unit
           r == (exact + RateSlots) % unit
<1>3. q \in Nat /\ r \in Nat /\ r < unit /\ exact + RateSlots = unit * q + r
  <2>1. exact + RateSlots \in Nat
    BY <1>1
  <2> QED  BY <1>1, <2>1, DivMod
<1> HIDE DEF q, r
<1>4. unit * q \in Nat
  BY <1>1, <1>3
<1>5. q \in Nat /\ unit * q <= exact + RateSlots /\ exact - RateSlots <= unit * q
  BY <1>1, <1>3, <1>4
<1> QED  BY <1>2, <1>5 DEF q, exact, unit

(* A time on one side of the due time is on that side of the exact one,     *)
(* give or take half a tick.                                                *)
LEMMA AgainstTheRate ==
  ASSUME NEW i \in Nat, NEW t \in Int
  PROVE  /\ Due(i) <= t => NotEarly(i, t)
         /\ t <= Due(i) => NotLate(i, t)
<1> DEFINE d == DueAt(i)
           x == t - Warmup
           unit == 2 * RateSlots
           exact == 2 * i * RateTicks
<1>1. /\ d \in Nat /\ x \in Int /\ unit \in Nat /\ exact \in Nat
      /\ RateSlots \in Nat
  BY DueIsRounded, PlanAssumption
<1>2. unit * d <= exact + RateSlots /\ exact - RateSlots <= unit * d
  BY DueIsRounded
<1>3. (Due(i) <= t <=> d <= x) /\ (t <= Due(i) <=> x <= d)
  <2>1. Due(i) = Warmup + d /\ Warmup \in Nat
    BY PlanAssumption DEF Due
  <2> HIDE DEF d
  <2> QED  BY <1>1, <2>1
<1>4. /\ NotEarly(i, t) <=> unit * x >= exact - RateSlots
      /\ NotLate(i, t) <=> unit * x <= exact + RateSlots
  BY DEF NotEarly, NotLate
<1> HIDE DEF d, x, unit, exact
<1>5. d <= x => unit * d <= unit * x
  <2> SUFFICES ASSUME d <= x PROVE unit * d <= unit * x
    OBVIOUS
  <2>1. unit * (x - d) >= 0 /\ unit * (x - d) = unit * x - unit * d
    BY <1>1
  <2>2. unit * x \in Int /\ unit * d \in Int
    BY <1>1
  <2> QED  BY <2>1, <2>2
<1>6. x <= d => unit * x <= unit * d
  <2> SUFFICES ASSUME x <= d PROVE unit * x <= unit * d
    OBVIOUS
  <2>1. unit * (d - x) >= 0 /\ unit * (d - x) = unit * d - unit * x
    BY <1>1
  <2>2. unit * x \in Int /\ unit * d \in Int
    BY <1>1
  <2> QED  BY <2>1, <2>2
<1>7. unit * x \in Int /\ unit * d \in Int
  BY <1>1
<1> QED  BY <1>1, <1>2, <1>3, <1>4, <1>5, <1>6, <1>7

(* A worker about to send has waited, since it came free and the slot came  *)
(* due, for nothing but the rig: DelayIsStolen up to the sending itself.    *)
PaceIsStolen ==
  \A w \in Workers :
    pc[w] = "sending" => now - Larger(freeAt[w], Due(slot[w])) <= stolen[w]

LEMMA PaceStep ==
  ASSUME IType, ILag, PaceIsStolen, [Next]_vars
  PROVE  PaceIsStolen'
<1>0. /\ now \in Nat /\ pc \in [Workers -> States]
      /\ freeAt \in [Workers -> Nat] /\ slot \in [Workers -> Nat]
      /\ stolen \in [Threads -> Nat] /\ Workers \subseteq Threads
      /\ \A w \in Workers : w # Driver
  BY ConnectionsAssumption DEF IType, TypeOK, Threads, Workers, Driver
<1> SUFFICES ASSUME NEW w \in Workers, pc'[w] = "sending"
             PROVE  now' - Larger(freeAt'[w], Due(slot'[w])) <= stolen'[w]
  BY DEF PaceIsStolen
<1>1. CASE Tick
  <2>0. UNCHANGED <<pc, freeAt, slot>> /\ now' = now + 1
    BY <1>1 DEF Tick, workerVars
  <2>1. stolen[w] \in Nat /\ stolen'[w] = stolen[w] + 1
    BY <1>0, <1>1, <2>0 DEF Tick, Runnable
  <2> DEFINE from == Larger(freeAt[w], Due(slot[w]))
  <2>2. from \in Nat
    BY <1>0, DueNat DEF Larger
  <2>3. now - from <= stolen[w]
    BY <2>0 DEF PaceIsStolen
  <2>4. Larger(freeAt'[w], Due(slot'[w])) = from
    BY <2>0
  <2> HIDE DEF from
  <2> QED  BY <1>0, <2>0, <2>1, <2>2, <2>3, <2>4
<1>2. ASSUME NEW u \in Workers, WorkerStep(u)
      PROVE  now' - Larger(freeAt'[w], Due(slot'[w])) <= stolen'[w]
  <2>1. CASE Wake(u) /\ u = w
    <3>1. pc[w] = "sleeping" /\ UNCHANGED <<now, freeAt, slot, stolen>>
      BY <2>1 DEF Wake
    <3> QED  BY <3>1 DEF ILag, DelayIsStolen
  <2>2. CASE ~ (Wake(u) /\ u = w)
    <3>1. /\ pc[w] = "sending" /\ now' = now /\ stolen' = stolen
          /\ freeAt'[w] = freeAt[w] /\ slot'[w] = slot[w]
      BY <1>0, <1>2, <2>2
      DEF WorkerStep, Expire, StartConnect, Reuse, Connected, ConnectFails, Unpause,
          ReadFreeAt, Claim, Wake, Begin, Finish, FinishAs, Goto, At
    <3> QED  BY <3>1 DEF PaceIsStolen
  <2> QED  BY <2>1, <2>2
<1>3. CASE DriverStep \/ UNCHANGED vars
  <2>1. /\ pc[w] = "sending" /\ now' = now /\ stolen' = stolen
        /\ freeAt'[w] = freeAt[w] /\ slot'[w] = slot[w]
    BY <1>0, <1>3
    DEF DriverStep, Spawn, SpawnEnds, WarmupEnds, Join, MergeWorker, Goto,
        vars, workerVars
  <2> QED  BY <2>1 DEF PaceIsStolen
<1> QED  BY <1>1, <1>2, <1>3 DEF Next, Returned

(* At any rate and in a run of any length, a request goes out at the exact  *)
(* time of its slot, give or take half a tick, and later only by what its   *)
(* worker was busy or was kept from running: rounding never adds up.        *)
THEOREM SentOnTheSchedule == Safety => SentOnSchedule
<1>1. Init => PaceIsStolen
  BY DEF Init, PaceIsStolen
<1>2. IType /\ ILag /\ PaceIsStolen /\ [Next]_vars => PaceIsStolen'
  BY PaceStep
<1>5. IType /\ ILag /\ [Next]_vars => ILag'
  BY DelayStep, SamplesStep DEF ILag
<1>3. ASSUME IType, PaceIsStolen, NEW w \in Workers, pc[w] = "sending"
      PROVE  /\ Warmup <= now /\ NotEarly(slot[w], now)
             /\ LET ready == now - stolen[w]
                IN  ready <= freeAt[w] \/ NotLate(slot[w], ready)
  <2>1. /\ slot[w] \in Nat /\ now \in Nat /\ freeAt[w] \in Nat
        /\ stolen[w] \in Nat /\ sending[w] \in Nat
        /\ Due(slot[w]) <= sending[w] /\ sending[w] <= now
    BY <1>3 DEF IType, TypeOK, Threads, ClocksOrdered
  <2>2. Warmup <= Due(slot[w]) /\ Due(slot[w]) \in Nat /\ Warmup \in Nat
    BY <2>1, DueAfterWarmup, PlanAssumption
  <2>3. Warmup <= now /\ Due(slot[w]) <= now
    BY <2>1, <2>2
  <2>4. NotEarly(slot[w], now)
    BY <2>1, <2>3, AgainstTheRate
  <2>5. now - Larger(freeAt[w], Due(slot[w])) <= stolen[w]
    BY <1>3 DEF PaceIsStolen
  <2>6. now - stolen[w] <= freeAt[w] \/ now - stolen[w] <= Due(slot[w])
    BY <2>1, <2>2, <2>5 DEF Larger
  <2>7. now - stolen[w] \in Int
    BY <2>1
  <2> QED  BY <2>1, <2>3, <2>4, <2>6, <2>7, AgainstTheRate
<1>4. IType /\ PaceIsStolen =>
        \A w \in Workers : pc[w] = "sending" /\ slot[w] \in sent' \ sent =>
          /\ Warmup <= now /\ NotEarly(slot[w], now)
          /\ LET ready == now - stolen[w]
             IN  ready <= freeAt[w] \/ NotLate(slot[w], ready)
  BY <1>3
<1> QED
  BY <1>1, <1>2, <1>4, <1>5, LagInit, TypeCorrect, PTL DEF Safety, SentOnSchedule

-----------------------------------------------------------------------------
(* The latency.                                                             *)

(* From the reading of `sending` to that of `sent` a worker waits for       *)
(* nothing but the rig.                                                     *)
SendIsStolen ==
  \A w \in Workers :
    /\ pc[w] = "sending" => now - sending[w] <= stolen[w]
    /\ pc[w] = "exchange" => begun[w] - sending[w] <= stolen[w]

LEMMA SendStep ==
  ASSUME IType, SendIsStolen, [Next]_vars
  PROVE  SendIsStolen'
<1>0. /\ now \in Nat /\ pc \in [Workers -> States]
      /\ begun \in [Workers -> Nat] /\ sending \in [Workers -> Nat]
      /\ stolen \in [Threads -> Nat] /\ Workers \subseteq Threads
      /\ \A w \in Workers : w # Driver
  BY ConnectionsAssumption DEF IType, TypeOK, Threads, Workers, Driver
<1>1. CASE Tick
  <2> SUFFICES ASSUME NEW w \in Workers
               PROVE  /\ pc'[w] = "sending" => now' - sending'[w] <= stolen'[w]
                      /\ pc'[w] = "exchange" => begun'[w] - sending'[w] <= stolen'[w]
    BY DEF SendIsStolen
  <2>0. UNCHANGED <<pc, begun, sending>> /\ now' = now + 1
    BY <1>1 DEF Tick, workerVars
  <2>1. stolen'[w] \in Nat /\ stolen[w] \in Nat /\ stolen[w] <= stolen'[w]
        /\ (pc[w] = "sending" => stolen'[w] = stolen[w] + 1)
    BY <1>0, <1>1 DEF Tick, Runnable
  <2>2. sending[w] \in Nat /\ begun[w] \in Nat
    BY <1>0
  <2> QED  BY <1>0, <2>0, <2>1, <2>2 DEF SendIsStolen
<1>2. ASSUME NEW u \in Workers, WorkerStep(u) PROVE SendIsStolen'
  <2> SUFFICES ASSUME NEW w \in Workers
               PROVE  /\ pc'[w] = "sending" => now' - sending'[w] <= stolen'[w]
                      /\ pc'[w] = "exchange" => begun'[w] - sending'[w] <= stolen'[w]
    BY DEF SendIsStolen
  <2>1. stolen[w] \in Nat
    BY <1>0
  <2>2. CASE Wake(u)
    BY <1>0, <2>1, <2>2 DEF Wake, Goto, At, SendIsStolen
  <2>3. CASE Begin(u)
    BY <1>0, <2>1, <2>3 DEF Begin, Goto, At, SendIsStolen
  <2>4. CASE ~ Wake(u) /\ ~ Begin(u)
    <3>1. now' = now /\ stolen' = stolen
          /\ (pc'[w] \in {"sending", "exchange"} =>
                pc'[w] = pc[w] /\ sending'[w] = sending[w] /\ begun'[w] = begun[w])
      BY <1>0, <1>2, <2>4
      DEF WorkerStep, Expire, StartConnect, Reuse, Connected, ConnectFails, Unpause,
          ReadFreeAt, Claim, Finish, FinishAs, Goto, At
    <3> QED  BY <3>1 DEF SendIsStolen
  <2> QED  BY <2>2, <2>3, <2>4
<1>3. CASE DriverStep \/ UNCHANGED vars
  BY <1>0, <1>3
  DEF DriverStep, Spawn, SpawnEnds, WarmupEnds, Join, MergeWorker, Goto,
      vars, workerVars, SendIsStolen
<1> QED  BY <1>1, <1>2, <1>3 DEF Next, Returned

(* Only the end of an exchange adds a sample.                               *)
LEMMA SampledBy ==
  ASSUME IType, [Next]_vars, NEW w \in Workers
  PROVE  \/ tally'[w].latency = tally[w].latency
         \/ \E outcome \in AllOutcomes : FinishAs(w, outcome)
<1>0. tally \in [Workers -> Tallies]
  BY DEF IType, TypeOK
<1>1. ASSUME NEW u \in Workers, Connected(u) \/ ConnectFails(u)
      PROVE  tally'[w].latency = tally[w].latency
  <2>1. \E t \in {tally[u], AccountConnect(tally[u]), AccountConnectFailure(tally[u])} :
          tally' \in {tally, [tally EXCEPT ![u] = t]}
    BY <1>0, <1>1 DEF Connected, ConnectFails, At
  <2>2. /\ AccountConnect(tally[u]).latency = tally[u].latency
        /\ AccountConnectFailure(tally[u]).latency = tally[u].latency
    BY DEF AccountConnect, AccountConnectFailure, TallyOf
  <2> QED  BY <1>0, <2>1, <2>2
<1>2. ASSUME NEW u \in Workers, Finish(u)
      PROVE  \/ tally'[w].latency = tally[w].latency
             \/ \E outcome \in AllOutcomes : FinishAs(w, outcome)
  <2>1. PICK outcome \in AllOutcomes : FinishAs(u, outcome)
    BY <1>2, OutcomesAssumption DEF Finish
  <2>2. CASE u = w
    BY <2>1, <2>2
  <2>3. CASE u # w
    BY <1>0, <2>1, <2>3 DEF FinishAs, At
  <2> QED  BY <2>2, <2>3
<1>3. ASSUME NEW u \in Workers,
             \/ Expire(u) \/ StartConnect(u) \/ Reuse(u) \/ Unpause(u)
             \/ ReadFreeAt(u) \/ Claim(u) \/ Wake(u) \/ Begin(u)
      PROVE  tally' = tally
  BY <1>3
  DEF Expire, StartConnect, Reuse, Unpause, ReadFreeAt, Claim, Wake, Begin
<1>4. CASE DriverStep \/ Tick \/ UNCHANGED vars
  BY <1>4
  DEF DriverStep, Spawn, SpawnEnds, WarmupEnds, Join, MergeWorker, Tick, vars,
      workerVars
<1> QED  BY <1>1, <1>2, <1>3, <1>4 DEF Next, Returned, WorkerStep

(* A timeout is counted by the outcome of that name alone.                  *)
LEMMA TimeoutCounted ==
  ASSUME NEW e \in [ErrorKinds -> Nat], NEW o \in AllOutcomes, o # "TimedOut"
  PROVE  Counted(e, o)["timeout"] = e["timeout"]
BY DEF Counted, AllOutcomes, ErrorKinds, Bump

LEMMA FinishCovers ==
  ASSUME IType, SendIsStolen, NEW w \in Workers, NEW o \in AllOutcomes,
         FinishAs(w, o)
  PROVE  LatencyCovers(w)
<1>1. /\ pc[w] = "exchange" /\ (o = "TimedOut" => now >= begun[w] + IoTimeout)
      /\ now \in Nat /\ begun[w] \in Nat /\ sending[w] \in Nat /\ stolen[w] \in Nat
      /\ slot[w] \in Nat /\ Due(slot[w]) \in Nat /\ IoTimeout \in Nat
      /\ tally \in [Workers -> Tallies]
      /\ Due(slot[w]) <= sending[w]
  BY DueNat, TimeoutAssumption DEF FinishAs, MayEndAs, IType, TypeOK, Threads, ClocksOrdered
<1>2. begun[w] - sending[w] <= stolen[w] /\ Warmup <= Due(slot[w])
  BY <1>1, DueAfterWarmup DEF SendIsStolen
<1> DEFINE t == tally[w]
           x == FromDue(w, o)
           a == Account(t, o, Late(w), Waited(w), x)
<1>3. tally'[w] = a
  <2>1. Due(slot[w]) >= Warmup
    BY <1>1, <1>2, PlanAssumption
  <2> QED  BY <1>1, <2>1 DEF FinishAs, At
<1>4. a.latency = (IF o \in Timed THEN Append(t.latency, x) ELSE t.latency)
      /\ a.errors = Counted(t.errors, o)
  BY DEF Account, TallyOf
<1>5. CASE o \notin Timed
  BY <1>3, <1>4, <1>5 DEF LatencyCovers
<1>6. CASE o \in Timed
  <2>1. x = (sending[w] - Due(slot[w])) + (now - begun[w]) /\ x \in Int
    BY <1>1, <1>6 DEF FromDue, Elapsed
  <2>2. x >= now - Due(slot[w]) - stolen[w]
    BY <1>1, <1>2, <2>1
  <2>3. o = "TimedOut" => x >= IoTimeout
    BY <1>1, <2>1
  <2>4. o # "TimedOut" => ~ (a.errors["timeout"] > t.errors["timeout"])
    <3>1. t.errors \in [ErrorKinds -> Nat]
      BY <1>1, TallyFields
    <3>2. t.errors["timeout"] \in Nat
      BY <3>1 DEF ErrorKinds
    <3> QED  BY <1>4, <3>1, <3>2, TimeoutCounted
  <2>5. t.latency \in Seq(Nat)
    BY <1>1, TallyFields
  <2>6. a.latency = Append(t.latency, x)
    BY <1>4, <1>6
  <2> HIDE DEF x, a
  <2>7. a.latency[Len(a.latency)] = x
    BY <2>1, <2>5, <2>6
  <2> QED  BY <1>3, <2>2, <2>3, <2>4, <2>7 DEF LatencyCovers, t
<1> QED  BY <1>5, <1>6

(* A latency never flatters the target: it reaches back to the moment the   *)
(* slot was due, but for what the rig took, and a timeout is a sample of at *)
(* least the timeout.                                                       *)
THEOREM NoLatencyFlatters == Safety => LatencyNeverFlatters
<1>1. Init => SendIsStolen
  BY DEF Init, SendIsStolen
<1>2. IType /\ SendIsStolen /\ [Next]_vars => SendIsStolen'
  BY SendStep
<1>3. IType /\ SendIsStolen /\ [Next]_vars => \A w \in Workers : LatencyCovers(w)
  <2> SUFFICES ASSUME IType, SendIsStolen, [Next]_vars, NEW w \in Workers
               PROVE  LatencyCovers(w)
    OBVIOUS
  <2>1. CASE tally'[w].latency = tally[w].latency
    BY <2>1 DEF LatencyCovers
  <2> QED  BY <2>1, SampledBy, FinishCovers
<1> QED
  BY <1>1, <1>2, <1>3, TypeCorrect, PTL DEF Safety, LatencyNeverFlatters

-----------------------------------------------------------------------------
(* The end of a run.                                                        *)

(* Where the driver is tells how far it has come, and a worker that has not *)
(* been started, as one that was never merged, has counted nothing.         *)
Phases ==
  /\ main \in {"spawn", "warm"} => joined = 0
  /\ main \in {"spawn", "warm", "join"} => merged = 0
  /\ main \in {"merge", "done"} => joined = started
  /\ main = "done" => merged = started
  /\ \A w \in Workers : w <= joined => pc[w] = "done"
  /\ \A w \in Workers : w > started => pc[w] = "unborn" /\ tally[w] = EmptyTally

(* A slot that was sent was due in the window, one that was put aside was   *)
(* not.                                                                     *)
SortedByWindow ==
  /\ \A i \in sent : Due(i) < Deadline
  /\ \A i \in past : Due(i) >= Deadline

Finished == {w \in Workers : pc[w] = "done"}

(* A worker puts one slot aside at most, and is done when it does.          *)
OnePastEach == IsFiniteSet(past) /\ Cardinality(past) <= Cardinality(Finished)

(* An attempt had a slot, and then it has a lag, or could not connect.      *)
Itemized(t) == t.attempted = Len(t.lag) + t.errors["connect"]
AttemptsItemized == Itemized(run) /\ \A w \in Workers : Itemized(tally[w])

(* What a worker has sent: a lag for each exchange that is over, and the    *)
(* one it is in.                                                            *)
SentOf(w) == Len(tally[w].lag) + (IF pc[w] = "exchange" THEN 1 ELSE 0)
SentByAll == [w \in Workers |-> SentOf(w)]
TotalSent == Sum(SentByAll)
SentIsCounted == IsFiniteSet(sent) /\ TotalSent = Cardinality(sent)

(* The run's lags are those of the workers merged so far.                   *)
MergedLags == [w \in Workers |-> IF w <= merged THEN Len(tally[w].lag) ELSE 0]
LagsMerged == Sum(MergedLags)
LagsAreMerged == Len(run.lag) = LagsMerged

IEnd ==
  /\ Phases /\ SortedByWindow /\ OnePastEach
  /\ AttemptsItemized /\ SentIsCounted /\ LagsAreMerged

LEMMA WorkersFinite == Workers \subseteq Nat /\ IsFiniteSet(Workers)
<1>1. IsFiniteSet(1 .. Connections)
  BY ConnectionsAssumption, FS_Interval
<1> QED  BY <1>1 DEF Workers

LEMMA PhaseBounds ==
  ASSUME IType, Phases
  PROVE  /\ merged \in Nat /\ joined \in Nat /\ started \in Nat /\ Connections \in Nat
         /\ merged <= joined /\ joined <= started /\ started <= Connections
BY ConnectionsAssumption DEF IType, TypeOK, Phases

(* A worker that takes a step runs, and leaves what is the others' alone.   *)
LEMMA WorkerFrame ==
  ASSUME IType, NEW w \in Workers, WorkerStep(w)
  PROVE  /\ UNCHANGED driverVars
         /\ pc[w] \notin {"unborn", "done"}
         /\ \A u \in Workers \ {w} : pc'[u] = pc[u] /\ tally'[u] = tally[u]
<1>0. pc \in [Workers -> States] /\ tally \in [Workers -> Tallies]
  BY DEF IType, TypeOK
<1>1. UNCHANGED driverVars /\ pc[w] \notin {"unborn", "done"}
  BY DEF WorkerStep, Expire, StartConnect, Reuse, Connected, ConnectFails, Unpause,
         ReadFreeAt, Claim, Wake, Begin, Finish, FinishAs
<1>2. \A u \in Workers \ {w} : pc'[u] = pc[u]
  <2>1. \E label \in States : pc' = [pc EXCEPT ![w] = label]
    BY DEF WorkerStep, Expire, StartConnect, Reuse, Connected, ConnectFails, Unpause,
         ReadFreeAt, Claim, Wake, Begin, Finish, FinishAs, Goto, States
  <2> QED  BY <1>0, <2>1
<1>3. \A u \in Workers \ {w} : tally'[u] = tally[u]
  <2>1. \/ tally' = tally
        \/ \E t : tally' = [tally EXCEPT ![w] = t]
    BY DEF WorkerStep, Expire, StartConnect, Reuse, Connected, ConnectFails, Unpause,
         ReadFreeAt, Claim, Wake, Begin, Finish, FinishAs, At
  <2> QED  BY <1>0, <2>1
<1> QED  BY <1>1, <1>2, <1>3

LEMMA PhasesWorker ==
  ASSUME IType, Phases, NEW w \in Workers, WorkerStep(w)
  PROVE  Phases'
<1>1. /\ main' = main /\ started' = started /\ joined' = joined /\ merged' = merged
      /\ pc[w] \notin {"unborn", "done"}
      /\ \A u \in Workers \ {w} : pc'[u] = pc[u] /\ tally'[u] = tally[u]
  BY WorkerFrame DEF driverVars
<1>2. ~ (w <= joined) /\ ~ (w > started)
  BY <1>1 DEF Phases
<1> QED  BY <1>1, <1>2 DEF Phases

LEMMA PhasesDriver ==
  ASSUME IType, Phases, DriverStep
  PROVE  Phases'
<1>0. /\ merged \in Nat /\ joined \in Nat /\ started \in Nat
      /\ merged <= joined /\ joined <= started /\ started <= Connections
      /\ Workers \subseteq Nat
  BY PhaseBounds, WorkersFinite
<1>1. CASE Spawn
  <2>1. /\ main = "spawn" /\ main' = main /\ started' = started + 1
        /\ UNCHANGED <<joined, merged, tally>>
        /\ pc' = [pc EXCEPT ![started + 1] = "top"]
    BY <1>1 DEF Spawn, Goto
  <2>2. merged = 0 /\ joined = 0
    BY <2>1 DEF Phases
  <2>3. \A u \in Workers : u > started' => u > started /\ pc'[u] = pc[u]
    BY <1>0, <2>1 DEF IType, TypeOK
  <2>4. \A u \in Workers : ~ (u <= 0)
    BY DEF Workers
  <2> QED  BY <2>1, <2>2, <2>3, <2>4 DEF Phases
<1>2. CASE SpawnEnds \/ WarmupEnds
  BY <1>2 DEF SpawnEnds, WarmupEnds, workerVars, Phases
<1>3. CASE Join
  <2>1. /\ main = "join" /\ UNCHANGED <<started, merged, pc, tally>>
        /\ \/ joined < started /\ pc[joined + 1] = "done" /\ joined' = joined + 1 /\ main' = main
           \/ joined = started /\ main' = "merge" /\ joined' = joined
    BY <1>3 DEF Join, workerVars
  <2>2. \A u \in Workers : u <= joined' => pc[u] = "done"
    BY <1>0, <2>1 DEF Phases
  <2> QED  BY <2>1, <2>2 DEF Phases
<1>4. CASE MergeWorker
  <2>1. /\ main = "merge" /\ UNCHANGED <<started, joined, pc, tally>>
        /\ \/ merged < started /\ main' = main
           \/ merged = started /\ main' = "done" /\ merged' = merged
    BY <1>4 DEF MergeWorker, workerVars
  <2> QED  BY <2>1 DEF Phases
<1> QED  BY <1>1, <1>2, <1>3, <1>4 DEF DriverStep

LEMMA PhasesStep == IType /\ Phases /\ [Next]_vars => Phases'
<1> SUFFICES ASSUME IType, Phases, [Next]_vars PROVE Phases'
  OBVIOUS
<1>1. CASE Tick \/ UNCHANGED vars
  BY <1>1 DEF Tick, vars, driverVars, workerVars, Phases
<1> QED  BY <1>1, PhasesWorker, PhasesDriver DEF Next, Returned

LEMMA SortedStep ==
  ASSUME IType, HeldInWindow, SortedByWindow, [Next]_vars
  PROVE  SortedByWindow'
<1>1. CASE UNCHANGED <<sent, past>>
  BY <1>1 DEF SortedByWindow
<1>2. ASSUME NEW w \in Workers, Begin(w) PROVE SortedByWindow'
  BY <1>2 DEF Begin, HeldInWindow, SortedByWindow
<1>3. ASSUME NEW w \in Workers, Claim(w) PROVE SortedByWindow'
  BY <1>3 DEF Claim, SortedByWindow
<1>4. \/ UNCHANGED <<sent, past>>
      \/ \E w \in Workers : Begin(w) \/ Claim(w)
  BY DEF Next, Returned, DriverStep, WorkerStep, Expire, StartConnect, Reuse, Connected,
         ConnectFails, Unpause, ReadFreeAt, Wake, Finish, FinishAs, Spawn,
         SpawnEnds, WarmupEnds, Join, MergeWorker, Tick, vars, history
<1> QED  BY <1>1, <1>2, <1>3, <1>4

LEMMA FinishedGrows ==
  ASSUME IType, Phases, [Next]_vars
  PROVE  /\ Finished \subseteq Finished' /\ IsFiniteSet(Finished')
         /\ IsFiniteSet(Finished)
<1>1. IsFiniteSet(Finished') /\ IsFiniteSet(Finished)
  <2>1. Finished \subseteq Workers /\ Finished' \subseteq Workers
    BY DEF Finished
  <2> QED  BY <2>1, WorkersFinite, FS_Subset
<1>2. ASSUME NEW w \in Workers, pc[w] = "done" PROVE pc'[w] = "done"
  <2>1. ASSUME NEW u \in Workers, WorkerStep(u) PROVE pc'[w] = "done"
    <3>1. u # w
      BY <1>2, <2>1, WorkerFrame
    <3> QED  BY <1>2, <2>1, <3>1, WorkerFrame
  <2>2. CASE Spawn
    <3>1. pc' = [pc EXCEPT ![started + 1] = "top"] /\ w # started + 1
      <4>1. started \in Nat /\ started + 1 > started
        BY PhaseBounds
      <4> QED  BY <1>2, <2>2, <4>1 DEF Spawn, Goto, Phases
    <3> QED  BY <1>2, <3>1 DEF IType, TypeOK
  <2>3. CASE SpawnEnds \/ WarmupEnds \/ Join \/ MergeWorker \/ Tick \/ UNCHANGED vars
    BY <1>2, <2>3 DEF SpawnEnds, WarmupEnds, Join, MergeWorker, Tick, vars, workerVars
  <2> QED  BY <2>1, <2>2, <2>3 DEF Next, Returned, DriverStep
<1> QED  BY <1>1, <1>2 DEF Finished

LEMMA PastStep ==
  ASSUME IType, Phases, OnePastEach, [Next]_vars
  PROVE  OnePastEach'
<1>0. /\ Finished \subseteq Finished' /\ IsFiniteSet(Finished') /\ IsFiniteSet(Finished)
      /\ Cardinality(Finished) \in Nat /\ Cardinality(Finished') \in Nat
      /\ IsFiniteSet(past) /\ Cardinality(past) \in Nat
      /\ Cardinality(past) <= Cardinality(Finished)
  BY FinishedGrows, FS_CardinalityType DEF OnePastEach
<1>1. Cardinality(Finished) <= Cardinality(Finished')
  BY <1>0, FS_Subset
<1>2. CASE past' = past
  <2> HIDE DEF Finished
  <2> QED  BY <1>0, <1>1, <1>2 DEF OnePastEach
<1>3. ASSUME NEW w \in Workers, Claim(w), past' # past PROVE OnePastEach'
  <2>1. past' = past \cup {next} /\ pc' = [pc EXCEPT ![w] = "done"] /\ pc[w] = "claim"
    BY <1>3 DEF Claim, Goto
  <2>2. pc'[w] = "done" /\ pc[w] # "done"
    BY <2>1 DEF IType, TypeOK
  <2>3. w \in Finished' /\ w \notin Finished
    BY <2>2 DEF Finished
  <2>4. /\ IsFiniteSet(Finished \cup {w})
        /\ Cardinality(Finished \cup {w}) = Cardinality(Finished) + 1
    BY <1>0, <2>3, FS_AddElement
  <2>5. Cardinality(Finished \cup {w}) <= Cardinality(Finished')
    <3>1. Finished \cup {w} \subseteq Finished'
      BY <1>0, <2>3
    <3> QED  BY <1>0, <3>1, FS_Subset
  <2>6. IsFiniteSet(past \cup {next})
        /\ Cardinality(past \cup {next}) <= Cardinality(past) + 1
        /\ Cardinality(past \cup {next}) \in Nat
    <3>1. CASE next \in past
      <4>1. past \cup {next} = past
        BY <3>1
      <4> QED  BY <1>0, <4>1
    <3>2. CASE next \notin past
      <4>1. /\ IsFiniteSet(past \cup {next})
            /\ Cardinality(past \cup {next}) = Cardinality(past) + 1
        BY <1>0, <3>2, FS_AddElement
      <4> QED  BY <1>0, <4>1
    <3> QED  BY <3>1, <3>2
  <2> QED  BY <1>0, <2>1, <2>4, <2>5, <2>6 DEF OnePastEach
<1>4. \/ past' = past
      \/ \E w \in Workers : Claim(w)
  BY DEF Next, Returned, DriverStep, WorkerStep, Expire, StartConnect, Reuse, Connected,
         ConnectFails, Unpause, ReadFreeAt, Wake, Begin, Finish, FinishAs, Spawn,
         SpawnEnds, WarmupEnds, Join, MergeWorker, Tick, vars, history
<1> QED  BY <1>2, <1>3, <1>4

(* What each turn of the accounting does to the items of a tally.           *)
LEMMA ItemsOf ==
  ASSUME NEW t \in Tallies, NEW o \in AllOutcomes,
         NEW late \in Nat, NEW waited \in Nat, NEW fromDue \in Nat
  PROVE  /\ Itemized(t) => Itemized(Account(t, o, late, waited, fromDue))
         /\ Len(Account(t, o, late, waited, fromDue).lag) = Len(t.lag) + 1
         /\ Itemized(t) => Itemized(AccountConnect(t))
         /\ Len(AccountConnect(t).lag) = Len(t.lag)
         /\ Itemized(t) => Itemized(AccountConnectFailure(t))
         /\ Len(AccountConnectFailure(t).lag) = Len(t.lag)
<1>1. /\ t.attempted \in Nat /\ t.errors \in [ErrorKinds -> Nat] /\ t.lag \in Seq(Nat)
      /\ Len(t.lag) \in Nat /\ t.errors["connect"] \in Nat
  <2>1. t.attempted \in Nat /\ t.errors \in [ErrorKinds -> Nat] /\ t.lag \in Seq(Nat)
    BY TallyFields
  <2>2. t.errors["connect"] \in Nat
    BY <2>1 DEF ErrorKinds
  <2> QED  BY <2>1, <2>2
<1>2. Counted(t.errors, o)["connect"] = t.errors["connect"]
  BY <1>1 DEF Counted, AllOutcomes, ErrorKinds, Bump
<1>3. Bump(t.errors, "connect")["connect"] = t.errors["connect"] + 1
  BY <1>1 DEF ErrorKinds, Bump
<1>4. Len(Append(t.lag, late)) = Len(t.lag) + 1
  BY <1>1
<1> DEFINE a == Account(t, o, late, waited, fromDue)
           c == AccountConnect(t)
           f == AccountConnectFailure(t)
<1>5. /\ a.attempted = t.attempted + 1 /\ a.lag = Append(t.lag, late)
      /\ a.errors = Counted(t.errors, o)
  BY DEF Account, TallyOf
<1>6. c.attempted = t.attempted /\ c.lag = t.lag /\ c.errors = t.errors
  BY DEF AccountConnect, TallyOf
<1>7. /\ f.attempted = t.attempted + 1 /\ f.lag = t.lag
      /\ f.errors = Bump(t.errors, "connect")
  BY DEF AccountConnectFailure, TallyOf
<1> HIDE DEF a, c, f
<1>11. Len(a.lag) = Len(t.lag) + 1 /\ a.errors["connect"] = t.errors["connect"]
  BY <1>2, <1>4, <1>5
<1>8. Itemized(t) => Itemized(a)
  BY <1>1, <1>5, <1>11 DEF Itemized
<1>9. Itemized(t) => Itemized(c)
  BY <1>6 DEF Itemized
<1>10. Itemized(t) => Itemized(f)
  BY <1>1, <1>3, <1>7 DEF Itemized
<1> QED  BY <1>4, <1>5, <1>6, <1>7, <1>8, <1>9, <1>10 DEF a, c, f

LEMMA MergedItems ==
  ASSUME NEW r \in Tallies, NEW t \in Tallies
  PROVE  /\ Itemized(r) /\ Itemized(t) => Itemized(Merge(r, t))
         /\ Len(Merge(r, t).lag) = Len(r.lag) + Len(t.lag)
<1> DEFINE m == Merge(r, t)
<1>1. /\ r.attempted \in Nat /\ r.errors \in [ErrorKinds -> Nat] /\ r.lag \in Seq(Nat)
      /\ t.attempted \in Nat /\ t.errors \in [ErrorKinds -> Nat] /\ t.lag \in Seq(Nat)
  BY TallyFields
<1>2. /\ Len(r.lag) \in Nat /\ Len(t.lag) \in Nat
      /\ r.errors["connect"] \in Nat /\ t.errors["connect"] \in Nat
      /\ Added(r.errors, t.errors)["connect"] = r.errors["connect"] + t.errors["connect"]
  <2>1. Len(r.lag) \in Nat /\ Len(t.lag) \in Nat
    BY <1>1
  <2>2. r.errors["connect"] \in Nat /\ t.errors["connect"] \in Nat
    BY <1>1 DEF ErrorKinds
  <2>3. Added(r.errors, t.errors)["connect"] = r.errors["connect"] + t.errors["connect"]
    BY DEF ErrorKinds, Added
  <2> QED  BY <2>1, <2>2, <2>3
<1>3. /\ m.attempted = r.attempted + t.attempted /\ m.lag = r.lag \o t.lag
      /\ m.errors = Added(r.errors, t.errors)
  BY DEF Merge, TallyOf
<1>4. Len(r.lag \o t.lag) = Len(r.lag) + Len(t.lag)
  BY <1>1
<1> HIDE DEF m
<1>6. /\ Len(m.lag) = Len(r.lag) + Len(t.lag)
      /\ m.errors["connect"] = r.errors["connect"] + t.errors["connect"]
  BY <1>2, <1>3, <1>4
<1>5. ASSUME Itemized(r), Itemized(t) PROVE Itemized(m)
  <2> DEFINE x == Len(r.lag)
             y == Len(t.lag)
             c == r.errors["connect"]
             d == t.errors["connect"]
  <2>1. r.attempted = x + c /\ t.attempted = y + d
    BY <1>5 DEF Itemized
  <2>2. Len(m.lag) = x + y /\ m.errors["connect"] = c + d
    BY <1>6
  <2>3. x \in Nat /\ y \in Nat /\ c \in Nat /\ d \in Nat
    BY <1>2
  <2> HIDE DEF x, y, c, d
  <2> QED  BY <1>3, <2>1, <2>2, <2>3 DEF Itemized
<1> QED  BY <1>3, <1>4, <1>5 DEF m

(* What a step of a worker does to its items, and to its part of `sent`.    *)
LEMMA WorkerItems ==
  ASSUME IType, NEW w \in Workers, WorkerStep(w)
  PROVE  /\ Itemized(tally[w]) => Itemized(tally'[w])
         /\ \/ SentOf(w)' = SentOf(w) /\ sent' = sent
            \/ SentOf(w)' = SentOf(w) + 1 /\ Begin(w)
<1>0. /\ pc \in [Workers -> States] /\ tally \in [Workers -> Tallies]
      /\ tally[w] \in Tallies
  BY DEF IType, TypeOK
<1>L. Len(tally[w].lag) \in Nat
  <2>1. tally[w].lag \in Seq(Nat)
    BY <1>0, TallyFields
  <2> QED  BY <2>1
<1>1. CASE \/ Expire(w) \/ StartConnect(w) \/ Reuse(w) \/ Unpause(w)
           \/ ReadFreeAt(w) \/ Claim(w) \/ Wake(w)
  <2>1. /\ tally' = tally /\ sent' = sent /\ pc[w] # "exchange"
        /\ \E label \in States \ {"exchange"} : pc' = [pc EXCEPT ![w] = label]
    BY <1>1 DEF Expire, StartConnect, Reuse, Unpause, ReadFreeAt, Claim, Wake,
       history, Goto, States
  <2>2. pc'[w] # "exchange"
    BY <1>0, <2>1
  <2> QED  BY <2>1, <2>2 DEF SentOf
<1>2. CASE Connected(w) \/ ConnectFails(w)
  <2>1. /\ sent' = sent /\ pc[w] # "exchange"
        /\ \E label \in States \ {"exchange"} : pc' = [pc EXCEPT ![w] = label]
    BY <1>2 DEF Connected, ConnectFails, history, Goto, States
  <2>2. pc'[w] # "exchange"
    BY <1>0, <2>1
  <2>3. \E t \in {tally[w], AccountConnect(tally[w]), AccountConnectFailure(tally[w])} :
          tally' \in {tally, [tally EXCEPT ![w] = t]}
    BY <1>0, <1>2 DEF Connected, ConnectFails, At
  <2>4. tally'[w] \in {tally[w], AccountConnect(tally[w]), AccountConnectFailure(tally[w])}
    BY <1>0, <2>3
  <2>5. /\ Itemized(tally[w]) => Itemized(tally'[w])
        /\ Len(tally'[w].lag) = Len(tally[w].lag)
    <3>1. 0 \in Nat /\ "Succeeded" \in AllOutcomes
      BY DEF AllOutcomes
    <3> QED  BY <1>0, <2>4, <3>1, ItemsOf
  <2> QED  BY <2>1, <2>2, <2>5 DEF SentOf
<1>3. CASE Begin(w)
  <2>1. tally' = tally /\ pc[w] # "exchange" /\ pc'[w] = "exchange"
    BY <1>0, <1>3 DEF Begin, Goto, States
  <2>2. SentOf(w)' = SentOf(w) + 1
    BY <1>L, <2>1 DEF SentOf
  <2> QED  BY <1>3, <2>1, <2>2
<1>4. CASE Finish(w)
  <2>1. PICK o \in AllOutcomes : FinishAs(w, o)
    BY <1>4, OutcomesAssumption DEF Finish
  <2>2. /\ Late(w) \in Nat /\ Waited(w) \in Nat /\ FromDue(w, o) \in Nat
    BY <2>1, DueNat
    DEF FinishAs, Late, Waited, FromDue, Elapsed, Larger, IType, TypeOK, ClocksOrdered
  <2>3. Due(slot[w]) >= Warmup
    <3>1. slot[w] \in Nat
      BY DEF IType, TypeOK
    <3> QED  BY <3>1, DueAfterWarmup, PlanAssumption
  <2>4. /\ tally'[w] = Account(tally[w], o, Late(w), Waited(w), FromDue(w, o))
        /\ pc[w] = "exchange" /\ pc'[w] = "top" /\ sent' = sent
    BY <1>0, <2>1, <2>3 DEF FinishAs, At, Goto, history
  <2>5. /\ Itemized(tally[w]) => Itemized(tally'[w])
        /\ Len(tally'[w].lag) = Len(tally[w].lag) + 1
    BY <1>0, <2>2, <2>4, ItemsOf
  <2> QED  BY <1>L, <2>4, <2>5 DEF SentOf
<1> QED  BY <1>1, <1>2, <1>3, <1>4 DEF WorkerStep

(* A step of the driver, or of the clock, leaves the tallies alone and what *)
(* the workers have sent.                                                   *)
LEMMA OtherSteps ==
  ASSUME IType, Phases, DriverStep \/ Tick \/ UNCHANGED vars
  PROVE  /\ tally' = tally /\ sent' = sent
         /\ \A w \in Workers : SentOf(w)' = SentOf(w)
<1>1. tally' = tally /\ sent' = sent
  BY DEF DriverStep, Spawn, SpawnEnds, WarmupEnds, Join, MergeWorker, Tick, vars,
         workerVars, history
<1>2. ASSUME NEW w \in Workers PROVE pc[w] = "exchange" <=> pc'[w] = "exchange"
  <2>1. CASE Spawn
    <3>1. pc' = [pc EXCEPT ![started + 1] = "top"] /\ pc \in [Workers -> States]
      BY <2>1 DEF Spawn, Goto, IType, TypeOK
    <3>2. w = started + 1 => pc[w] # "exchange"
      <4>1. started \in Nat /\ started + 1 > started
        BY PhaseBounds
      <4> QED  BY <4>1 DEF Phases
    <3> QED  BY <3>1, <3>2
  <2>2. CASE pc' = pc
    BY <2>2
  <2> QED  BY <2>1, <2>2
    DEF DriverStep, SpawnEnds, WarmupEnds, Join, MergeWorker, Tick, vars, workerVars
<1> QED  BY <1>1, <1>2 DEF SentOf

LEMMA ItemsStep ==
  ASSUME IType, Phases, AttemptsItemized, [Next]_vars
  PROVE  AttemptsItemized'
<1>0. tally \in [Workers -> Tallies] /\ run \in Tallies
  BY DEF IType, TypeOK
<1>1. ASSUME NEW w \in Workers, WorkerStep(w) PROVE AttemptsItemized'
  <2>1. run' = run /\ \A u \in Workers \ {w} : tally'[u] = tally[u]
    BY <1>1, WorkerFrame DEF driverVars
  <2>2. Itemized(tally'[w])
    BY <1>1, WorkerItems DEF AttemptsItemized
  <2> QED  BY <2>1, <2>2 DEF AttemptsItemized
<1>2. CASE MergeWorker
  <2>1. CASE run' = run
    BY <1>2, <2>1, OtherSteps DEF AttemptsItemized, DriverStep
  <2>2. CASE merged < started /\ run' = Merge(run, tally[merged + 1])
    <3>1. merged + 1 \in Workers
      BY <2>2, PhaseBounds DEF Workers
    <3>2. Itemized(run')
      BY <1>0, <2>2, <3>1, MergedItems DEF AttemptsItemized
    <3> QED  BY <1>2, <3>2, OtherSteps DEF AttemptsItemized, DriverStep
  <2> QED  BY <1>2, <2>1, <2>2 DEF MergeWorker
<1>3. CASE Spawn \/ SpawnEnds \/ WarmupEnds \/ Join \/ Tick \/ UNCHANGED vars
  <2>1. run' = run
    BY <1>3 DEF Spawn, SpawnEnds, WarmupEnds, Join, Tick, vars, driverVars
  <2>2. tally' = tally
    BY <1>3, OtherSteps DEF DriverStep
  <2> QED  BY <2>1, <2>2 DEF AttemptsItemized
<1> QED  BY <1>1, <1>2, <1>3 DEF Next, Returned, DriverStep

LEMMA SentNat ==
  ASSUME tally \in [Workers -> Tallies]
  PROVE  /\ SentByAll \in [Workers -> Nat]
         /\ \A w \in Workers : Len(tally[w].lag) \in Nat
<1>1. ASSUME NEW w \in Workers PROVE Len(tally[w].lag) \in Nat
  <2>1. tally[w].lag \in Seq(Nat)
    BY TallyFields
  <2> QED  BY <2>1
<1>2. ASSUME NEW w \in Workers PROVE SentOf(w) \in Nat
  <2>1. Len(tally[w].lag) \in Nat
    BY <1>1
  <2>2. CASE pc[w] = "exchange"
    <3>1. SentOf(w) = Len(tally[w].lag) + 1
      BY <2>2 DEF SentOf
    <3> QED  BY <2>1, <3>1
  <2>3. CASE pc[w] # "exchange"
    <3>1. SentOf(w) = Len(tally[w].lag) + 0
      BY <2>3 DEF SentOf
    <3> QED  BY <2>1, <3>1
  <2> QED  BY <2>2, <2>3
<1> QED  BY <1>1, <1>2 DEF SentByAll

LEMMA SentStep ==
  ASSUME IType, IType', Phases, SlotsConserved, SentIsCounted, [Next]_vars
  PROVE  SentIsCounted'
<1>1. CASE /\ sent' = sent
           /\ \A w \in Workers : SentOf(w)' = SentOf(w)
  <2>1. SentByAll' = SentByAll
    BY <1>1 DEF SentByAll
  <2> QED  BY <1>1, <2>1 DEF SentIsCounted, TotalSent
<1>2. ASSUME NEW w \in Workers, WorkerStep(w) PROVE SentIsCounted'
  <2>1. /\ \A u \in Workers \ {w} : SentOf(u)' = SentOf(u)
        /\ \A u \in Workers : SentByAll[u] = SentOf(u) /\ SentByAll'[u] = SentOf(u)'
    BY <1>2, WorkerFrame DEF SentOf, SentByAll
  <2>2. CASE SentOf(w)' = SentOf(w) /\ sent' = sent
    BY <1>1, <2>1, <2>2
  <2>3. CASE SentOf(w)' = SentOf(w) + 1 /\ Begin(w)
    <3>1. /\ sent' = sent \cup {slot[w]} /\ slot[w] \notin sent
      BY <2>3 DEF Begin, SlotsConserved, Held, Holds
    <3>2. /\ IsFiniteSet(sent') /\ Cardinality(sent') = Cardinality(sent) + 1
          /\ Cardinality(sent) \in Nat
      BY <3>1, FS_AddElement, FS_CardinalityType DEF SentIsCounted
    <3> DEFINE f == SentByAll
               g == SentByAll'
    <3>3. f \in [Workers -> Nat] /\ g \in [Workers -> Nat]
      <4>1. tally \in [Workers -> Tallies] /\ tally' \in [Workers -> Tallies]
        BY DEF IType, TypeOK
      <4>2. SentByAll \in [Workers -> Nat]
        BY <4>1, SentNat
      <4>3. g = [u \in Workers |-> SentOf(u)']
        BY DEF SentByAll
      <4>4. \A u \in Workers : SentOf(u)' \in Nat
        BY <2>1, <2>3, <4>2 DEF SentByAll
      <4> QED  BY <4>2, <4>3, <4>4
    <3>4. g[w] = f[w] + 1 /\ \A u \in Workers \ {w} : g[u] = f[u]
      BY <2>1, <2>3
    <3>5. Sum(f) = Cardinality(sent) /\ TotalSent' = Sum(g)
      BY DEF SentIsCounted, TotalSent
    <3> HIDE DEF f, g
    <3>6. Sum(g) + f[w] = Sum(f) + g[w]
      BY <3>3, <3>4, WorkersFinite, SumOfTheRest, ZenonT(60)
    <3>7. Sum(g) \in Nat /\ f[w] \in Nat
      BY <3>3, WorkersFinite, SumIsNatural
    <3> QED  BY <3>2, <3>4, <3>5, <3>6, <3>7 DEF SentIsCounted
  <2> QED  BY <1>2, <2>2, <2>3, WorkerItems
<1>3. CASE DriverStep \/ Tick \/ UNCHANGED vars
  BY <1>1, <1>3, OtherSteps
<1> QED  BY <1>2, <1>3 DEF Next, Returned

LEMMA LagsStep ==
  ASSUME IType, Phases, LagsAreMerged, [Next]_vars
  PROVE  LagsAreMerged'
<1>0. tally \in [Workers -> Tallies] /\ run \in Tallies
  BY DEF IType, TypeOK
<1>1. ASSUME run' = run, merged' = merged,
             \A u \in Workers : u <= merged => tally'[u] = tally[u]
      PROVE  LagsAreMerged'
  <2>1. [u \in Workers |-> IF u <= merged' THEN Len(tally'[u].lag) ELSE 0]
          = [u \in Workers |-> IF u <= merged THEN Len(tally[u].lag) ELSE 0]
    BY <1>1
  <2>2. MergedLags' = MergedLags
    BY <2>1 DEF MergedLags
  <2> QED  BY <1>1, <2>2 DEF LagsAreMerged, LagsMerged
<1>2. ASSUME NEW w \in Workers, WorkerStep(w) PROVE LagsAreMerged'
  <2>1. /\ run' = run /\ merged' = merged /\ pc[w] # "done"
        /\ \A u \in Workers \ {w} : tally'[u] = tally[u]
    BY <1>2, WorkerFrame DEF driverVars
  <2>2. ~ (w <= merged)
    <3>1. ~ (w <= joined)
      BY <2>1 DEF Phases
    <3> QED  BY <3>1, PhaseBounds, WorkersFinite
  <2> QED  BY <1>1, <2>1, <2>2
<1>3. CASE MergeWorker
  <2>1. CASE UNCHANGED <<merged, run>>
    BY <1>1, <1>3, <2>1, OtherSteps DEF DriverStep
  <2>2. CASE /\ merged < started
             /\ run' = Merge(run, tally[merged + 1]) /\ merged' = merged + 1
    <3>1. merged + 1 \in Workers /\ merged \in Nat
      BY <2>2, PhaseBounds DEF Workers
    <3>2. tally' = tally
      BY <1>3, OtherSteps DEF DriverStep
    <3>3. Len(run'.lag) = Len(run.lag) + Len(tally[merged + 1].lag)
      BY <1>0, <2>2, <3>1, MergedItems
    <3> DEFINE f == [u \in Workers |-> Len(tally[u].lag)]
               m == merged
    <3>4. f \in [Workers -> Nat] /\ f[merged + 1] = Len(tally[merged + 1].lag)
      BY <1>0, <3>1, SentNat
    <3>5. /\ LagsMerged = Sum([u \in Workers |-> IF u <= m THEN f[u] ELSE 0])
          /\ LagsMerged' = Sum([u \in Workers |-> IF u <= m + 1 THEN f[u] ELSE 0])
      BY <2>2, <3>2 DEF LagsMerged, MergedLags
    <3>6. m \in Nat /\ m + 1 \in Workers
      BY <3>1
    <3> HIDE DEF f, m
    <3>7. LagsMerged' = LagsMerged + f[m + 1]
      <4>1. Sum([u \in Workers |-> IF u <= m + 1 THEN f[u] ELSE 0])
              = Sum([u \in Workers |-> IF u <= m THEN f[u] ELSE 0]) + f[m + 1]
        BY <3>4, <3>6, WorkersFinite, SumUpToNext
      <4> QED  BY <3>5, <4>1
    <3> QED  BY <3>3, <3>4, <3>7 DEF LagsAreMerged, m
  <2> QED  BY <1>3, <2>1, <2>2 DEF MergeWorker
<1>4. CASE Spawn \/ SpawnEnds \/ WarmupEnds \/ Join \/ Tick \/ UNCHANGED vars
  <2>1. run' = run /\ merged' = merged
    BY <1>4 DEF Spawn, SpawnEnds, WarmupEnds, Join, Tick, vars, driverVars
  <2>2. tally' = tally
    BY <1>4, OtherSteps DEF DriverStep
  <2> QED  BY <1>1, <2>1, <2>2
<1> QED  BY <1>2, <1>3, <1>4 DEF Next, Returned, DriverStep

LEMMA EndInit == Init => IEnd /\ HeldInWindow
<1> SUFFICES ASSUME Init PROVE IEnd /\ HeldInWindow
  OBVIOUS
<1>1. /\ \A u \in Workers : ~ (u <= 0) /\ u \in Nat
      /\ merged = 0 /\ started = 0 /\ joined = 0 /\ main = "spawn"
      /\ pc = [w \in Workers |-> "unborn"] /\ tally = [w \in Workers |-> EmptyTally]
      /\ run = EmptyTally /\ sent = {} /\ past = {}
  BY WorkersFinite DEF Init, Workers
<1>2. Len(EmptyTally.lag) = 0 /\ Itemized(EmptyTally)
  BY DEF EmptyTally, TallyOf, Itemized, NoErrors, ErrorKinds
<1>3. Phases /\ SortedByWindow /\ HeldInWindow
  BY <1>1 DEF Phases, SortedByWindow, HeldInWindow
<1>4. OnePastEach
  <2>1. Finished = {}
    BY <1>1 DEF Finished
  <2>2. IsFiniteSet({}) /\ Cardinality({}) = 0
    BY FS_EmptySet
  <2> QED  BY <1>1, <2>1, <2>2 DEF OnePastEach
<1>5. AttemptsItemized
  BY <1>1, <1>2 DEF AttemptsItemized
<1> DEFINE Z == [w \in Workers |-> 0]
<1>6. Z \in [Workers -> Nat] /\ \A w \in Workers : Z[w] = 0
  OBVIOUS
<1>7. SentByAll = Z /\ MergedLags = Z
  BY <1>1, <1>2 DEF SentByAll, SentOf, MergedLags
<1> HIDE DEF Z
<1>8. Sum(Z) = 0
  BY <1>6, WorkersFinite, SumOfZeros
<1>9. SentIsCounted
  <2>1. IsFiniteSet({}) /\ Cardinality({}) = 0
    BY FS_EmptySet
  <2> QED  BY <1>1, <1>7, <1>8, <2>1 DEF SentIsCounted, TotalSent
<1>10. LagsAreMerged
  BY <1>1, <1>2, <1>7, <1>8 DEF LagsAreMerged, LagsMerged
<1> QED  BY <1>3, <1>4, <1>5, <1>9, <1>10 DEF IEnd

(* At the end every worker is done or was never started.                    *)
LEMMA EndBalances ==
  ASSUME IType, SlotsConserved, IEnd
  PROVE  EndLedger
<1> SUFFICES ASSUME main = "done" PROVE EndLedger
  BY DEF EndLedger
<1>0. /\ merged = started /\ joined = started /\ started \in Nat /\ next \in Nat
      /\ started <= Connections /\ Workers \subseteq Nat
  BY PhaseBounds, WorkersFinite DEF IEnd, Phases, IType, TypeOK
<1>1. \A w \in Workers : w <= started => pc[w] = "done"
  BY <1>0 DEF IEnd, Phases
<1>2. \A w \in Workers : w > started => pc[w] = "unborn" /\ tally[w] = EmptyTally
  BY <1>0 DEF IEnd, Phases
<1>3. \A w \in Workers : pc[w] \in {"unborn", "done"}
  BY <1>0, <1>1, <1>2
<1>4. Held = {}
  BY <1>3 DEF Held, Holds
<1>5. sent = DueInWindow(next)
  <2>1. 0 .. next - 1 = sent \cup past
    BY <1>4 DEF SlotsConserved
  <2>2. \A i \in 0 .. next - 1 : Due(i) \in Nat
    BY DueNat
  <2>3. Deadline \in Nat
    BY PlanAssumption DEF Deadline
  <2> QED  BY <2>1, <2>2, <2>3 DEF DueInWindow, IEnd, SortedByWindow
<1>6. Cardinality(past) <= started
  <2>1. Finished \subseteq 1 .. started
    BY <1>0, <1>2 DEF Finished, Workers
  <2>2. IsFiniteSet(1 .. started) /\ Cardinality(1 .. started) = started
    BY <1>0, FS_Interval
  <2>3. Cardinality(Finished) <= started /\ Cardinality(Finished) \in Nat
    BY <2>1, <2>2, FS_Subset, FS_CardinalityType
  <2>4. Cardinality(past) <= Cardinality(Finished) /\ Cardinality(past) \in Nat
    BY FS_CardinalityType DEF IEnd, OnePastEach
  <2> QED  BY <1>0, <2>3, <2>4
<1>7. Len(run.lag) = Cardinality(sent)
  <2>1. tally \in [Workers -> Tallies]
    BY DEF IType, TypeOK
  <2>2. Len(EmptyTally.lag) = 0
    BY DEF EmptyTally, TallyOf
  <2>3. ASSUME NEW w \in Workers
        PROVE  (IF w <= merged THEN Len(tally[w].lag) ELSE 0) = SentOf(w)
    <3>1. SentOf(w) = Len(tally[w].lag) /\ Len(tally[w].lag) \in Nat
      <4>1. Len(tally[w].lag) \in Nat
        BY <2>1, SentNat
      <4>2. pc[w] # "exchange"
        BY <1>3
      <4>3. SentOf(w) = Len(tally[w].lag) + 0
        BY <4>2 DEF SentOf
      <4> QED  BY <4>1, <4>3
    <3>2. ~ (w <= merged) => Len(tally[w].lag) = 0
      BY <1>0, <1>2, <2>2
    <3> QED  BY <3>1, <3>2
  <2>4. MergedLags = SentByAll
    BY <2>3 DEF MergedLags, SentByAll
  <2> QED
    BY <2>4 DEF IEnd, SentIsCounted, TotalSent, LagsAreMerged, LagsMerged
<1>8. run.attempted = Cardinality(sent) + run.errors["connect"]
  BY <1>7 DEF IEnd, AttemptsItemized, Itemized
<1> QED  BY <1>5, <1>6, <1>7, <1>8 DEF EndLedger

(* At the end the run says exactly what became of the schedule: the slots   *)
(* sent are those handed out that were due in the window, each is one       *)
(* attempt and one lag, the other attempts are connects that failed, and    *)
(* each worker that was started claimed at most one slot too many           *)
(* (open_loop.cpp:77-83, 160-179).                                          *)
THEOREM EndAddsUp == Safety => []EndLedger
<1>1. Init => IEnd /\ HeldInWindow
  BY EndInit
<1>2. /\ IType /\ IType' /\ SlotsConserved /\ IEnd /\ HeldInWindow /\ [Next]_vars
      => IEnd' /\ HeldInWindow'
  BY PhasesStep, SortedStep, PastStep, ItemsStep, SentStep, LagsStep, WindowStep
  DEF IEnd
<1>3. IType /\ SlotsConserved /\ IEnd => EndLedger
  BY EndBalances
<1> QED
  BY <1>1, <1>2, <1>3, TypeCorrect, SlotsAreConserved, PTL DEF Safety

-----------------------------------------------------------------------------
(* The verdict.                                                             *)

(* What the rig took from all the workers together.                         *)
StolenByWorker == [w \in Workers |-> stolen[w]]
StolenFromAll == Sum(StolenByWorker)

(* A lag charged to the rig is one that some worker did lose.               *)
RigOfAWorker(x) == \E w \in Workers : x \in 0 .. stolen[w]
RunRigIsTheRigs == \A i \in 1 .. Len(run.rig) : RigOfAWorker(run.rig[i])

(* Among samples that are bounded there is a least one with half of them at *)
(* or below it: the middle sample is a sample.                              *)
LEMMA MiddleIsASample ==
  ASSUME NEW s \in Seq(Int), s # <<>>, NEW bound \in Nat,
         \A i \in 1 .. Len(s) : s[i] \in 0 .. bound
  PROVE  \E i \in 1 .. Len(s) : Middle(s) = s[i]
<1> DEFINE AtMost(v) == Cardinality({i \in DOMAIN s : s[i] <= v})
           Covers(v) == 2 * AtMost(v) >= Len(s)
           Values == {s[i] : i \in DOMAIN s}
           Covering == {n \in Nat : Covers(n)}
<1>1. DOMAIN s = 1 .. Len(s) /\ Len(s) \in Nat \ {0}
  OBVIOUS
<1>2. IsFiniteSet(1 .. Len(s)) /\ Cardinality(1 .. Len(s)) = Len(s)
  BY <1>1, FS_Interval
<1>3. \A v : AtMost(v) \in Nat
  <2>1. \A v : IsFiniteSet({i \in DOMAIN s : s[i] <= v})
    BY <1>1, <1>2, FS_Subset
  <2> QED  BY <2>1, FS_CardinalityType
<1>4. bound \in Covering
  <2>1. {i \in DOMAIN s : s[i] <= bound} = 1 .. Len(s)
    BY <1>1
  <2>2. AtMost(bound) = Len(s)
    BY <1>2, <2>1
  <2> HIDE DEF AtMost
  <2> QED  BY <1>1, <2>2
<1>5. PICK n \in Covering : \A m \in Covering : n <= m
  <2>1. Covering \subseteq Nat /\ Covering # {}
    BY <1>4
  <2> HIDE DEF Covering
  <2> QED  BY <2>1, LeastNatural
<1>6. n \in Nat /\ Covers(n)
  BY <1>5
<1>7. n \in Values
  <2> SUFFICES ASSUME n \notin Values PROVE FALSE
    OBVIOUS
  <2>1. \A i \in DOMAIN s : s[i] \in Nat /\ s[i] # n
    BY <1>1
  <2>2. CASE n = 0
    <3>1. {i \in DOMAIN s : s[i] <= n} = {}
      BY <2>1, <2>2
    <3>2. AtMost(n) = 0
      BY <3>1, FS_EmptySet
    <3> HIDE DEF AtMost
    <3> QED  BY <1>1, <1>6, <3>2
  <2>3. CASE n # 0
    <3>1. n - 1 \in Nat
      BY <1>6, <2>3
    <3>2. {i \in DOMAIN s : s[i] <= n} = {i \in DOMAIN s : s[i] <= n - 1}
      BY <1>6, <2>1, <3>1
    <3>3. AtMost(n - 1) = AtMost(n)
      BY <3>2
    <3>4. n - 1 \in Covering
      <4> HIDE DEF AtMost
      <4> QED  BY <1>6, <3>1, <3>3
    <3>5. n <= n - 1
      BY <1>5, <3>4
    <3> QED  BY <1>6, <3>5
  <2> QED  BY <2>2, <2>3
<1>8. \A u \in Values : u \in Nat
  BY <1>1
<1>9. \A u \in Values : Covers(u) => n <= u
  BY <1>5, <1>8
<1>10. Middle(s) \in Values
  <2>1. Middle(s) = CHOOSE v \in Values : Covers(v) /\ \A u \in Values : Covers(u) => v <= u
    BY DEF Middle
  <2> HIDE DEF Values, Covers
  <2> QED  BY <1>6, <1>7, <1>9, <2>1
<1> QED  BY <1>1, <1>10

(* And a longest one.                                                       *)
LEMMA LongestIsASample ==
  ASSUME NEW s \in Seq(Int), s # <<>>, NEW bound \in Nat,
         \A i \in 1 .. Len(s) : s[i] \in 0 .. bound
  PROVE  \E i \in 1 .. Len(s) : Longest(s) = s[i]
<1> DEFINE Bounds == {n \in Nat : \A i \in 1 .. Len(s) : s[i] <= n}
<1>1. DOMAIN s = 1 .. Len(s) /\ Len(s) \in Nat \ {0}
  OBVIOUS
<1>2. PICK n \in Bounds : \A m \in Bounds : n <= m
  <2>1. Bounds \subseteq Nat /\ bound \in Bounds
    OBVIOUS
  <2> HIDE DEF Bounds
  <2> QED  BY <2>1, LeastNatural
<1>3. n \in Nat /\ \A i \in 1 .. Len(s) : s[i] \in Nat /\ s[i] <= n
  BY <1>2
<1>4. \E i \in 1 .. Len(s) : s[i] = n
  <2> SUFFICES ASSUME \A i \in 1 .. Len(s) : s[i] # n PROVE FALSE
    OBVIOUS
  <2>1. \A i \in 1 .. Len(s) : s[i] <= n - 1
    BY <1>3
  <2>2. 1 \in 1 .. Len(s)
    BY <1>1
  <2>3. n - 1 \in Nat
    <3>1. s[1] \in Nat /\ s[1] <= n - 1
      BY <1>3, <2>1, <2>2
    <3> QED  BY <1>3, <3>1
  <2>4. n - 1 \in Bounds
    BY <2>1, <2>3
  <2>5. n <= n - 1
    BY <1>2, <2>4
  <2> QED  BY <1>3, <2>5
<1>5. Longest(s) \in {s[i] : i \in DOMAIN s}
  <2>1. \E v \in {s[i] : i \in DOMAIN s} : \A i \in DOMAIN s : s[i] <= v
    BY <1>1, <1>3, <1>4
  <2> QED  BY <2>1 DEF Longest
<1> QED  BY <1>1, <1>5

(* What percentile(50) reports is over a sample by a slot's share at most.  *)
LEMMA MedianIsNearASample ==
  ASSUME NEW s \in Seq(Int), s # <<>>, NEW bound \in Nat,
         \A i \in 1 .. Len(s) : s[i] \in 0 .. bound
  PROVE  \E i \in 1 .. Len(s) :
           /\ Median(s) \in Nat
           /\ SubBuckets * Median(s) <= (SubBuckets + 1) * s[i]
<1>1. SubBuckets \in Nat /\ SubBuckets >= 1 /\ MaxValue \in Nat
  BY SubBucketsPositive, LayoutAssumption
<1>2. \A i \in 1 .. Len(s) : s[i] \in Nat
  OBVIOUS
<1>3. CASE Middle(s) <= MaxValue
  <2>1. PICK i \in 1 .. Len(s) : Middle(s) = s[i]
    BY MiddleIsASample
  <2> DEFINE v == s[i]
             high == SlotHigh(IndexOf(v))
  <2>2. v \in Nat /\ v <= MaxValue
    BY <1>2, <1>3, <2>1
  <2>3. high \in Nat /\ (high - v) * SubBuckets <= v
    BY <2>2, SlotIsNarrow
  <2>4. Median(s) = high
    BY <1>3, <2>1 DEF Median
  <2> HIDE DEF v, high
  <2>5. SubBuckets * high <= (SubBuckets + 1) * v
    <3> DEFINE b == SubBuckets
    <3>1. b \in Nat /\ (high - v) * b <= v
      BY <1>1, <2>3
    <3> HIDE DEF b
    <3>2. /\ (high - v) * b = b * high - b * v /\ (b + 1) * v = b * v + v
          /\ b * high \in Nat /\ b * v \in Nat
      BY <2>2, <2>3, <3>1
    <3>3. b * high <= (b + 1) * v
      BY <2>2, <3>1, <3>2
    <3> QED  BY <3>3 DEF b
  <2>6. Median(s) \in Nat /\ SubBuckets * Median(s) <= (SubBuckets + 1) * v
    BY <2>3, <2>4, <2>5
  <2> QED  BY <2>6 DEF v
<1>4. CASE ~ (Middle(s) <= MaxValue)
  <2>1. PICK i \in 1 .. Len(s) : Longest(s) = s[i]
    BY LongestIsASample
  <2>2. Median(s) = s[i] /\ s[i] \in Nat
    BY <1>2, <1>4, <2>1 DEF Median
  <2> DEFINE v == s[i]
  <2>3. v \in Nat /\ Median(s) = v
    BY <2>2
  <2> HIDE DEF v
  <2>4. (SubBuckets + 1) * v = SubBuckets * v + v /\ SubBuckets * v \in Nat
    BY <1>1, <2>3
  <2>5. Median(s) \in Nat /\ SubBuckets * Median(s) <= (SubBuckets + 1) * v
    BY <2>3, <2>4
  <2> QED  BY <2>5 DEF v
<1> QED  BY <1>3, <1>4

LEMMA ConcatItems ==
  ASSUME NEW r \in Seq(Int), NEW s \in Seq(Int), NEW i \in 1 .. Len(r \o s)
  PROVE  \/ i \in 1 .. Len(r) /\ (r \o s)[i] = r[i]
         \/ i - Len(r) \in 1 .. Len(s) /\ (r \o s)[i] = s[i - Len(r)]
OBVIOUS

LEMMA RigStep ==
  ASSUME IType, IType', Phases, RunRigIsTheRigs, RigLagIsTheRigs, [Next]_vars
  PROVE  RunRigIsTheRigs'
<1>0. /\ stolen \in [Threads -> Nat] /\ stolen' \in [Threads -> Nat]
      /\ Workers \subseteq Threads /\ tally \in [Workers -> Tallies] /\ run \in Tallies
  BY DEF IType, TypeOK, Threads
<1>1. \A w \in Workers : /\ stolen[w] \in Nat /\ stolen'[w] \in Nat
                         /\ stolen[w] <= stolen'[w]
  <2>1. CASE Tick
    BY <1>0, <2>1 DEF Tick
  <2>2. CASE stolen' = stolen
    BY <1>0, <2>2
  <2> QED  BY <2>1, <2>2
    DEF Next, Returned, DriverStep, WorkerStep, Expire, StartConnect, Reuse, Connected,
        ConnectFails, Unpause, ReadFreeAt, Claim, Wake, Begin, Finish, FinishAs, Spawn,
        SpawnEnds, WarmupEnds, Join, MergeWorker, vars
<1>2. ASSUME NEW x, RigOfAWorker(x) PROVE \E w \in Workers : x \in 0 .. stolen'[w]
  BY <1>1, <1>2 DEF RigOfAWorker
<1>3. CASE run' = run
  BY <1>2, <1>3 DEF RunRigIsTheRigs, RigOfAWorker
<1>4. CASE merged < started /\ run' = Merge(run, tally[merged + 1])
  <2>1. merged + 1 \in Workers
    BY <1>4, PhaseBounds DEF Workers
  <2> DEFINE t == tally[merged + 1]
  <2>2. run'.rig = run.rig \o t.rig
    BY <1>4 DEF Merge, TallyOf
  <2>3. run.rig \in Seq(Int) /\ t.rig \in Seq(Int)
    BY <1>0, <2>1, TallyFields
  <2>4. \A i \in 1 .. Len(t.rig) : RigOfAWorker(t.rig[i])
    <3>1. DOMAIN t.rig = 1 .. Len(t.rig)
      BY <2>3
    <3> QED  BY <2>1, <3>1 DEF RigLagIsTheRigs, RigOfAWorker
  <2> HIDE DEF t
  <2>5. ASSUME NEW i \in 1 .. Len(run'.rig) PROVE RigOfAWorker(run'.rig[i])
    <3>1. \/ i \in 1 .. Len(run.rig) /\ run'.rig[i] = run.rig[i]
          \/ /\ i - Len(run.rig) \in 1 .. Len(t.rig)
             /\ run'.rig[i] = t.rig[i - Len(run.rig)]
      <4>1. i \in 1 .. Len(run.rig \o t.rig)
        BY <2>2
      <4> QED  BY <2>2, <2>3, <4>1, ConcatItems
    <3> QED  BY <2>4, <3>1 DEF RunRigIsTheRigs
  <2>6. ASSUME NEW i \in 1 .. Len(run'.rig)
        PROVE  \E w \in Workers : run'.rig[i] \in 0 .. stolen'[w]
    BY <1>2, <2>5
  <2> QED  BY <2>6 DEF RunRigIsTheRigs, RigOfAWorker
<1> QED
  BY <1>3, <1>4
  DEF Next, Returned, DriverStep, WorkerStep, Expire, StartConnect, Reuse, Connected,
      ConnectFails, Unpause, ReadFreeAt, Claim, Wake, Begin, Finish, FinishAs, Spawn,
      SpawnEnds, WarmupEnds, Join, MergeWorker, Tick, vars, driverVars

LEMMA VerdictIsTheRigs ==
  ASSUME IType, RunRigIsTheRigs
  PROVE  VoidOnlyByRig
<1> SUFFICES ASSUME ~ KeptUp(run)
             PROVE  \E w \in Workers :
                      (SubBuckets + 1) * stolen[w]
                        >= SubBuckets * (Persistent * Interval)
  BY DEF VoidOnlyByRig
<1>1. /\ stolen \in [Threads -> Nat] /\ Workers \subseteq Threads
      /\ run.rig \in Seq(Int)
  BY TallyFields DEF IType, TypeOK, Threads
<1>2. run.rig # <<>> /\ ~ (Median(run.rig) < Persistent * Interval)
  BY DEF KeptUp
<1>3. StolenByWorker \in [Workers -> Nat]
  BY <1>1 DEF StolenByWorker
<1>4. StolenFromAll \in Nat
  BY <1>3, WorkersFinite, SumIsNatural DEF StolenFromAll
<1>5. \A w \in Workers : stolen[w] <= StolenFromAll /\ stolen[w] \in Nat
  <2> SUFFICES ASSUME NEW w \in Workers
               PROVE  stolen[w] <= StolenFromAll /\ stolen[w] \in Nat
    OBVIOUS
  <2>1. StolenByWorker[w] <= StolenFromAll
    BY <1>3, WorkersFinite, SumBoundsTerms DEF StolenFromAll
  <2> QED  BY <1>1, <2>1 DEF StolenByWorker
<1>6. \A i \in 1 .. Len(run.rig) : run.rig[i] \in 0 .. StolenFromAll
  BY <1>4, <1>5 DEF RunRigIsTheRigs, RigOfAWorker
<1>7. PICK i \in 1 .. Len(run.rig) :
        /\ Median(run.rig) \in Nat
        /\ SubBuckets * Median(run.rig) <= (SubBuckets + 1) * run.rig[i]
  BY <1>1, <1>2, <1>4, <1>6, MedianIsNearASample
<1>8. PICK w \in Workers : run.rig[i] \in 0 .. stolen[w]
  BY DEF RunRigIsTheRigs, RigOfAWorker
<1>9. Persistent * Interval \in Nat
  <2>1. Interval \in Nat
    BY PlanAssumption DEF Interval
  <2> QED  BY <2>1, BoundsAssumption
<1>10. (SubBuckets + 1) * stolen[w] >= SubBuckets * (Persistent * Interval)
  <2> DEFINE threshold == Persistent * Interval
             median == Median(run.rig)
             lag == run.rig[i]
             lost == stolen[w]
             b == SubBuckets
  <2>1. /\ threshold \in Nat /\ median \in Nat /\ lag \in Nat /\ lost \in Nat
        /\ b \in Nat /\ lag <= lost /\ ~ (median < threshold)
        /\ b * median <= (b + 1) * lag
    BY <1>2, <1>5, <1>7, <1>8, <1>9, SubBucketsPositive
  <2> HIDE DEF threshold, median, lag, lost, b
  <2>2. b * (median - threshold) >= 0 /\ (b + 1) * (lost - lag) >= 0
    BY <2>1
  <2>3. b * (median - threshold) = b * median - b * threshold
    BY <2>1
  <2>4. (b + 1) * (lost - lag) = (b + 1) * lost - (b + 1) * lag
    BY <2>1
  <2>5. /\ b * median \in Nat /\ b * threshold \in Nat
        /\ (b + 1) * lost \in Nat /\ (b + 1) * lag \in Nat
    BY <2>1
  <2>6. (b + 1) * lost >= b * threshold
    BY <2>1, <2>2, <2>3, <2>4, <2>5
  <2> QED  BY <2>6 DEF threshold, lost, b
<1> QED  BY <1>10

(* A run is declared void only if the machine kept some worker from running *)
(* for at least the threshold of the verdict, give or take what a slot of   *)
(* the histogram adds to a sample, and whatever the target did: a target    *)
(* that is slow, however slow, cannot void a run (open_loop.hpp:82-108,     *)
(* histogram.cpp:10-41).                                                    *)
THEOREM OnlyTheRigVoids == Safety => []VoidOnlyByRig
<1>1. Init => RunRigIsTheRigs
  <2> SUFFICES ASSUME Init PROVE RunRigIsTheRigs
    OBVIOUS
  <2>1. run = EmptyTally /\ Len(EmptyTally.rig) = 0
    BY DEF Init, EmptyTally, TallyOf
  <2> QED  BY <2>1 DEF RunRigIsTheRigs
<1>2. /\ IType /\ IType' /\ Phases /\ RunRigIsTheRigs /\ RigLagIsTheRigs /\ [Next]_vars
      => RunRigIsTheRigs'
  BY RigStep
<1>3. IType /\ RunRigIsTheRigs => VoidOnlyByRig
  BY VerdictIsTheRigs
<1>4. Init => Phases
  BY EndInit DEF IEnd
<1>5. IType /\ Phases /\ [Next]_vars => Phases'
  BY PhasesStep
<1> QED
  BY <1>1, <1>2, <1>3, <1>4, <1>5, TypeCorrect, RigLagIsAlwaysTheRigs, PTL DEF Safety

=============================================================================
