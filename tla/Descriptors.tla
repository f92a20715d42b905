----------------------------- MODULE Descriptors ----------------------------
(***************************************************************************)
(* The descriptors of one process: Socket (src/core/socket.cpp), which owns*)
(* one, the connecting threads of the runners, and Listener                *)
(* (src/core/listener.cpp) with the accept loop of dariyanaap-null.  A     *)
(* process that has a control socket does both at once, as the tests do.   *)
(*                                                                         *)
(* Every system call is a step.  It may fail, and the kernel gives the     *)
(* lowest free number to the next descriptor, whichever thread asks for it.*)
(* Time is counted in ticks, several to a millisecond, from the moment a   *)
(* thread has computed the deadline of its connect.                        *)
(***************************************************************************)
EXTENDS Integers, Sequences, SequencesExt, FiniteSets

CONSTANTS
  Workers,     \* threads that connect
  Acceptor,    \* the thread that listens
  Addresses,   \* addresses a name was resolved to
  Timeout,     \* the connect timeout, in milliseconds
  TicksPerMs,  \* ticks in a millisecond
  MaxFds       \* descriptors the process may have open

ASSUME AddressesAssumption == Addresses \in Nat \ {0}   \* resolve never returns none
ASSUME TimeAssumption == Timeout \in Nat /\ TicksPerMs \in Nat \ {0}
ASSUME ThreadsAssumption == Acceptor \notin Workers /\ MaxFds \in Nat

Threads == Workers \cup {Acceptor}
Fds == 1 .. MaxFds
None == 0
Total == Timeout * TicksPerMs

VARIABLES
  table,    \* what the kernel has under each descriptor
  pc,       \* where each thread is
  local,    \* the Socket of the connect, bind or accept under way
  kept,     \* a worker's `socket`, the Listener's `socket_`
  clients,  \* accepted descriptors, each with its serving thread
  address,  \* the address being tried
  every,    \* every_attempt_timed_out
  waited,   \* ticks since the deadline was computed
  until,    \* when the present poll gives up
  failures, \* what each address tried came to
  dead      \* the process has ended

vars == <<table, pc, local, kept, clients, address, every, waited, until, failures, dead>>

At(f, t, v) == [f EXCEPT ![t] = v]
Object(t, state, blocking) == [by |-> t, state |-> state, blocking |-> blocking]
Closed == Object(Acceptor, "closed", TRUE)
Open(f) == table[f].state # "closed"

(* The number the kernel gives to the next descriptor, if there is one left.*)
Lowest(f) == f \in Fds /\ ~Open(f) /\ \A g \in Fds : Open(g) \/ f <= g

(* Socket::close, and the destructor.                                       *)
AfterClose(f) == IF f = None THEN table ELSE At(table, f, Closed)

Goto(t, label) == pc' = At(pc, t, label) /\ UNCHANGED dead

Init ==
  /\ table = [f \in Fds |-> Closed]
  /\ pc = [t \in Threads |-> IF t = Acceptor THEN "create" ELSE "top"]
  /\ local = [t \in Threads |-> None] /\ kept = [t \in Threads |-> None]
  /\ clients = {} /\ address = [t \in Threads |-> 1]
  /\ every = [t \in Workers |-> TRUE]
  /\ waited = [t \in Workers |-> 0] /\ until = [t \in Workers |-> 0]
  /\ failures = [t \in Workers |-> <<>>] /\ dead = FALSE

-----------------------------------------------------------------------------
(* Connecting.                                                              *)

(* connect_any begins.                                                      *)
StartConnect(t) ==
  /\ pc[t] = "top" /\ kept[t] = None
  /\ Goto(t, "create")
  /\ UNCHANGED <<table, local, kept, clients, address, every, waited, until, failures>>

(* ::socket, for a connect or for a bind.                                   *)
Create(t) ==
  /\ pc[t] = "create"
  /\ \E f \in Fds : /\ Lowest(f)
                     /\ table' = At(table, f, Object(t, "fresh", TRUE))
                     /\ local' = At(local, t, f)
  /\ Goto(t, IF t = Acceptor THEN "bind" ELSE "nonblock")
  /\ UNCHANGED <<kept, clients, address, every, waited, until, failures>>

(* The catch clauses of connect_any.                                        *)
Verdict(t, failure) == every[t] /\ failure = "TimedOut"

(* An attempt throws.  Its Socket closes what it owns, and the next address *)
(* is tried, or connect_any throws.                                         *)
AttemptFails(t, failure) ==
  /\ table' = AfterClose(local[t]) /\ local' = At(local, t, None)
  /\ every' = At(every, t, Verdict(t, failure))
  /\ failures' = At(failures, t, Append(failures[t], failure))
  /\ \/ /\ address[t] < Addresses /\ Goto(t, "create")
        /\ address' = At(address, t, address[t] + 1)
     \/ address[t] = Addresses /\ Goto(t, "threw") /\ UNCHANGED address
  /\ waited' = At(waited, t, 0) /\ until' = At(until, t, 0)
  /\ UNCHANGED <<kept, clients>>

(* A call of an attempt fails: socket, for want of a descriptor or of       *)
(* anything else, setsockopt, fcntl, connect, poll, getsockopt.             *)
CallFails(t) ==
  /\ pc[t] \in {"create", "nonblock", "connect", "poll", "error", "block"}
  /\ AttemptFails(t, "IoError")

Setting(t, from, blocking, to) ==
  /\ pc[t] = from /\ Goto(t, to)
  /\ table' = At(table, local[t], Object(t, table[local[t]].state, blocking))
  /\ UNCHANGED <<local, kept, clients, address, every, waited, until, failures>>

(* adopt, whose SO_NOSIGPIPE may fail like any call, and set_nonblocking.   *)
Unblock(t) == Setting(t, "nonblock", FALSE, "connect")
Block(t) == Setting(t, "block", TRUE, "return")

(* ::connect succeeds at once or is under way.                              *)
Connect(t) ==
  /\ pc[t] = "connect"
  /\ \E state \in {"connected", "connecting"} :
       /\ table' = At(table, local[t], Object(t, state, FALSE))
       /\ Goto(t, IF state = "connected" THEN "block" ELSE "await")
  /\ UNCHANGED <<local, kept, clients, address, every, waited, until, failures>>

(* The peer answers, or its host does.                                      *)
Resolve(f) ==
  /\ table[f].state = "connecting"
  /\ \E state \in {"connected", "refused"} :
       table' = At(table, f, Object(table[f].by, state, table[f].blocking))
  /\ UNCHANGED <<pc, local, kept, clients, address, every, waited, until, failures, dead>>

(* A slip: every turn of the loop has the whole timeout.                    *)
LeftOver(t) == Total

(* deadline - now.                                                          *)
Left(t) == Total - waited[t]

(* The head of await_writable's loop: time is up, or what is left of it, in *)
(* whole milliseconds, goes to poll.                                        *)
Await(t) ==
  /\ pc[t] = "await"
  /\ \/ Left(t) <= 0 /\ AttemptFails(t, "TimedOut")
     \/ /\ Left(t) > 0 /\ Goto(t, "poll")
        /\ until' = At(until, t, waited[t] + (Left(t) \div TicksPerMs) * TicksPerMs)
        /\ UNCHANGED <<table, local, kept, clients, address, every, waited, failures>>

(* A slip: writable is taken for connected.                                 *)
WritableTrusted(t) == Goto(t, "block")

(* poll says writable, which a refused descriptor is as well.               *)
Writable(t) == Goto(t, "error")

(* poll returns: ready, nothing in its time, or a signal.                   *)
PollReturns(t) ==
  /\ pc[t] = "poll"
  /\ \/ /\ table[local[t]].state # "connecting" /\ Writable(t)
        /\ waited' = At(waited, t, 0) /\ until' = At(until, t, 0)
        /\ UNCHANGED <<table, local, kept, clients, address, every, failures>>
     \/ /\ table[local[t]].state = "connecting" /\ waited[t] >= until[t]
        /\ AttemptFails(t, "TimedOut")
     \/ /\ Goto(t, "await") /\ until' = At(until, t, 0)
        /\ UNCHANGED <<table, local, kept, clients, address, every, waited, failures>>

(* SO_ERROR.                                                                *)
CheckError(t) ==
  /\ pc[t] = "error"
  /\ \/ table[local[t]].state = "refused" /\ AttemptFails(t, "IoError")
     \/ /\ table[local[t]].state = "connected" /\ Goto(t, "block")
        /\ UNCHANGED <<table, local, kept, clients, address, every, waited, until, failures>>

(* A slip: the source of a move keeps its number.                           *)
LeftInSource(f) == f

(* What a move leaves in its source.                                        *)
MovedFrom(f) == None

(* The Socket is returned and moved into the worker's; the locals of        *)
(* connect_any are gone.                                                    *)
Return(t) ==
  /\ pc[t] = "return" /\ Goto(t, "bound")
  /\ kept' = At(kept, t, local[t]) /\ local' = At(local, t, MovedFrom(local[t]))
  /\ address' = At(address, t, 1) /\ every' = At(every, t, TRUE)
  /\ failures' = At(failures, t, <<>>)
  /\ UNCHANGED <<table, clients, waited, until>>

(* The source of the move is destroyed, and set_timeouts is called: when it *)
(* fails, the Socket is the worker's already.                               *)
SetTimeouts(t) ==
  /\ pc[t] = "bound"
  /\ \E label \in {"top", "threw"} : Goto(t, label)
  /\ table' = AfterClose(local[t]) /\ local' = At(local, t, None)
  /\ UNCHANGED <<kept, clients, address, every, waited, until, failures>>

(* The pause of the catch clause is over.                                   *)
Unpause(t) ==
  /\ pc[t] = "threw" /\ Goto(t, "top") /\ failures' = At(failures, t, <<>>)
  /\ address' = At(address, t, 1) /\ every' = At(every, t, TRUE)
  /\ UNCHANGED <<table, local, kept, clients, waited, until>>

(* An exchange on the connection ends and the worker drops it; a turn that  *)
(* keeps it changes nothing here.                                           *)
Drop(t) ==
  /\ pc[t] = "top" /\ kept[t] # None
  /\ table' = AfterClose(kept[t]) /\ kept' = At(kept, t, None)
  /\ UNCHANGED <<pc, local, clients, address, every, waited, until, failures, dead>>

(* The worker returns, and its Socket is destroyed.                         *)
Finish(t) ==
  /\ pc[t] = "top" /\ Goto(t, "done")
  /\ table' = AfterClose(kept[t]) /\ kept' = At(kept, t, None)
  /\ UNCHANGED <<local, clients, address, every, waited, until, failures>>

-----------------------------------------------------------------------------
(* Listening.                                                               *)

(* bind_one and bound_port succeed; the Socket is moved into the Listener.  *)
Bind ==
  /\ pc[Acceptor] = "bind" /\ Goto(Acceptor, "accept")
  /\ kept' = At(kept, Acceptor, local[Acceptor])
  /\ local' = At(local, Acceptor, MovedFrom(local[Acceptor]))
  /\ address' = At(address, Acceptor, 1)
  /\ UNCHANGED <<table, clients, every, waited, until, failures>>

(* The process ends, and the kernel closes what it had.                     *)
Die ==
  /\ dead' = TRUE /\ pc' = [t \in Threads |-> "gone"]
  /\ table' = [f \in Fds |-> Closed] /\ clients' = {}
  /\ local' = [t \in Threads |-> None] /\ kept' = [t \in Threads |-> None]
  /\ address' = [t \in Threads |-> 1] /\ every' = [t \in Workers |-> TRUE]
  /\ waited' = [t \in Workers |-> 0] /\ until' = [t \in Workers |-> 0]
  /\ failures' = [t \in Workers |-> <<>>]

(* One of their calls fails: the next address, or main's catch clause.      *)
BindFails ==
  /\ pc[Acceptor] \in {"create", "bind"}
  /\ \/ /\ address[Acceptor] < Addresses /\ Goto(Acceptor, "create")
        /\ address' = At(address, Acceptor, address[Acceptor] + 1)
        /\ table' = AfterClose(local[Acceptor]) /\ local' = At(local, Acceptor, None)
        /\ UNCHANGED <<kept, clients, every, waited, until, failures>>
     \/ address[Acceptor] = Addresses /\ Die

Accept ==
  /\ pc[Acceptor] = "accept" /\ Goto(Acceptor, "accepted")
  /\ \E f \in Fds : /\ Lowest(f)
                     /\ table' = At(table, f, Object(Acceptor, "connected", TRUE))
                     /\ local' = At(local, Acceptor, f)
  /\ UNCHANGED <<kept, clients, address, every, waited, until, failures>>

(* adopt and set_timeouts succeed; the Socket is moved into a new thread.   *)
Serve ==
  /\ pc[Acceptor] = "accepted" /\ Goto(Acceptor, "accept")
  /\ clients' = clients \cup {local[Acceptor]}
  /\ local' = At(local, Acceptor, MovedFrom(local[Acceptor]))
  /\ UNCHANGED <<table, kept, address, every, waited, until, failures>>

(* accept, adopt, set_timeouts or the thread fails, and nothing catches it  *)
(* while threads are joinable: the process ends.                            *)
AcceptFails == pc[Acceptor] \in {"accept", "accepted"} /\ Die

(* serve returns, and its Socket is destroyed.                              *)
ServeEnds(f) ==
  /\ f \in clients /\ clients' = clients \ {f} /\ table' = AfterClose(f)
  /\ UNCHANGED <<pc, local, kept, address, every, waited, until, failures, dead>>

-----------------------------------------------------------------------------
Timed(t) == pc[t] \in {"await", "poll"}

(* Time past a deadline is all one, and is not counted.                     *)
Tick ==
  /\ \E t \in Workers : Timed(t)
  /\ \A t \in Workers : Timed(t) => waited[t] < Total
  /\ waited' = [t \in Workers |-> IF Timed(t) THEN waited[t] + 1 ELSE waited[t]]
  /\ UNCHANGED <<table, pc, local, kept, clients, address, every, until, failures, dead>>

WorkerStep(t) ==
  \/ StartConnect(t) \/ Create(t) \/ CallFails(t) \/ Unblock(t) \/ Block(t)
  \/ Connect(t) \/ Await(t) \/ PollReturns(t) \/ CheckError(t) \/ Return(t)
  \/ SetTimeouts(t) \/ Unpause(t) \/ Drop(t) \/ Finish(t)

ListenStep ==
  \/ Create(Acceptor) \/ Bind \/ BindFails \/ Accept \/ Serve \/ AcceptFails

Next ==
  \/ /\ ~dead
     /\ \/ \E t \in Workers : WorkerStep(t)
        \/ ListenStep \/ (\E f \in Fds : Resolve(f) \/ ServeEnds(f)) \/ Tick
  \/ dead /\ UNCHANGED vars

(* Threads run and the clock moves.  Nothing is promised of the peer, nor   *)
(* that signals cease.                                                      *)
Spec ==
  /\ Init /\ [][Next]_vars
  /\ WF_vars(~dead /\ Tick) /\ \A t \in Workers : WF_vars(~dead /\ WorkerStep(t))

-----------------------------------------------------------------------------
(* Properties.                                                              *)

Owned(t) == {local[t], kept[t]} \ {None}

(* Every open descriptor has exactly one owner and every owner an open one  *)
(* that is its own, whatever call failed and whoever was given the number   *)
(* next: none is lost, none is closed twice, none is another thread's       *)
(* (socket.hpp:12-16, socket.cpp:28-53, 133-137).                           *)
OneOwner ==
  /\ \A f \in Fds : Open(f) <=> f \in clients \/ \E t \in Threads : f \in Owned(t)
  /\ \A t \in Threads : /\ \A f \in Owned(t) : table[f].by = t /\ f \notin clients
                        /\ local[t] = kept[t] => local[t] = None

(* What a worker keeps is connected and blocking: not merely writable, and  *)
(* not left as the wait needed it, or every timeout of the exchange would   *)
(* expire at once (socket.cpp:147-164, 222-228).                            *)
KeptIsConnected ==
  \A t \in Workers : kept[t] # None =>
    table[kept[t]].state = "connected" /\ table[kept[t]].blocking

(* connect_any throws only when it has tried every address, holds nothing   *)
(* then, and reports a timeout just if nothing else was learned from any of *)
(* them (socket.hpp:69-73, socket.cpp:172-192).                             *)
ThrowTellsAll ==
  \A t \in Workers : pc[t] = "threw" /\ kept[t] = None =>
    /\ Len(failures[t]) = Addresses
    /\ every[t] <=> "IoError" \notin ToSet(failures[t])

(* What connect_any says of a name is so, when it returns and when it       *)
(* throws (socket.hpp:60-75): the two above.                                *)
ConnectKeepsItsWord == KeptIsConnected /\ ThrowTellsAll

(* A connect is given its time: no poll is asked to last past the deadline, *)
(* and none is given up a millisecond or more before it, however signals    *)
(* divide the wait (socket.cpp:65-91).                                      *)
WaitsItsTimeout ==
  [][\A t \in Workers :
       /\ until'[t] <= Total
       /\ Len(failures'[t]) > Len(failures[t]) /\ Last(failures'[t]) = "TimedOut" =>
            waited[t] > Total - TicksPerMs]_vars

(* A connect ends, though the peer is silent and signals keep coming        *)
(* (socket.cpp:65-68).                                                      *)
ConnectEnds ==
  \A t \in Workers : pc[t] = "create" ~> pc[t] \in {"bound", "threw"} \/ dead

=============================================================================
