---------------------------- MODULE ControlServer ----------------------------
(***************************************************************************)
(* The control socket of the fault library (src/fault/control.cpp): one    *)
(* acceptor thread that serves operators one after another, line by line,  *)
(* and a destructor that has to get it out of accept() or of an operator's *)
(* connection.                                                             *)
(*                                                                         *)
(* What an operator writes is a stream of pieces: a line is any number of  *)
(* "part"s and an "end".  Each recv returns some of what has arrived.      *)
(***************************************************************************)
EXTENDS Naturals, Sequences, FiniteSets, SequencesExt

CONSTANTS
  Operators,       \* the connections that will ever be made
  OnLoopback,      \* whether the socket is bound where 127.0.0.1 reaches it
  CallsMayFail,    \* whether accept or setsockopt may fail
  Window,          \* bound: pieces of one operator on their way
  MaxLines         \* bound: lines one operator finishes

Poke == "poke"
Nobody == "nobody"
ASSUME OperatorsAssumption == {Poke, Nobody} \cap Operators = {}
ASSUME SwitchesAssumption == OnLoopback \in BOOLEAN /\ CallsMayFail \in BOOLEAN
ASSUME BoundsAssumption == Window \in Nat /\ MaxLines \in Nat

Clients == Operators \cup {Poke}

VARIABLES
  acceptor,   \* "accepting", "reading", "answering", "leaving", "ended", "crashed"
  client,     \* whom it serves
  pending,    \* serve's local pending
  backlog,    \* connections made and not accepted
  link,       \* each operator's connection: "unused", "up", "left", "over"
  wire,       \* the pieces each has written and the server has not read
  lines,      \* lines each operator has finished
  obeyed,     \* lines of each operator that apply_command was given
  answered,   \* replies written to each operator
  stopping,   \* State::stopping
  owner       \* the destructor: "outside", "poking", "joining", "returned"

serving == <<acceptor, client, pending>>
stream == <<wire, lines>>
counts == <<obeyed, answered>>
vars == <<serving, backlog, link, stream, counts, stopping, owner>>

Init ==
  /\ acceptor = "accepting" /\ client = Nobody /\ pending = <<>>
  /\ backlog = <<>>
  /\ link = [o \in Operators |-> "unused"]
  /\ wire = [o \in Operators |-> <<>>]
  /\ lines = [o \in Operators |-> 0]
  /\ obeyed = [o \in Operators |-> 0]
  /\ answered = [o \in Operators |-> 0]
  /\ stopping = FALSE /\ owner = "outside"

Alive == acceptor \notin {"ended", "crashed"}

-----------------------------------------------------------------------------
(* Operators.                                                               *)

Connect(o) ==
  /\ Alive /\ link[o] = "unused"
  /\ link' = [link EXCEPT ![o] = "up"]
  /\ backlog' = Append(backlog, o)
  /\ UNCHANGED <<serving, stream, counts, stopping, owner>>

(* An operator need not come to the end of a line: he may write parts of    *)
(* one for ever.                                                            *)
Write(o) ==
  /\ link[o] = "up" /\ Len(wire[o]) < Window
  /\ \E piece \in {"part", "end"} :
       /\ piece = "end" => lines[o] < MaxLines
       /\ wire' = [wire EXCEPT ![o] = Append(@, piece)]
       /\ lines' = [lines EXCEPT ![o] = IF piece = "end" THEN @ + 1 ELSE @]
  /\ UNCHANGED <<serving, backlog, link, counts, stopping, owner>>

Leave(o) ==
  /\ link[o] = "up"
  /\ link' = [link EXCEPT ![o] = "left"]
  /\ UNCHANGED <<serving, backlog, stream, counts, stopping, owner>>

-----------------------------------------------------------------------------
(* The acceptor.                                                            *)

(* The connections in S are closed.                                         *)
Close(S) ==
  link' = [o \in Operators |-> IF o \in S /\ link[o] # "unused" THEN "over"
                               ELSE link[o]]

(* accept() returns a connection, and `stopping` is looked at then and only *)
(* then.  The thread that ends takes the listener's backlog with it.        *)
Accept ==
  /\ acceptor = "accepting" /\ backlog # <<>>
  /\ IF stopping
     THEN /\ acceptor' = "ended"
          /\ backlog' = <<>>
          /\ Close(ToSet(backlog))
          /\ UNCHANGED client
     ELSE /\ acceptor' = "reading"
          /\ client' = Head(backlog)
          /\ backlog' = Tail(backlog)
          /\ UNCHANGED link
  /\ UNCHANGED <<pending, stream, counts, stopping, owner>>

(* accept or set_timeouts throws, and nothing catches on this thread:       *)
(* std::terminate ends the whole process.                                   *)
Crash ==
  /\ CallsMayFail /\ acceptor = "accepting"
  /\ acceptor' = "crashed"
  /\ backlog' = <<>>
  /\ Close(Operators)
  /\ UNCHANGED <<client, pending, stream, counts, stopping, owner>>

(* recv returns some of what has arrived.                                   *)
Read ==
  /\ acceptor = "reading" /\ wire[client] # <<>>
  /\ \E k \in 1 .. Len(wire[client]) :
       /\ pending' = pending \o SubSeq(wire[client], 1, k)
       /\ wire' = [wire EXCEPT ![client] = SubSeq(@, k + 1, Len(@))]
  /\ acceptor' = "answering"
  /\ UNCHANGED <<client, backlog, link, lines, counts, stopping, owner>>

(* A slip: the read has no timeout.                                         *)
StopReadingLeft ==
  /\ acceptor = "reading" /\ link[client] = "left"
  /\ acceptor' = "leaving"
  /\ UNCHANGED <<client, pending, backlog, link, stream, counts, stopping, owner>>

(* recv returns 0, or read_some throws: the operator has been silent for    *)
(* the whole read timeout, or has left.  A reset by one who has left loses  *)
(* what he wrote before.                                                    *)
StopReading ==
  /\ acceptor = "reading" /\ (wire[client] = <<>> \/ link[client] = "left")
  /\ acceptor' = "leaving"
  /\ UNCHANGED <<client, pending, backlog, link, stream, counts, stopping, owner>>

(* serve returns and its Socket is destroyed, whatever has arrived since.   *)
Hangup ==
  /\ acceptor = "leaving"
  /\ acceptor' = "accepting" /\ client' = Nobody /\ pending' = <<>>
  /\ Close({client})
  /\ UNCHANGED <<backlog, stream, counts, stopping, owner>>

(* A slip: one line is taken from each read.                                *)
AnswerFirst ==
  /\ acceptor = "answering"
  /\ IF ~Contains(pending, "end")
     THEN acceptor' = "reading" /\ UNCHANGED <<pending, counts>>
     ELSE /\ pending' = SubSeq(pending, SelectInSeq(pending, LAMBDA p : p = "end") + 1,
                               Len(pending))
          /\ obeyed' = [obeyed EXCEPT ![client] = @ + 1]
          /\ answered' = [answered EXCEPT ![client] = @ + 1]
          /\ acceptor' = "reading"
  /\ UNCHANGED <<client, backlog, link, stream, stopping, owner>>

(* A slip: a line that is cut off is obeyed as it stands.                   *)
AnswerParts ==
  /\ acceptor = "answering"
  /\ IF pending = <<>>
     THEN acceptor' = "reading" /\ UNCHANGED <<pending, counts>>
     ELSE /\ pending' = Tail(pending)
          /\ obeyed' = [obeyed EXCEPT ![client] = @ + 1]
          /\ answered' = [answered EXCEPT ![client] = @ + 1]
          /\ UNCHANGED acceptor
  /\ UNCHANGED <<client, backlog, link, stream, stopping, owner>>

(* The loop over the whole lines of pending: obey one and write its reply.  *)
(* A reply that cannot be written, because the operator has left or has     *)
(* read nothing for the whole write timeout, ends the connection with the   *)
(* lines that are left.  How long a line is that is not finished makes no   *)
(* difference: one part of it stands for all.                               *)
Answer ==
  /\ acceptor = "answering"
  /\ \/ /\ ~Contains(pending, "end")
        /\ acceptor' = "reading"
        /\ pending' = IF pending = <<>> THEN <<>> ELSE <<"part">>
        /\ UNCHANGED counts
     \/ /\ Contains(pending, "end")
        /\ pending' = SubSeq(pending, SelectInSeq(pending, LAMBDA p : p = "end") + 1,
                              Len(pending))
        /\ obeyed' = [obeyed EXCEPT ![client] = @ + 1]
        /\ \/ /\ answered' = [answered EXCEPT ![client] = @ + 1]
              /\ UNCHANGED acceptor
           \/ /\ acceptor' = "leaving"
              /\ UNCHANGED answered
  /\ UNCHANGED <<client, backlog, link, stream, stopping, owner>>

-----------------------------------------------------------------------------
(* The destructor, on the owner's thread.                                   *)

Stop ==
  /\ owner = "outside" /\ acceptor # "crashed"
  /\ stopping' = TRUE
  /\ owner' = "poking"
  /\ UNCHANGED <<serving, backlog, link, stream, counts>>

(* The poke connects to 127.0.0.1, whatever host the socket is bound to.  A *)
(* failure to connect is passed over.                                       *)
PokeAcceptor ==
  /\ owner = "poking" /\ acceptor # "crashed"
  /\ owner' = "joining"
  /\ backlog' = IF OnLoopback /\ Alive THEN Append(backlog, Poke) ELSE backlog
  /\ UNCHANGED <<serving, link, stream, counts, stopping>>

JoinAcceptor ==
  /\ owner = "joining" /\ acceptor = "ended"
  /\ owner' = "returned"
  /\ UNCHANGED <<serving, backlog, link, stream, counts, stopping>>

-----------------------------------------------------------------------------
AcceptorStep == Accept \/ Read \/ StopReading \/ Hangup \/ Answer
OwnerStep == PokeAcceptor \/ JoinAcceptor

Over == (owner = "returned" \/ acceptor = "crashed") /\ UNCHANGED vars

Next ==
  \/ \E o \in Operators : Connect(o) \/ Write(o) \/ Leave(o)
  \/ AcceptorStep \/ Crash \/ Stop \/ OwnerStep \/ Over

(* The two threads run, and a read or a write ends at its timeout.  Nobody  *)
(* has to write, to fall silent, to leave or to stop.                       *)
Fairness == WF_vars(AcceptorStep) /\ WF_vars(OwnerStep)

Safety == Init /\ [][Next]_vars
Spec == Safety /\ Fairness

-----------------------------------------------------------------------------
(* Properties.                                                              *)

(* An operator's lines are obeyed in order, each at most once and only when *)
(* it has arrived whole, however the stream is cut up, and a line that is   *)
(* obeyed is answered: but for the last one, if the operator would not or   *)
(* could not take the reply, and nothing after it (control.cpp:26-66).      *)
Ends(s) == Cardinality({i \in DOMAIN s : s[i] = "end"})

Unobeyed(o) == Ends(IF client = o THEN pending \o wire[o] ELSE wire[o])

GivenUp(o) == link[o] = "over" \/ (client = o /\ acceptor = "leaving")

LinesObeyedOnce ==
  \A o \in Operators :
    /\ answered[o] <= obeyed[o] /\ obeyed[o] <= lines[o]
    /\ IF GivenUp(o) THEN obeyed[o] <= answered[o] + 1 ELSE answered[o] = obeyed[o]
    /\ link[o] # "over" => obeyed[o] + Unobeyed(o) = lines[o]

(* The server gives up an operator who is still there only when each line   *)
(* of his that has arrived is answered, or when the last reply could not be *)
(* written: no line is left in `pending` by a read that times out           *)
(* (control.cpp:33-41, 44-65).                                              *)
NoLineIsDropped ==
  [][\A o \in Operators :
       client = o /\ link[o] = "up" /\ acceptor # "leaving" /\ acceptor' = "leaving" =>
         answered[o] = lines[o] \/ obeyed'[o] = answered'[o] + 1]_vars

(* Once nobody writes any more.  An operator who sends a piece within each  *)
(* read timeout keeps the thread as long as he likes.                       *)
Silence == <>[][\A o \in Operators : ~Write(o)]_vars

(* An operator that opens the connection and walks away does not keep the   *)
(* next one out for the whole run (control.cpp:82-84).                      *)
EveryOperatorGetsTheThread ==
  \A o \in Operators : link[o] = "up" ~> client = o \/ link[o] # "up"

(* The destructor returns.  What control.cpp:93 says: the poke unblocks the *)
(* accept, the acceptor sees `stopping` and returns.                        *)
DestructorReturns == stopping ~> owner = "returned" \/ acceptor = "crashed"

(* The one thread comes back from every operator who falls silent, to the   *)
(* next one and to the destructor.                                          *)
TheThreadComesBack == Silence => EveryOperatorGetsTheThread /\ DestructorReturns

=============================================================================
