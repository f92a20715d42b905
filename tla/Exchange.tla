------------------------------ MODULE Exchange ------------------------------
(***************************************************************************)
(* One connection of the generator at a time against the target of the     *)
(* repository: perform_request (src/load/exchange.cpp) over Socket's reads *)
(* and writes (src/core/socket.cpp), framed by RawEcho                     *)
(* (src/load/raw_echo.cpp), and dariyanaap-null with a thread a connection,*)
(* its stalls, its drops and its hang (apps/dariyanaap_null.cpp).          *)
(*                                                                         *)
(* A stream carries pieces of requests and replies, and a piece is known by*)
(* the number of the request it belongs to -- which the program cannot see:*)
(* it counts bytes.  A stream holds what the kernels and the network hold, *)
(* so a read may time out while a reply is under way.                      *)
(***************************************************************************)
EXTENDS Accounts, Sequences, SequencesExt

CONSTANTS
  Payload,       \* pieces in a request, and in its echo
  BufferPieces,  \* pieces the target reads at most, at least one payload
  Window,        \* pieces a stream holds
  Requests,      \* bound: requests made
  MayRepeat      \* whether the target may write a reply twice

ASSUME PayloadAssumption == Payload \in Nat \ {0}   \* RawEcho refuses zero
ASSUME BufferAssumption == BufferPieces \in Nat /\ BufferPieces >= Payload
ASSUME WindowAssumption == Window \in Nat \ {0} /\ MayRepeat \in BOOLEAN
ASSUME BoundAssumption == Requests \in Nat

Conns == 1 .. Requests
None == 0

VARIABLES
  req,        \* the number of the latest request
  doing,      \* the worker: "between" requests, "writing", "reading", "stopped"
  conn,       \* its connection, or None
  left,       \* pieces of the request it has still to write
  received,   \* what perform_request has gathered
  outcome,    \* what the latest exchange came to
  opened,     \* connections made
  hungup,     \* connections the worker has closed
  up, down,   \* the two streams of each connection
  srv,        \* the target's thread for it: "unborn", "queued", "reading",
              \* "holding" a request, "writing", "gone"
  have,       \* what the thread has read of the present request
  out,        \* what it has still to write of the reply
  stalled,    \* g_stalled
  again,      \* connections on which a reply was written twice
  hung        \* whether its environment asked for a hang, which nothing lifts

worker == <<req, doing, conn, left, received, outcome, opened, hungup>>
target == <<srv, have, out, stalled, again, hung>>
vars == <<worker, up, down, target>>

Put(f, k, v) == [f EXCEPT ![k] = v]
Copies(n, tag) == [i \in 1 .. n |-> tag]
Room(stream) == Window - Len(stream)
Lesser(a, b) == IF a <= b THEN a ELSE b

Init ==
  /\ req = 0 /\ doing = "between" /\ conn = None /\ left = 0
  /\ received = <<>> /\ outcome = "none" /\ opened = 0 /\ hungup = {}
  /\ up = [k \in Conns |-> <<>>] /\ down = [k \in Conns |-> <<>>]
  /\ srv = [k \in Conns |-> "unborn"]
  /\ have = [k \in Conns |-> <<>>] /\ out = [k \in Conns |-> <<>>]
  /\ stalled = FALSE /\ again = {} /\ hung \in BOOLEAN

-----------------------------------------------------------------------------
(* The worker.                                                              *)

Connect ==
  /\ doing = "between" /\ conn = None /\ req < Requests
  /\ opened' = opened + 1 /\ conn' = opened + 1
  /\ srv' = Put(srv, opened + 1, "queued")
  /\ UNCHANGED <<req, doing, left, received, outcome, hungup, up, down, have,
                 out, stalled, again, hung>>

StartRequest ==
  /\ doing = "between" /\ conn # None /\ req < Requests
  /\ req' = req + 1 /\ doing' = "writing"
  /\ left' = Payload /\ received' = <<>> /\ outcome' = "none"
  /\ UNCHANGED <<conn, opened, hungup, up, down, target>>

(* The deadline: the worker returns and its socket is closed.               *)
Stop ==
  /\ doing = "between"
  /\ doing' = "stopped" /\ conn' = None
  /\ hungup' = hungup \cup ({conn} \ {None})
  /\ UNCHANGED <<req, left, received, outcome, opened, up, down, target>>

(* The exchange returns; the worker keeps the connection if it may.         *)
End(result) ==
  /\ outcome' = result /\ doing' = "between"
  /\ IF Usable(result) THEN UNCHANGED <<conn, hungup>>
     ELSE conn' = None /\ hungup' = hungup \cup {conn}
  /\ UNCHANGED <<req, opened, target>>

(* write_all: send takes some of what is left, and is asked again.          *)
Write ==
  /\ doing = "writing"
  /\ \E n \in 1 .. Lesser(left, Room(up[conn])) :
       /\ up' = Put(up, conn, up[conn] \o Copies(n, req))
       /\ left' = left - n
       /\ doing' = IF left = n THEN "reading" ELSE "writing"
  /\ UNCHANGED <<req, conn, received, outcome, opened, hungup, down, target>>

(* The send timeout, when the target does not read; a reset.                *)
WriteEnds ==
  /\ doing = "writing"
  /\ \/ Room(up[conn]) = 0 /\ End("TimedOut")
     \/ srv[conn] = "gone" /\ End("WriteFailed")
  /\ UNCHANGED <<left, received, up, down>>

(* A slip: whatever arrives is taken for a reply.                           *)
ConsumeAnything(pieces) == "Complete"

(* RawEcho::consume.                                                        *)
Consume(pieces) ==
  CASE Len(pieces) < Payload -> "NeedMore"
    [] Len(pieces) = Payload -> "Complete"
    [] Len(pieces) > Payload -> "Malformed"

(* One turn of perform_request's loop that received something.              *)
Read ==
  /\ doing = "reading"
  /\ \E n \in 1 .. Len(down[conn]) :
       LET got == received \o SubSeq(down[conn], 1, n)
       IN  /\ received' = got
           /\ down' = Put(down, conn, SubSeq(down[conn], n + 1, Len(down[conn])))
           /\ \/ /\ Consume(got) = "NeedMore"
                 /\ UNCHANGED <<req, doing, conn, outcome, opened, hungup, target>>
              \/ Consume(got) = "Complete" /\ End("Succeeded")
              \/ Consume(got) = "Malformed" /\ End("ProtocolError")
  /\ UNCHANGED <<left, up>>

(* A slip: zero bytes are not taken for the end of the stream.              *)
ReadPastEnd ==
  /\ doing = "reading" /\ srv[conn] # "gone" /\ End("TimedOut")
  /\ UNCHANGED <<left, received, up, down>>

(* The read timeout, whether no reply was written or one is still under     *)
(* way; the end of the stream; a reset, which may overtake what was written.*)
ReadEnds ==
  /\ doing = "reading"
  /\ \/ End("TimedOut")
     \/ /\ srv[conn] = "gone" /\ (down[conn] = <<>> \/ up[conn] # <<>>)
        /\ End("ReadFailed")
  /\ UNCHANGED <<left, received, up, down>>

-----------------------------------------------------------------------------
(* The target: main, the stall thread, and serve on each connection.        *)

Accept(k) ==
  /\ srv[k] = "queued"
  /\ srv' = Put(srv, k, "reading")
  /\ UNCHANGED <<worker, up, down, have, out, stalled, again, hung>>

(* stall_periodically.                                                      *)
FlipStall ==
  /\ stalled' = ~stalled
  /\ UNCHANGED <<worker, up, down, srv, have, out, again, hung>>

(* Until a payload is there; the buffer may take more than that.            *)
TargetReads(k) ==
  /\ srv[k] = "reading"
  /\ \E n \in 1 .. Lesser(Len(up[k]), BufferPieces - Len(have[k])) :
       LET got == have[k] \o SubSeq(up[k], 1, n)
       IN  /\ have' = Put(have, k, got)
           /\ srv' = Put(srv, k, IF Len(got) < Payload THEN "reading" ELSE "holding")
           /\ up' = Put(up, k, SubSeq(up[k], n + 1, Len(up[k])))
  /\ UNCHANGED <<worker, down, out, stalled, again, hung>>

(* A slip: zero bytes are read again rather than taken for a hang-up.       *)
TargetIgnoresEnd(k) ==
  /\ srv[k] = "reading" /\ up[k] = <<>> /\ k \notin hungup
  /\ srv' = Put(srv, k, "gone")
  /\ UNCHANGED <<worker, up, down, have, out, stalled, again, hung>>

(* serve returns: the worker has hung up, or nothing came for the target's  *)
(* own timeout.                                                             *)
TargetLeaves(k) ==
  /\ srv[k] = "reading" /\ (up[k] = <<>> \/ k \in hungup)
  /\ srv' = Put(srv, k, "gone")
  /\ UNCHANGED <<worker, up, down, have, out, stalled, again, hung>>

(* The stall is over and before_response has returned, which it never does  *)
(* under a hang: the reply is dropped or begun.                             *)
Answer(k) ==
  /\ srv[k] = "holding" /\ ~stalled /\ ~hung
  /\ \/ /\ srv' = Put(srv, k, "reading")
        /\ have' = Put(have, k, <<>>)
        /\ UNCHANGED out
     \/ /\ srv' = Put(srv, k, "writing")
        /\ out' = Put(out, k, SubSeq(have[k], 1, Payload))
        /\ UNCHANGED have
  /\ UNCHANGED <<worker, up, down, stalled, again, hung>>

(* write_all.  The last disjunct is a target that is not this one.          *)
TargetWrites(k) ==
  /\ srv[k] = "writing"
  /\ \E n \in 1 .. Lesser(Len(out[k]), Room(down[k])) :
       /\ down' = Put(down, k, down[k] \o SubSeq(out[k], 1, n))
       /\ \/ /\ n < Len(out[k])
             /\ out' = Put(out, k, SubSeq(out[k], n + 1, Len(out[k])))
             /\ UNCHANGED <<srv, have, again>>
          \/ /\ n = Len(out[k])
             /\ srv' = Put(srv, k, "reading")
             /\ have' = Put(have, k, <<>>)
             /\ out' = Put(out, k, <<>>)
             /\ UNCHANGED again
          \/ /\ MayRepeat /\ k \notin again /\ n = Len(out[k])
             /\ out' = Put(out, k, SubSeq(have[k], 1, Payload))
             /\ again' = again \cup {k}
             /\ UNCHANGED <<srv, have>>
  /\ UNCHANGED <<worker, up, stalled, hung>>

(* A write fails once the worker has hung up, or at the send timeout.       *)
TargetGivesUp(k) ==
  /\ srv[k] = "writing" /\ (k \in hungup \/ Room(down[k]) = 0)
  /\ srv' = Put(srv, k, "gone")
  /\ UNCHANGED <<worker, up, down, have, out, stalled, again, hung>>

-----------------------------------------------------------------------------
WorkerStep ==
  Connect \/ StartRequest \/ Stop \/ Write \/ WriteEnds \/ Read \/ ReadEnds

ThreadStep(k) ==
  \/ Accept(k) \/ TargetReads(k) \/ TargetLeaves(k) \/ Answer(k)
  \/ TargetWrites(k) \/ TargetGivesUp(k)

Next == WorkerStep \/ FlipStall \/ \E k \in Conns : ThreadStep(k)

(* Every thread runs, the worker's reads and writes are bounded, and a      *)
(* stall lasts and pauses long enough for the threads, which look every     *)
(* millisecond, to see it end.  A hang is not assumed to.                   *)
Fairness ==
  WF_vars(WorkerStep) /\ WF_vars(FlipStall) /\ \A k \in Conns : SF_vars(ThreadStep(k))

Safety == Init /\ [][Next]_vars
Spec == Safety /\ Fairness

-----------------------------------------------------------------------------
(* Properties.                                                              *)

(* A reply that is counted is the reply to the request it is counted for,   *)
(* whatever was dropped, stalled or late before it on the same target: the  *)
(* stream never falls out of step (exchange.hpp:33-39).                     *)
RepliesAreOwn ==
  doing = "between" /\ outcome = "Succeeded" /\ conn \notin again =>
    ToSet(received) = {req}

(* A connection that carries another request is clean: nothing of an earlier*)
(* request is still in either stream or with the target, which has no place *)
(* for what it reads past a payload and would lose it                       *)
(* (exchange.hpp:33-40, dariyanaap_null.cpp:84-91).                         *)
ReusedClean ==
  [][req' > req /\ conn \notin again =>
       up[conn] = <<>> /\ down[conn] = <<>> /\ have[conn] = <<>> /\ out[conn] = <<>>]_vars

(* Every request ends, though the target may drop it, stall, or stop        *)
(* reading in the middle of it (exchange.cpp:20-77).                        *)
EveryRequestEnds == doing \in {"writing", "reading"} ~> doing \in {"between", "stopped"}

(* A thread of the target does not outlive its connection, but for one that *)
(* a hang has caught with a request in its hands: before_response keeps it  *)
(* whatever the worker does (dariyanaap_null.cpp:87-89, 99-101, 107-108,    *)
(* 189-192).                                                                *)
ThreadsEnd ==
  \A k \in Conns :
    k \in hungup ~> srv[k] = "gone" \/ (hung /\ srv[k] = "holding")

(* Neither side waits for the other for ever, a hung target excepted.       *)
BothSidesEnd == EveryRequestEnds /\ ThreadsEnd

=============================================================================
