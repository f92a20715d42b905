--------------------------- MODULE Exchange_proofs ---------------------------
(***************************************************************************)
(* Theorems about Exchange, for every payload, window, target's buffer and *)
(* number of requests: requests and replies stay in step.                  *)
(***************************************************************************)
EXTENDS Exchange, TLAPS

Labels == {"unborn", "queued", "reading", "holding", "writing", "gone"}
Streams == [Conns -> Seq(Nat)]
Exchanging == doing \in {"writing", "reading"}

Shape ==
  /\ req \in Nat /\ doing \in {"between", "writing", "reading", "stopped"}
  /\ conn \in Conns \cup {None} /\ left \in Nat /\ received \in Seq(Nat)
  /\ opened \in Nat
  /\ up \in Streams /\ down \in Streams /\ have \in Streams /\ out \in Streams
  /\ srv \in [Conns -> Labels]
  /\ \A k \in Conns : srv[k] \in {"holding", "writing"} => Payload <= Len(have[k])

(* A connection is made for a request, and until it is there is nothing on  *)
(* it.                                                                      *)
Numbered ==
  /\ conn = None => doing \in {"between", "stopped"}
  /\ conn = None /\ doing = "between" => opened <= req
  /\ conn # None => conn <= opened
  /\ doing = "between" => opened <= req + 1
  /\ Exchanging => opened <= req
  /\ req <= Requests
  /\ \A k \in Conns : k > opened =>
       /\ srv[k] = "unborn"
       /\ up[k] = <<>> /\ down[k] = <<>> /\ have[k] = <<>> /\ out[k] = <<>>

(* The pieces of the present request are with the worker, on the way, with  *)
(* the target or on the way back, and where they are says what comes next.  *)
Clean(k) ==
  /\ up[k] = <<>> /\ down[k] = <<>> /\ have[k] = <<>> /\ out[k] = <<>>
  /\ srv[k] \in {"queued", "reading", "gone"}

Own(s) == s \in Seq({req})

AllOwn(k) == Own(up[k]) /\ Own(down[k]) /\ Own(have[k]) /\ Own(out[k]) /\ Own(received)

Sending(k) ==
  /\ left \in 1 .. Payload /\ left + Len(up[k]) + Len(have[k]) = Payload
  /\ Len(down[k]) = 0 /\ Len(out[k]) = 0 /\ Len(received) = 0
  /\ srv[k] \in {"queued", "reading", "gone"}

(* A target's thread at s, with u pieces on the way to it, h in its buffer, *)
(* o to be written and a answered, of which the worker has r.               *)
Await(s, u, h, o, a, r) ==
  /\ r < Payload /\ s # "unborn"
  /\ s \in {"queued", "reading"} =>
       \/ a = Payload /\ u = 0 /\ h = 0 /\ o = 0
       \/ a = 0 /\ o = 0 /\ h < Payload /\ (u + h = 0 \/ u + h = Payload)
  /\ s = "holding" => u = 0 /\ h = Payload /\ o = 0 /\ a = 0
  /\ s = "writing" => u = 0 /\ h = Payload /\ o > 0 /\ o + a = Payload
  /\ s = "gone" => a < Payload \/ (a = Payload /\ u = 0 /\ h = 0 /\ o = 0)

Awaiting(k) ==
  Await(srv[k], Len(up[k]), Len(have[k]), Len(out[k]), Len(down[k]) + Len(received),
        Len(received))

Step(k) ==
  /\ doing = "between" => Clean(k)
  /\ Exchanging => AllOwn(k)
  /\ doing = "writing" => Sending(k)
  /\ doing = "reading" => Awaiting(k)

InStep == conn # None /\ conn \notin again => Step(conn)

Replied ==
  doing = "between" /\ outcome = "Succeeded" =>
    /\ conn # None
    /\ conn \notin again => Own(received) /\ Len(received) = Payload

IStep == Shape /\ Numbered /\ InStep /\ Replied

USE PayloadAssumption, BufferAssumption, WindowAssumption, BoundAssumption DEF Conns, None

-----------------------------------------------------------------------------
(* Sequences.                                                               *)

(* The two parts of what is cut.                                            *)
LEMMA Parts ==
  ASSUME NEW S, NEW s \in Seq(S), NEW n \in 0 .. Len(s)
  PROVE  /\ SubSeq(s, 1, n) \in Seq(S) /\ Len(SubSeq(s, 1, n)) = n
         /\ SubSeq(s, n + 1, Len(s)) \in Seq(S)
         /\ Len(SubSeq(s, n + 1, Len(s))) = Len(s) - n
  OBVIOUS

(* What is put together.                                                    *)
LEMMA Joined ==
  ASSUME NEW S, NEW s \in Seq(S), NEW t \in Seq(S)
  PROVE  s \o t \in Seq(S) /\ Len(s \o t) = Len(s) + Len(t)
  OBVIOUS

LEMMA CopiesAre ==
  ASSUME NEW S, NEW tag \in S, NEW n \in Nat
  PROVE  Copies(n, tag) \in Seq(S) /\ Len(Copies(n, tag)) = n
  BY DEF Copies

LEMMA NothingLeft ==
  ASSUME NEW S, NEW s \in Seq(S)
  PROVE  Len(s) \in Nat /\ (Len(s) = 0 <=> s = <<>>) /\ <<>> \in Seq(S) /\ Len(<<>>) = 0
  OBVIOUS

LEMMA Sizes == Payload \in Nat /\ Payload > 0 /\ BufferPieces \in Nat
  OBVIOUS

(* What the target's thread may do while it is waited for.                  *)
LEMMA Awaited ==
  ASSUME NEW u \in Nat, NEW h \in Nat, NEW o \in Nat, NEW a \in Nat, NEW r \in Nat
  PROVE  /\ Await("queued", u, h, o, a, r) => Await("reading", u, h, o, a, r)
         /\ Await("reading", u, h, o, a, r) => Await("gone", u, h, o, a, r)
         /\ Await("writing", u, h, o, a, r) => Await("gone", u, h, o, a, r)
         /\ Await("holding", u, h, o, a, r) =>
              /\ h = Payload /\ Await("reading", u, 0, o, a, r)
              /\ Await("writing", u, h, Payload, a, r)
         /\ \A n \in 1 .. u : Await("reading", u, h, o, a, r) =>
              Await(IF h + n < Payload THEN "reading" ELSE "holding", u - n, h + n, o, a, r)
         /\ \A n \in 1 .. o : Await("writing", u, h, o, a, r) =>
              /\ n < o => Await("writing", u, h, o - n, a + n, r)
              /\ n = o => Await("reading", u, 0, 0, a + n, r)
  BY Sizes DEF Await

LEMMA AwaitingNext ==
  ASSUME conn' = conn,
         Await(srv'[conn], Len(up'[conn]), Len(have'[conn]), Len(out'[conn]),
               Len(down'[conn]) + Len(received'), Len(received'))
  PROVE  Awaiting(conn)'
  BY DEF Awaiting, Await

LEMMA InitStep == Init => IStep
  BY DEF Init, IStep, Shape, Numbered, InStep, Replied, Streams, Labels, Exchanging

-----------------------------------------------------------------------------
(* The target.                                                              *)

(* Whose thread takes a step.                                               *)
LEMMA ThreadIsBorn ==
  ASSUME NEW k \in Conns, ThreadStep(k)
  PROVE  /\ srv[k] # "unborn" /\ worker' = worker /\ again \subseteq again'
  BY DEF ThreadStep, Accept, TargetReads, TargetLeaves, Answer, TargetWrites, TargetGivesUp

(* A step of a thread leaves the streams of pieces, and the others' alone.  *)
LEMMA ThreadShape ==
  ASSUME NEW k \in Conns, Shape, ThreadStep(k)
  PROVE  /\ Shape'
         /\ \A j \in Conns \ {k} :
              /\ up'[j] = up[j] /\ down'[j] = down[j] /\ have'[j] = have[j]
              /\ out'[j] = out[j] /\ srv'[j] = srv[j]
<1>0. /\ up[k] \in Seq(Nat) /\ down[k] \in Seq(Nat) /\ have[k] \in Seq(Nat)
      /\ out[k] \in Seq(Nat)
  BY DEF Shape, Streams
<1> USE DEF Put, Shape, Streams, Labels
<1>1. CASE Accept(k)
  BY <1>1 DEF Accept, worker
<1>2. CASE TargetReads(k)
  <2>1. PICK n \in 1 .. Lesser(Len(up[k]), BufferPieces - Len(have[k])) :
          /\ have' = Put(have, k, have[k] \o SubSeq(up[k], 1, n))
          /\ srv' = Put(srv, k, IF Len(have[k] \o SubSeq(up[k], 1, n)) < Payload
                               THEN "reading" ELSE "holding")
          /\ up' = Put(up, k, SubSeq(up[k], n + 1, Len(up[k])))
    BY <1>2 DEF TargetReads
  <2>2. n \in 0 .. Len(up[k])
    BY <1>0, <2>1 DEF Lesser
  <2>3. SubSeq(up[k], 1, n) \in Seq(Nat) /\ SubSeq(up[k], n + 1, Len(up[k])) \in Seq(Nat)
    BY <1>0, <2>2, Parts
  <2>4. have[k] \o SubSeq(up[k], 1, n) \in Seq(Nat)
    BY <1>0, <2>3, Joined
  <2>5. UNCHANGED <<worker, down, out>>
    BY <1>2 DEF TargetReads
  <2> QED
    BY <2>1, <2>3, <2>4, <2>5, SMTT(60) DEF worker
<1>3. CASE TargetLeaves(k)
  BY <1>3 DEF TargetLeaves, worker
<1>4. CASE Answer(k)
  <2>1. UNCHANGED <<worker, up, down>>
    BY <1>4 DEF Answer
  <2>2. CASE /\ srv' = Put(srv, k, "reading") /\ have' = Put(have, k, <<>>)
             /\ UNCHANGED out
    BY <2>1, <2>2 DEF worker
  <2>3. CASE /\ srv' = Put(srv, k, "writing") /\ UNCHANGED have
             /\ out' = Put(out, k, SubSeq(have[k], 1, Payload))
    <3>1. SubSeq(have[k], 1, Payload) \in Seq(Nat)
      <4>1. Payload \in 0 .. Len(have[k])
        BY <1>0, <1>4 DEF Answer
      <4> QED
        BY <1>0, <4>1, Parts
    <3> QED
      BY <1>4, <2>1, <2>3, <3>1 DEF Answer, worker
  <2> QED
    BY <1>4, <2>2, <2>3 DEF Answer
<1>5. CASE TargetWrites(k)
  <2>1. PICK n \in 1 .. Lesser(Len(out[k]), Room(down[k])) :
          /\ down' = Put(down, k, down[k] \o SubSeq(out[k], 1, n))
          /\ \/ /\ out' = Put(out, k, SubSeq(out[k], n + 1, Len(out[k])))
                /\ UNCHANGED <<srv, have>>
             \/ /\ srv' = Put(srv, k, "reading") /\ have' = Put(have, k, <<>>)
                /\ out' = Put(out, k, <<>>)
             \/ /\ out' = Put(out, k, SubSeq(have[k], 1, Payload))
                /\ UNCHANGED <<srv, have>>
    BY <1>5 DEF TargetWrites
  <2>2. n \in 0 .. Len(out[k])
    BY <1>0, <2>1 DEF Lesser, Room
  <2>3. SubSeq(out[k], 1, n) \in Seq(Nat) /\ SubSeq(out[k], n + 1, Len(out[k])) \in Seq(Nat)
    BY <1>0, <2>2, Parts
  <2>4. down[k] \o SubSeq(out[k], 1, n) \in Seq(Nat)
    BY <1>0, <2>3, Joined
  <2>5. UNCHANGED <<worker, up>>
    BY <1>5 DEF TargetWrites
  <2>6. SubSeq(have[k], 1, Payload) \in Seq(Nat)
    <3>1. Payload \in 0 .. Len(have[k])
      BY <1>0, <1>5 DEF TargetWrites
    <3> QED
      BY <1>0, <3>1, Parts
  <2>7. /\ UNCHANGED <<req, doing, conn, left, received, opened, up>>
        /\ down' \in Streams
        /\ \A j \in Conns \ {k} : down'[j] = down[j]
    BY <2>1, <2>4, <2>5 DEF worker
  <2>8. CASE /\ out' = Put(out, k, SubSeq(out[k], n + 1, Len(out[k])))
             /\ UNCHANGED <<srv, have>>
    BY <2>3, <2>7, <2>8
  <2>9. CASE /\ srv' = Put(srv, k, "reading") /\ have' = Put(have, k, <<>>)
             /\ out' = Put(out, k, <<>>)
    BY <2>7, <2>9
  <2>10. CASE out' = Put(out, k, SubSeq(have[k], 1, Payload)) /\ UNCHANGED <<srv, have>>
    BY <2>6, <2>7, <2>10
  <2> QED
    BY <2>1, <2>8, <2>9, <2>10
<1>6. CASE TargetGivesUp(k)
  BY <1>6 DEF TargetGivesUp, worker
<1> QED
  BY <1>1, <1>2, <1>3, <1>4, <1>5, <1>6 DEF ThreadStep

(* The thread of the connection in use moves the pieces of the present      *)
(* request on, and loses or doubles none.                                   *)
LEMMA ThreadInStep ==
  ASSUME IStep, conn # None, conn \notin again', ThreadStep(conn)
  PROVE  Step(conn)'
<1> DEFINE k == conn
<1>1. /\ k \in Conns /\ Step(k) /\ UNCHANGED <<req, doing, conn, left, received>>
      /\ Len(received) \in Nat
  BY ThreadIsBorn DEF IStep, InStep, Shape, worker
<1>2. /\ up[k] \in Seq(Nat) /\ down[k] \in Seq(Nat) /\ have[k] \in Seq(Nat)
      /\ out[k] \in Seq(Nat)
      /\ Len(up[k]) \in Nat /\ Len(down[k]) \in Nat /\ Len(have[k]) \in Nat
      /\ Len(out[k]) \in Nat
  BY <1>1 DEF IStep, Shape, Streams
<1>3. srv \in [Conns -> Labels] /\ up \in Streams /\ down \in Streams
      /\ have \in Streams /\ out \in Streams
  BY DEF IStep, Shape
<1>a. ASSUME Await(srv'[k], Len(up'[k]), Len(have'[k]), Len(out'[k]),
                   Len(down'[k]) + Len(received'), Len(received'))
      PROVE  Awaiting(k)'
  BY <1>1, <1>a, AwaitingNext
<1>b. Len(down[k]) + Len(received) \in Nat
  BY <1>1, <1>2
<1> DEFINE u == Len(up[k])
           h == Len(have[k])
           o == Len(out[k])
           a == Len(down[k]) + Len(received)
           r == Len(received)
<1>c. Awaiting(k) => Await(srv[k], u, h, o, a, r)
  BY DEF Awaiting
<1>d. u \in Nat /\ h \in Nat /\ o \in Nat /\ a \in Nat /\ r \in Nat
  BY <1>1, <1>2, <1>b
<1> HIDE DEF k, u, h, o, a, r
<1> USE DEF Put, Streams
<1>4. CASE Accept(k)
  <2>1. srv'[k] = "reading" /\ UNCHANGED <<up, down, have, out>> /\ srv[k] = "queued"
    BY <1>1, <1>3, <1>4 DEF Accept
  <2>2. ASSUME Awaiting(k) PROVE Awaiting(k)'
    <3>1. Await("queued", u, h, o, a, r)
      BY <1>c, <2>1, <2>2
    <3>2. Await("reading", u, h, o, a, r)
      BY <1>d, <3>1, Awaited
    <3> QED
      BY <1>1, <1>a, <2>1, <3>2 DEF u, h, o, a, r
  <2>3. (AllOwn(k) => AllOwn(k)') /\ (Clean(k) => Clean(k)') /\ (Sending(k) => Sending(k)')
    BY <1>1, <2>1 DEF AllOwn, Own, Clean, Sending, k
  <2> QED
    BY <1>1, <2>2, <2>3 DEF Step, Exchanging, k
<1>5. CASE TargetLeaves(k)
  <2>1. srv'[k] = "gone" /\ UNCHANGED <<up, down, have, out>> /\ srv[k] = "reading"
    BY <1>1, <1>3, <1>5 DEF TargetLeaves
  <2>2. ASSUME Awaiting(k) PROVE Awaiting(k)'
    <3>1. Await("reading", u, h, o, a, r)
      BY <1>c, <2>1, <2>2
    <3>2. Await("gone", u, h, o, a, r)
      BY <1>d, <3>1, Awaited
    <3> QED
      BY <1>1, <1>a, <2>1, <3>2 DEF u, h, o, a, r
  <2>3. (AllOwn(k) => AllOwn(k)') /\ (Clean(k) => Clean(k)') /\ (Sending(k) => Sending(k)')
    BY <1>1, <2>1 DEF AllOwn, Own, Clean, Sending, k
  <2> QED
    BY <1>1, <2>2, <2>3 DEF Step, Exchanging, k
<1>6. CASE TargetGivesUp(k)
  <2>1. srv'[k] = "gone" /\ UNCHANGED <<up, down, have, out>> /\ srv[k] = "writing"
    BY <1>1, <1>3, <1>6 DEF TargetGivesUp
  <2>2. ASSUME Awaiting(k) PROVE Awaiting(k)'
    <3>1. Await("writing", u, h, o, a, r)
      BY <1>c, <2>1, <2>2
    <3>2. Await("gone", u, h, o, a, r)
      BY <1>d, <3>1, Awaited
    <3> QED
      BY <1>1, <1>a, <2>1, <3>2 DEF u, h, o, a, r
  <2>3. (AllOwn(k) => AllOwn(k)') /\ (Clean(k) => Clean(k)') /\ (Sending(k) => Sending(k)')
    BY <1>1, <2>1 DEF AllOwn, Own, Clean, Sending, k
  <2> QED
    BY <1>1, <2>2, <2>3 DEF Step, Exchanging, k
<1>7. CASE Answer(k)
  <2>1. /\ srv[k] = "holding" /\ UNCHANGED <<up, down>>
        /\ \/ srv'[k] = "reading" /\ have'[k] = <<>> /\ out'[k] = out[k]
           \/ /\ srv'[k] = "writing" /\ have'[k] = have[k]
              /\ out'[k] = SubSeq(have[k], 1, Payload)
    BY <1>1, <1>3, <1>7 DEF Answer
  <2>2. doing # "between" /\ doing # "writing"
    BY <1>1, <2>1 DEF Step, Clean, Sending, Exchanging
  <2>3. CASE doing = "reading"
    <3>0. Await("holding", u, h, o, a, r) /\ AllOwn(k)
      BY <1>1, <1>c, <2>1, <2>3 DEF Step, Exchanging
    <3>a. h = Payload /\ Await("reading", u, 0, o, a, r) /\ Await("writing", u, h, Payload, a, r)
      BY <1>d, <3>0, Awaited
    <3>1. AllOwn(k) /\ Len(have[k]) = Payload
      BY <3>0, <3>a DEF h
    <3>2. Own(SubSeq(have[k], 1, Payload)) /\ Len(SubSeq(have[k], 1, Payload)) = Payload
      BY <3>1, Parts, Sizes DEF AllOwn, Own
    <3>3. Own(<<>>) /\ Len(<<>>) = 0
      BY NothingLeft DEF Own
    <3>4. AllOwn(k)'
      BY <1>1, <2>1, <3>1, <3>2, <3>3 DEF AllOwn, Own, k
    <3>5. Awaiting(k)'
      <4>1. Len(up'[k]) = u /\ Len(down'[k]) + Len(received') = a /\ Len(received') = r
        BY <1>1, <2>1 DEF u, a, r
      <4>2. CASE srv'[k] = "reading" /\ have'[k] = <<>> /\ out'[k] = out[k]
        <5>1. Len(have'[k]) = 0 /\ Len(out'[k]) = o
          BY <3>3, <4>2 DEF o
        <5> QED
          BY <1>a, <3>a, <4>1, <4>2, <5>1
      <4>3. CASE /\ srv'[k] = "writing" /\ have'[k] = have[k]
                 /\ out'[k] = SubSeq(have[k], 1, Payload)
        <5>1. Len(have'[k]) = h /\ Len(out'[k]) = Payload
          BY <3>2, <4>3 DEF h
        <5> QED
          BY <1>a, <3>a, <4>1, <4>3, <5>1
      <4> QED
        BY <2>1, <4>2, <4>3
    <3> QED
      BY <1>1, <2>3, <3>4, <3>5 DEF Step, k
  <2> QED
    BY <1>1, <2>2, <2>3 DEF Step, Exchanging, k
<1>8. CASE TargetReads(k)
  <2>1. PICK n \in 1 .. Lesser(Len(up[k]), BufferPieces - Len(have[k])) :
          /\ have' = Put(have, k, have[k] \o SubSeq(up[k], 1, n))
          /\ srv' = Put(srv, k, IF Len(have[k] \o SubSeq(up[k], 1, n)) < Payload
                               THEN "reading" ELSE "holding")
          /\ up' = Put(up, k, SubSeq(up[k], n + 1, Len(up[k])))
    BY <1>8 DEF TargetReads
  <2>2. n \in Nat /\ n > 0 /\ n \in 0 .. Len(up[k]) /\ srv[k] = "reading" /\ UNCHANGED <<down, out>>
    <3>1. srv[k] = "reading" /\ UNCHANGED <<down, out>>
      BY <1>8 DEF TargetReads
    <3>2. Lesser(u, BufferPieces - h) \in Int /\ Lesser(u, BufferPieces - h) <= u
      BY <1>d, Sizes DEF Lesser
    <3>3. n \in 1 .. Lesser(u, BufferPieces - h)
      BY <2>1 DEF u, h
    <3>4. n \in Nat /\ n > 0 /\ n \in 0 .. u
      BY <1>d, <3>2, <3>3
    <3> QED
      BY <3>1, <3>4 DEF u
  <2>3. /\ Len(up'[k]) = Len(up[k]) - n /\ Len(have'[k]) = Len(have[k]) + n
        /\ srv'[k] = IF Len(have'[k]) < Payload THEN "reading" ELSE "holding"
    <3>1. /\ SubSeq(up[k], 1, n) \in Seq(Nat) /\ Len(SubSeq(up[k], 1, n)) = n
          /\ Len(SubSeq(up[k], n + 1, Len(up[k]))) = Len(up[k]) - n
      BY <1>2, <2>2, Parts
    <3>2. Len(have[k] \o SubSeq(up[k], 1, n)) = Len(have[k]) + n
      BY <1>2, <3>1, Joined
    <3> QED
      BY <1>1, <1>3, <2>1, <3>1, <3>2 DEF k
  <2>4. Own(up[k]) /\ Own(have[k]) => Own(up'[k]) /\ Own(have'[k])
    <3> SUFFICES ASSUME Own(up[k]), Own(have[k]) PROVE Own(up'[k]) /\ Own(have'[k])
      OBVIOUS
    <3>1. SubSeq(up[k], 1, n) \in Seq({req}) /\ SubSeq(up[k], n + 1, Len(up[k])) \in Seq({req})
      BY <2>2, Parts DEF Own
    <3>2. have[k] \o SubSeq(up[k], 1, n) \in Seq({req})
      BY <3>1, Joined DEF Own
    <3> QED
      BY <1>1, <1>3, <2>1, <3>1, <3>2 DEF Own, k
  <2>5. doing # "between"
    BY <1>1, <1>2, <2>2, NothingLeft DEF Step, Clean
  <2>6. AllOwn(k) => AllOwn(k)'
    BY <1>1, <2>2, <2>4 DEF AllOwn, Own, k
  <2>7. CASE doing = "writing"
    <3>1. Sending(k)'
      BY <1>1, <1>2, <2>2, <2>3, <2>7, SMTT(60) DEF Step, Sending, k
    <3> QED
      BY <1>1, <2>6, <2>7, <3>1 DEF Step, Exchanging, k
  <2>8. CASE doing = "reading"
    <3>1. Awaiting(k) /\ srv'[k] = IF Len(have[k]) + n < Payload THEN "reading" ELSE "holding"
      BY <1>1, <2>3, <2>8 DEF Step
    <3>2. Awaiting(k)'
      <4>1. Await("reading", u, h, o, a, r) /\ n \in 1 .. u
        BY <1>c, <2>2, <3>1 DEF u
      <4>2. Await(IF h + n < Payload THEN "reading" ELSE "holding", u - n, h + n, o, a, r)
        BY <1>d, <4>1, Awaited
      <4>3. /\ Len(up'[k]) = u - n /\ Len(have'[k]) = h + n /\ Len(out'[k]) = o
            /\ Len(down'[k]) + Len(received') = a /\ Len(received') = r
        BY <1>1, <2>2, <2>3 DEF u, h, o, a, r
      <4>4. srv'[k] = IF h + n < Payload THEN "reading" ELSE "holding"
        BY <3>1 DEF h
      <4> QED
        BY <1>a, <4>2, <4>3, <4>4
    <3> QED
      BY <1>1, <2>6, <2>8, <3>2 DEF Step, Exchanging, k
  <2> QED
    BY <1>1, <2>5, <2>7, <2>8 DEF Step, Exchanging, k
<1>9. CASE TargetWrites(k)
  <2>1. PICK n \in 1 .. Lesser(Len(out[k]), Room(down[k])) :
          /\ down' = Put(down, k, down[k] \o SubSeq(out[k], 1, n))
          /\ \/ /\ n < Len(out[k])
                /\ out' = Put(out, k, SubSeq(out[k], n + 1, Len(out[k])))
                /\ UNCHANGED <<srv, have>>
             \/ /\ n = Len(out[k])
                /\ srv' = Put(srv, k, "reading") /\ have' = Put(have, k, <<>>)
                /\ out' = Put(out, k, <<>>)
             \/ again' = again \cup {k}
    BY <1>9 DEF TargetWrites
  <2>2. /\ n \in Nat /\ n > 0 /\ n \in 0 .. Len(out[k]) /\ srv[k] = "writing"
        /\ UNCHANGED up /\ k \notin again'
    BY <1>1, <1>2, <1>9, <2>1 DEF Lesser, Room, TargetWrites, k
  <2>3. doing # "between" /\ doing # "writing"
    BY <1>1, <2>2 DEF Step, Clean, Sending, Exchanging
  <2>4. CASE doing = "reading"
    <3>1. Awaiting(k) /\ AllOwn(k)
      BY <1>1, <2>4 DEF Step, Exchanging
    <3>a. Await("writing", u, h, o, a, r) /\ n \in 1 .. o
      BY <1>c, <2>2, <3>1 DEF o
    <3>b. /\ n < o => Await("writing", u, h, o - n, a + n, r)
          /\ n = o => Await("reading", u, 0, 0, a + n, r)
      BY <1>d, <3>a, Awaited
    <3>2. /\ Own(SubSeq(out[k], 1, n)) /\ Len(SubSeq(out[k], 1, n)) = n
          /\ Own(SubSeq(out[k], n + 1, Len(out[k])))
          /\ Len(SubSeq(out[k], n + 1, Len(out[k]))) = Len(out[k]) - n
      BY <2>2, <3>1, Parts DEF AllOwn, Own
    <3>3. Own(down'[k]) /\ Len(down'[k]) = Len(down[k]) + n
      <4>1. /\ down[k] \o SubSeq(out[k], 1, n) \in Seq({req})
            /\ Len(down[k] \o SubSeq(out[k], 1, n)) = Len(down[k]) + n
        BY <3>1, <3>2, Joined DEF AllOwn, Own
      <4> QED
        BY <1>1, <1>3, <2>1, <4>1 DEF Own, k
    <3>4. Own(<<>>) /\ Len(<<>>) = 0
      BY NothingLeft DEF Own
    <3>c. /\ Len(up'[k]) = u /\ Len(received') = r
          /\ Len(down'[k]) + Len(received') = a + n
      BY <1>1, <1>2, <2>2, <3>3 DEF u, a, r
    <3>5. CASE n < Len(out[k]) /\ srv'[k] = "writing" /\ have'[k] = have[k]
               /\ out'[k] = SubSeq(out[k], n + 1, Len(out[k]))
      <4>1. AllOwn(k)'
        BY <1>1, <2>2, <3>1, <3>2, <3>3, <3>5 DEF AllOwn, Own, k
      <4>2. Awaiting(k)'
        <5>1. Len(have'[k]) = h /\ Len(out'[k]) = o - n /\ n < o
          BY <3>2, <3>5 DEF h, o
        <5> QED
          BY <1>a, <3>b, <3>c, <3>5, <5>1
      <4> QED
        BY <1>1, <2>4, <4>1, <4>2 DEF Step, k
    <3>6. CASE n = Len(out[k]) /\ srv'[k] = "reading" /\ have'[k] = <<>> /\ out'[k] = <<>>
      <4>1. AllOwn(k)'
        BY <1>1, <2>2, <3>1, <3>3, <3>4, <3>6 DEF AllOwn, Own, k
      <4>2. Awaiting(k)'
        <5>1. Len(have'[k]) = 0 /\ Len(out'[k]) = 0 /\ n = o
          BY <3>4, <3>6 DEF o
        <5> QED
          BY <1>a, <3>b, <3>c, <3>6, <5>1
      <4> QED
        BY <1>1, <2>4, <4>1, <4>2 DEF Step, k
    <3>7. \/ /\ n < Len(out[k]) /\ srv'[k] = "writing" /\ have'[k] = have[k]
             /\ out'[k] = SubSeq(out[k], n + 1, Len(out[k]))
          \/ n = Len(out[k]) /\ srv'[k] = "reading" /\ have'[k] = <<>> /\ out'[k] = <<>>
      BY <1>1, <1>3, <2>1, <2>2 DEF k
    <3> QED
      BY <3>5, <3>6, <3>7
  <2> QED
    BY <1>1, <2>3, <2>4 DEF Step, Exchanging, k
<1> QED
  BY <1>4, <1>5, <1>6, <1>7, <1>8, <1>9 DEF ThreadStep, k

(* The other connections, and what is numbered, stay as they are.           *)
LEMMA ThreadKeeps ==
  ASSUME IStep, NEW k \in Conns, ThreadStep(k)
  PROVE  IStep'
<1>1. /\ srv[k] # "unborn" /\ again \subseteq again'
      /\ UNCHANGED <<req, doing, conn, left, received, outcome, opened, hungup>>
  BY ThreadIsBorn DEF worker
<1>2. /\ Shape'
      /\ \A j \in Conns \ {k} :
           /\ up'[j] = up[j] /\ down'[j] = down[j] /\ have'[j] = have[j]
           /\ out'[j] = out[j] /\ srv'[j] = srv[j]
  BY ThreadShape DEF IStep
<1>3. Numbered'
  BY <1>1, <1>2 DEF IStep, Numbered, Exchanging
<1>4. InStep'
  <2> SUFFICES ASSUME conn # None, conn \notin again' PROVE Step(conn)'
    BY <1>1 DEF InStep
  <2>1. CASE k = conn
    BY <2>1, ThreadInStep
  <2>2. CASE k # conn
    <3>1. conn \in Conns \ {k} /\ Step(conn)
      BY <1>1, <2>2 DEF IStep, Shape, InStep
    <3>2. /\ up'[conn] = up[conn] /\ down'[conn] = down[conn] /\ have'[conn] = have[conn]
          /\ out'[conn] = out[conn] /\ srv'[conn] = srv[conn]
      BY <1>2, <3>1
    <3>3. /\ Clean(conn)' <=> Clean(conn)
          /\ AllOwn(conn)' <=> AllOwn(conn)
          /\ Sending(conn)' <=> Sending(conn)
      BY <1>1, <3>2 DEF Clean, AllOwn, Own, Sending
    <3>4. Awaiting(conn)' <=> Awaiting(conn)
      BY <1>1, <3>2 DEF Awaiting, Await
    <3> QED  BY <1>1, <3>1, <3>3, <3>4 DEF Step, Exchanging
  <2> QED  BY <2>1, <2>2
<1>5. Replied'
  BY <1>1 DEF IStep, Replied, Own
<1> QED  BY <1>2, <1>3, <1>4, <1>5 DEF IStep

-----------------------------------------------------------------------------
(* The worker.                                                              *)

LEMMA ConnectKeeps ==
  ASSUME IStep, Connect
  PROVE  IStep'
<1>1. /\ doing = "between" /\ conn = None /\ req < Requests
      /\ opened' = opened + 1 /\ conn' = opened + 1
      /\ srv' = Put(srv, opened + 1, "queued")
      /\ UNCHANGED <<req, doing, left, received, outcome, up, down, have, out, again>>
  BY DEF Connect
<1>2. /\ opened \in Nat /\ opened <= req /\ req \in Nat
      /\ srv \in [Conns -> Labels]
  BY <1>1 DEF IStep, Shape, Numbered
<1>3. opened + 1 \in Conns /\ opened + 1 > opened
  BY <1>1, <1>2
<1>4. /\ srv' \in [Conns -> Labels] /\ srv'[opened + 1] = "queued"
      /\ \A k \in Conns \ {opened + 1} : srv'[k] = srv[k]
  BY <1>1, <1>2, <1>3 DEF Put, Labels
<1>5. Shape'
  BY <1>1, <1>2, <1>3, <1>4 DEF IStep, Shape
<1>6. Numbered'
  <2>1. \A k \in Conns : k > opened' => k > opened /\ k # opened + 1
    BY <1>1, <1>2
  <2> QED  BY <1>1, <1>2, <1>3, <1>4, <2>1 DEF IStep, Numbered, Exchanging
<1>7. Clean(conn)'
  BY <1>1, <1>3, <1>4 DEF IStep, Numbered, Clean
<1>8. InStep' /\ Replied'
  BY <1>1, <1>7 DEF IStep, InStep, Step, Exchanging, Replied
<1> QED  BY <1>5, <1>6, <1>8 DEF IStep

LEMMA StartKeeps ==
  ASSUME IStep, StartRequest
  PROVE  IStep'
<1>1. /\ doing = "between" /\ conn # None /\ req < Requests
      /\ req' = req + 1 /\ doing' = "writing"
      /\ left' = Payload /\ received' = <<>> /\ outcome' = "none"
      /\ UNCHANGED <<conn, opened, hungup, up, down, srv, have, out, again>>
  BY DEF StartRequest, target
<1>2. req \in Nat /\ opened \in Nat /\ opened <= req + 1
  BY <1>1 DEF IStep, Shape, Numbered
<1>3. received' \in Seq(Nat) /\ Len(received') = 0 /\ received' \in Seq({req'})
  BY <1>1, NothingLeft
<1>4. Shape'
  BY <1>1, <1>2, <1>3 DEF IStep, Shape
<1>5. Numbered'
  BY <1>1, <1>2 DEF IStep, Numbered, Exchanging
<1>6. ASSUME conn \notin again PROVE Step(conn)'
  <2>1. Clean(conn)
    BY <1>1, <1>6 DEF IStep, InStep, Step
  <2>2. /\ up'[conn'] = <<>> /\ down'[conn'] = <<>> /\ have'[conn'] = <<>>
        /\ out'[conn'] = <<>> /\ srv'[conn'] \in {"queued", "reading", "gone"}
    BY <1>1, <2>1 DEF Clean
  <2>3. Len(<<>>) = 0 /\ <<>> \in Seq({req'})
    OBVIOUS
  <2>4. AllOwn(conn)'
    BY <1>3, <2>2, <2>3 DEF AllOwn, Own
  <2>5. Sending(conn)'
    BY <1>1, <1>3, <2>2, <2>3 DEF Sending
  <2> QED  BY <1>1, <2>4, <2>5 DEF Step
<1>7. InStep' /\ Replied'
  BY <1>1, <1>6 DEF InStep, Replied
<1> QED  BY <1>4, <1>5, <1>7 DEF IStep

LEMMA StopKeeps ==
  ASSUME IStep, Stop
  PROVE  IStep'
<1>1. /\ doing = "between" /\ doing' = "stopped" /\ conn' = None
      /\ UNCHANGED <<req, left, received, outcome, opened, up, down, srv, have, out, again>>
  BY DEF Stop, target
<1> QED
  BY <1>1 DEF IStep, Shape, Numbered, Exchanging, InStep, Replied

(* An exchange that ends without a whole reply ends its connection.         *)
LEMMA DropKeeps ==
  ASSUME IStep, Exchanging, NEW result, result # "Succeeded", ~ Usable(result),
         End(result), received' \in Seq(Nat), left' = left, up' = up,
         down' \in Streams, \A k \in Conns \ {conn} : down'[k] = down[k]
  PROVE  IStep'
<1>1. /\ outcome' # "Succeeded" /\ doing' = "between" /\ conn' = None
      /\ UNCHANGED <<req, opened, srv, have, out, again>>
  BY DEF End, target
<1>2. /\ opened <= req /\ conn # None /\ conn <= opened /\ opened \in Nat /\ req \in Nat
      /\ conn \in Conns
  BY DEF IStep, Numbered, Shape, Exchanging
<1>3. Shape'
  BY <1>1 DEF IStep, Shape
<1>4. Numbered'
  <2>1. \A k \in Conns : k > opened' => k > opened /\ k # conn
    BY <1>1, <1>2
  <2> QED  BY <1>1, <1>2, <2>1 DEF IStep, Numbered, Exchanging
<1> QED  BY <1>1, <1>3, <1>4 DEF IStep, InStep, Replied

LEMMA WriteKeeps ==
  ASSUME IStep, Write
  PROVE  IStep'
<1> DEFINE k == conn
<1>1. /\ k \in Conns /\ doing = "writing" /\ k # None /\ k <= opened /\ opened <= req
      /\ opened \in Nat /\ req \in Nat /\ left \in Nat
      /\ up \in Streams /\ up[k] \in Seq(Nat) /\ Len(up[k]) \in Nat
      /\ have[k] \in Seq(Nat) /\ Len(have[k]) \in Nat
  BY SMTT(60) DEF Write, IStep, Numbered, Shape, Exchanging, Streams
<1>2. PICK n \in 1 .. Lesser(left, Room(up[k])) :
        /\ up' = Put(up, k, up[k] \o Copies(n, req))
        /\ left' = left - n
        /\ doing' = IF left = n THEN "reading" ELSE "writing"
  BY DEF Write
<1>3. UNCHANGED <<req, conn, received, outcome, opened, down, srv, have, out, again>>
  BY DEF Write, target
<1>4. n \in Nat /\ n > 0 /\ n <= left
  <2>1. Room(up[k]) \in Int
    BY <1>1 DEF Room
  <2>2. Lesser(left, Room(up[k])) \in Int /\ Lesser(left, Room(up[k])) <= left
    BY <1>1, <2>1 DEF Lesser
  <2> QED  BY <1>1, <1>2, <2>2
<1>5. /\ Copies(n, req) \in Seq(Nat) /\ Copies(n, req) \in Seq({req})
      /\ Len(Copies(n, req)) = n
  <2>1. req \in {req}
    OBVIOUS
  <2> QED  BY <1>1, <1>4, <2>1, CopiesAre
<1>6. /\ up[k] \o Copies(n, req) \in Seq(Nat)
      /\ Len(up[k] \o Copies(n, req)) = Len(up[k]) + n
  BY <1>1, <1>5, Joined
<1>7. /\ up' \in Streams /\ up'[k] = up[k] \o Copies(n, req)
      /\ \A j \in Conns \ {k} : up'[j] = up[j]
  BY <1>1, <1>2, <1>6 DEF Put, Streams
<1>8. Shape'
  BY <1>1, <1>2, <1>3, <1>4, <1>7 DEF IStep, Shape
<1>9. Numbered'
  <2>1. \A j \in Conns : j > opened => j # k
    BY <1>1
  <2> QED  BY <1>1, <1>2, <1>3, <1>7, <2>1 DEF IStep, Numbered, Exchanging
<1>10. ASSUME k \notin again PROVE Step(conn)'
  <2>1. AllOwn(k) /\ Sending(k)
    BY <1>1, <1>10 DEF IStep, InStep, Step, Exchanging
  <2>2. up[k] \o Copies(n, req) \in Seq({req})
    BY <1>5, <2>1, Joined DEF AllOwn, Own
  <2>3. AllOwn(conn)'
    BY <1>3, <1>7, <2>1, <2>2 DEF AllOwn, Own
  <2>4. CASE left = n
    <3>1. doing' = "reading"
      BY <1>2, <2>4
    <3>a. /\ left + Len(up[k]) + Len(have[k]) = Payload
          /\ Len(down[k]) = 0 /\ Len(out[k]) = 0 /\ Len(received) = 0
          /\ srv[k] \in {"queued", "reading", "gone"}
      BY <2>1 DEF Sending
    <3>b. Len(up'[k]) = Len(up[k]) + n /\ n = left
      BY <1>6, <1>7, <2>4
    <3>2. /\ Len(up'[k]) + Len(have[k]) = Payload /\ Len(have[k]) < Payload
          /\ Len(up'[k]) \in Nat
          /\ Len(down[k]) = 0 /\ Len(out[k]) = 0 /\ Len(received) = 0
          /\ srv[k] \in {"queued", "reading", "gone"}
      <4> DEFINE u == Len(up[k])
                 h == Len(have[k])
      <4>1. u \in Nat /\ h \in Nat /\ left \in Nat /\ left + u + h = Payload
        BY <1>1, <3>a
      <4>2. Len(up'[k]) = u + n
        BY <3>b
      <4> HIDE DEF u, h
      <4>3. u + n \in Nat /\ u + n + h = Payload /\ h < Payload
        BY <1>4, <3>b, <4>1, Sizes
      <4> QED  BY <3>a, <4>2, <4>3 DEF h
    <3>3. Await(srv[k], Len(up'[k]), Len(have[k]), 0, 0, 0)
      BY <3>2, Sizes DEF Await
    <3>4. Len(down[k]) + Len(received) = 0
      BY <3>2
    <3>5. Awaiting(conn)'
      BY <1>3, <3>2, <3>3, <3>4 DEF Awaiting
    <3> QED  BY <2>3, <3>1, <3>5 DEF Step
  <2>5. CASE left # n
    <3>1. doing' = "writing"
      BY <1>2, <2>5
    <3>a. left \in 1 .. Payload /\ left + Len(up[k]) + Len(have[k]) = Payload
      BY <2>1 DEF Sending
    <3>b. Len(up'[k]) = Len(up[k]) + n /\ left' = left - n
      BY <1>2, <1>6, <1>7
    <3>2. /\ left' \in 1 .. Payload /\ left' + Len(up'[k]) + Len(have[k]) = Payload
      <4> DEFINE u == Len(up[k])
                 h == Len(have[k])
      <4>1. /\ u \in Nat /\ h \in Nat /\ left \in 1 .. Payload /\ left \in Nat
            /\ left + u + h = Payload
        BY <1>1, <3>a
      <4>2. Len(up'[k]) = u + n /\ left' = left - n
        BY <3>b
      <4> HIDE DEF u, h
      <4>3. left' \in 1 .. Payload /\ left' + (u + n) + h = Payload
        BY <1>4, <2>5, <4>1, <4>2, Sizes
      <4> QED  BY <4>2, <4>3 DEF h
    <3>3. Sending(conn)'
      BY <1>3, <2>1, <3>2 DEF Sending
    <3> QED  BY <2>3, <3>1, <3>3 DEF Step
  <2> QED  BY <2>4, <2>5
<1>11. InStep' /\ Replied'
  BY <1>2, <1>3, <1>10 DEF InStep, Replied
<1> QED  BY <1>8, <1>9, <1>11 DEF IStep

LEMMA EndsKeep ==
  ASSUME IStep, WriteEnds \/ ReadEnds
  PROVE  IStep'
<1>1. PICK result \in {"TimedOut", "WriteFailed", "ReadFailed"} : End(result)
  BY DEF WriteEnds, ReadEnds
<1>2. Exchanging /\ UNCHANGED <<left, received, up, down>>
  BY DEF WriteEnds, ReadEnds, Exchanging
<1>3. result # "Succeeded" /\ ~ Usable(result)
  BY DEF Usable
<1>4. received' \in Seq(Nat) /\ down' \in Streams
  BY <1>2 DEF IStep, Shape
<1> QED  BY <1>1, <1>2, <1>3, <1>4, DropKeeps

(* A whole reply leaves nothing behind: with as many pieces read as were    *)
(* asked for, none is in a stream or with the target.                       *)
LEMMA WholeReply ==
  ASSUME NEW s, NEW u \in Nat, NEW h \in Nat, NEW o \in Nat, NEW a \in Nat, NEW r \in Nat,
         Await(s, u, h, o, a, r), s \in Labels, a >= Payload
  PROVE  /\ a = Payload /\ u = 0 /\ h = 0 /\ o = 0
         /\ s \in {"queued", "reading", "gone"}
BY Sizes DEF Await, Labels

LEMMA ReadKeeps ==
  ASSUME IStep, Read
  PROVE  IStep'
<1> DEFINE k == conn
<1>1. /\ k \in Conns /\ doing = "reading" /\ k # None /\ k <= opened /\ opened <= req
      /\ opened \in Nat /\ req \in Nat /\ received \in Seq(Nat) /\ Len(received) \in Nat
      /\ down \in Streams /\ down[k] \in Seq(Nat) /\ Len(down[k]) \in Nat
      /\ up[k] \in Seq(Nat) /\ have[k] \in Seq(Nat) /\ out[k] \in Seq(Nat)
      /\ srv[k] \in Labels
  <2>1. /\ k \in Conns /\ doing = "reading" /\ k # None /\ k <= opened /\ opened <= req
        /\ opened \in Nat /\ req \in Nat /\ received \in Seq(Nat)
    BY DEF Read, IStep, Numbered, Shape, Exchanging
  <2>2. /\ down \in Streams /\ down[k] \in Seq(Nat) /\ up[k] \in Seq(Nat)
        /\ have[k] \in Seq(Nat) /\ out[k] \in Seq(Nat) /\ srv[k] \in Labels
    BY <2>1 DEF IStep, Shape, Streams
  <2> QED  BY <2>1, <2>2
<1>2. PICK n \in 1 .. Len(down[k]) :
        /\ received' = received \o SubSeq(down[k], 1, n)
        /\ down' = Put(down, k, SubSeq(down[k], n + 1, Len(down[k])))
        /\ \/ /\ Consume(received \o SubSeq(down[k], 1, n)) = "NeedMore"
              /\ UNCHANGED <<req, doing, conn, outcome, opened, hungup, target>>
           \/ Consume(received \o SubSeq(down[k], 1, n)) = "Complete" /\ End("Succeeded")
           \/ End("ProtocolError")
  BY DEF Read
<1>3. left' = left /\ up' = up
  BY DEF Read
<1>4. n \in Nat /\ n > 0 /\ n \in 0 .. Len(down[k])
  BY <1>1, <1>2
<1> DEFINE got == received \o SubSeq(down[k], 1, n)
           rest == SubSeq(down[k], n + 1, Len(down[k]))
<1>5. /\ got \in Seq(Nat) /\ Len(got) = Len(received) + n
      /\ rest \in Seq(Nat) /\ Len(rest) = Len(down[k]) - n
  <2>1. /\ SubSeq(down[k], 1, n) \in Seq(Nat) /\ Len(SubSeq(down[k], 1, n)) = n
        /\ rest \in Seq(Nat) /\ Len(rest) = Len(down[k]) - n
    BY <1>1, <1>4, Parts
  <2> QED  BY <1>1, <2>1, Joined
<1>6. /\ down' \in Streams /\ down'[k] = rest
      /\ \A j \in Conns \ {k} : down'[j] = down[j]
  BY <1>1, <1>2, <1>5 DEF Put, Streams
<1>7. ASSUME k \notin again
      PROVE  /\ got \in Seq({req}) /\ rest \in Seq({req}) /\ AllOwn(k)
             /\ Await(srv[k], Len(up[k]), Len(have[k]), Len(out[k]),
                      Len(down[k]) + Len(received), Len(received))
  <2>1. AllOwn(k) /\ Awaiting(k)
    BY <1>1, <1>7 DEF IStep, InStep, Step, Exchanging
  <2>2. SubSeq(down[k], 1, n) \in Seq({req}) /\ rest \in Seq({req})
    BY <1>4, <2>1, Parts DEF AllOwn, Own
  <2>3. got \in Seq({req})
    BY <2>1, <2>2, Joined DEF AllOwn, Own
  <2> QED  BY <2>1, <2>2, <2>3 DEF Awaiting
<1>8. received' = got
  BY <1>2
<1>n. \A j \in Conns : j > opened => j # k
  BY <1>1
<1> HIDE DEF got, rest
<1>9. CASE /\ Consume(got) = "NeedMore"
           /\ UNCHANGED <<req, doing, conn, outcome, opened, hungup, target>>
  <2>1. /\ UNCHANGED <<req, doing, conn, outcome, opened, srv, have, out, again>>
    BY <1>9 DEF target
  <2>2. Len(got) < Payload
    BY <1>1, <1>5, <1>9, Sizes DEF Consume
  <2>3. Shape'
    BY <1>3, <1>5, <1>6, <1>8, <2>1 DEF IStep, Shape
  <2>4. Numbered'
    BY <1>3, <1>6, <1>n, <2>1 DEF IStep, Numbered, Exchanging
  <2>5. ASSUME k \notin again PROVE Step(conn)'
    <3>1. AllOwn(conn)'
      BY <1>3, <1>6, <1>7, <1>8, <2>1, <2>5 DEF AllOwn, Own
    <3>2. Len(down'[k]) + Len(received') = Len(down[k]) + Len(received)
      <4>1. Len(down'[k]) = Len(down[k]) - n /\ Len(received') = Len(received) + n
        BY <1>5, <1>6, <1>8
      <4> DEFINE x == Len(down[k])
                 y == Len(received)
      <4>2. x \in Nat /\ y \in Nat
        BY <1>1
      <4> HIDE DEF x, y
      <4>3. (x - n) + (y + n) = x + y
        BY <1>4, <4>2
      <4> QED  BY <4>1, <4>3 DEF x, y
    <3>3. Await(srv[k], Len(up[k]), Len(have[k]), Len(out[k]),
                Len(down[k]) + Len(received), Len(got))
      BY <1>7, <2>2, <2>5 DEF Await
    <3>4. Awaiting(conn)'
      BY <1>3, <1>8, <2>1, <3>2, <3>3 DEF Awaiting
    <3> QED  BY <1>1, <2>1, <3>1, <3>4 DEF Step
  <2>6. InStep' /\ Replied'
    BY <1>1, <2>1, <2>5 DEF InStep, Replied
  <2> QED  BY <2>3, <2>4, <2>6 DEF IStep
<1>10. CASE Consume(got) = "Complete" /\ End("Succeeded")
  <2>1. /\ outcome' = "Succeeded" /\ doing' = "between" /\ conn' = conn
        /\ UNCHANGED <<req, opened, srv, have, out, again>>
    BY <1>10 DEF End, Usable, target
  <2>2. Len(got) = Payload
    BY <1>1, <1>5, <1>10, Sizes DEF Consume
  <2>3. Shape'
    BY <1>3, <1>5, <1>6, <1>8, <2>1 DEF IStep, Shape
  <2>4. Numbered'
    <3>1. opened <= req + 1
      BY <1>1
    <3> QED  BY <1>1, <1>3, <1>6, <1>n, <2>1, <3>1 DEF IStep, Numbered, Exchanging
  <2>5. ASSUME k \notin again PROVE Clean(conn)'
    <3>1. /\ Len(up[k]) \in Nat /\ Len(have[k]) \in Nat /\ Len(out[k]) \in Nat
          /\ Len(down[k]) + Len(received) \in Nat
      BY <1>1
    <3>2. Len(down[k]) + Len(received) >= Payload
      BY <1>1, <1>4, <1>5, <2>2
    <3>3. /\ Len(down[k]) + Len(received) = Payload
          /\ Len(up[k]) = 0 /\ Len(have[k]) = 0 /\ Len(out[k]) = 0
          /\ srv[k] \in {"queued", "reading", "gone"}
      <4> DEFINE u == Len(up[k])
                 h == Len(have[k])
                 o == Len(out[k])
                 a == Len(down[k]) + Len(received)
                 r == Len(received)
      <4>1. Await(srv[k], u, h, o, a, r) /\ srv[k] \in Labels /\ a >= Payload
        BY <1>1, <1>7, <2>5, <3>2
      <4>2. u \in Nat /\ h \in Nat /\ o \in Nat /\ a \in Nat /\ r \in Nat
        BY <1>1, <3>1
      <4> HIDE DEF u, h, o, a, r
      <4>3. a = Payload /\ u = 0 /\ h = 0 /\ o = 0 /\ srv[k] \in {"queued", "reading", "gone"}
        BY <4>1, <4>2, WholeReply
      <4> QED  BY <4>3 DEF u, h, o, a
    <3>4. Len(rest) = 0
      BY <1>1, <1>4, <1>5, <2>2, <3>3
    <3>5. up[k] = <<>> /\ have[k] = <<>> /\ out[k] = <<>> /\ rest = <<>>
      BY <1>1, <1>5, <3>3, <3>4, NothingLeft
    <3> QED  BY <1>3, <1>6, <2>1, <3>3, <3>5 DEF Clean
  <2>6. InStep'
    BY <2>1, <2>5 DEF InStep, Step, Exchanging
  <2>7. Replied'
    BY <1>1, <1>7, <1>8, <2>1, <2>2 DEF Replied, Own
  <2> QED  BY <2>3, <2>4, <2>6, <2>7 DEF IStep
<1>11. CASE End("ProtocolError")
  <2>1. "ProtocolError" # "Succeeded" /\ ~ Usable("ProtocolError") /\ Exchanging
    BY <1>1 DEF Usable, Exchanging
  <2> QED  BY <1>3, <1>5, <1>6, <1>8, <1>11, <2>1, DropKeeps
<1> QED  BY <1>2, <1>9, <1>10, <1>11 DEF got

LEMMA StepKeeps == IStep /\ [Next]_vars => IStep'
<1> SUFFICES ASSUME IStep, [Next]_vars PROVE IStep'
  OBVIOUS
<1>1. CASE FlipStall \/ UNCHANGED vars
  <2>1. UNCHANGED <<req, doing, conn, left, received, outcome, opened, hungup,
                    up, down, srv, have, out, again>>
    BY <1>1 DEF FlipStall, vars, worker, target
  <2> QED
    BY <2>1
    DEF IStep, Shape, Numbered, InStep, Replied, Step, Clean, AllOwn, Own, Sending,
        Awaiting, Await, Exchanging
<1> QED
  BY <1>1, ThreadKeeps, ConnectKeeps, StartKeeps, StopKeeps, WriteKeeps, EndsKeep, ReadKeeps
  DEF Next, WorkerStep

(* Requests and replies stay in step, on every connection that carries no   *)
(* reply twice.                                                             *)
THEOREM AlwaysInStep == Safety => []IStep
<1> QED BY InitStep, StepKeeps, PTL DEF Safety

(* A reply that is counted is the reply to the request it is counted for,   *)
(* whatever the target dropped, stalled or answered late before, and in     *)
(* whatever pieces the streams hand it over (exchange.cpp:29-68,            *)
(* exchange.hpp:33-39).                                                     *)
THEOREM RepliesAreAlwaysOwn == Safety => []RepliesAreOwn
<1>1. IStep => RepliesAreOwn
  <2> SUFFICES ASSUME IStep, doing = "between", outcome = "Succeeded", conn \notin again
               PROVE  ToSet(received) = {req}
    BY DEF RepliesAreOwn
  <2>1. received \in Seq({req}) /\ Len(received) = Payload
    BY DEF IStep, Replied, Own
  <2>2. 1 \in DOMAIN received /\ \A i \in DOMAIN received : received[i] = req
    BY <2>1, Sizes
  <2> QED  BY <2>2 DEF ToSet
<1> QED BY <1>1, AlwaysInStep, PTL

(* A connection is used again only when nothing of an earlier request is    *)
(* left in either stream or with the target (exchange.hpp:33-40,            *)
(* dariyanaap_null.cpp:84-91).                                              *)
THEOREM ReusedOnlyClean == Safety => ReusedClean
<1>1. ASSUME IStep, [Next]_vars, req' > req, conn \notin again
      PROVE  up[conn] = <<>> /\ down[conn] = <<>> /\ have[conn] = <<>> /\ out[conn] = <<>>
  <2>1. req' # req
    BY <1>1 DEF IStep, Shape
  <2>2. doing = "between" /\ conn # None
    BY <1>1, <2>1
    DEF Next, WorkerStep, Connect, StartRequest, Stop, Write, WriteEnds, Read, ReadEnds,
        End, FlipStall, ThreadStep, Accept, TargetReads, TargetLeaves, Answer,
        TargetWrites, TargetGivesUp, worker, vars
  <2> QED  BY <1>1, <2>2 DEF IStep, InStep, Step, Clean
<1> QED BY <1>1, AlwaysInStep, PTL DEF Safety, ReusedClean

=============================================================================
