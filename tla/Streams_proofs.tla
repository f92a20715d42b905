--------------------------- MODULE Streams_proofs ---------------------------
(***************************************************************************)
(* Theorems about the two components that find a message in a stream of    *)
(* bytes however it is cut: ControlServer and its lines, for any number of *)
(* operators, whichever calls fail and wherever the socket is bound, and   *)
(* Http11Get and its responses, whatever a target answers.                 *)
(*                                                                         *)
(* Init, Next and Spec are those of ControlServer, HttpInit and so on those*)
(* of Http.                                                                *)
(***************************************************************************)
EXTENDS ControlServer, Http, CountingLaws, SequenceTheorems

-----------------------------------------------------------------------------
(* ControlServer: no line is obeyed twice, in part or not at all.           *)

Pieces == {"part", "end"}

IType ==
  /\ acceptor \in {"accepting", "reading", "answering", "leaving", "ended", "crashed"}
  /\ client \in Clients \cup {Nobody} /\ pending \in Seq(Pieces)
  /\ backlog \in Seq(Clients)
  /\ link \in [Operators -> {"unused", "up", "left", "over"}]
  /\ wire \in [Operators -> Seq(Pieces)]
  /\ lines \in [Operators -> Nat]
  /\ obeyed \in [Operators -> Nat] /\ answered \in [Operators -> Nat]
  /\ stopping \in BOOLEAN

(* The acceptor serves an operator exactly while it reads, answers or takes *)
(* its leave, and goes back to reading only when there is no whole line     *)
(* left.                                                                    *)
Served ==
  /\ acceptor \in {"reading", "answering", "leaving"} => client \in Operators
  /\ acceptor \notin {"reading", "answering", "leaving"} => client = Nobody /\ pending = <<>>
  /\ acceptor = "reading" => ~Contains(pending, "end")

(* Who is served or waits has a connection, and waits once; the poke comes  *)
(* after `stopping` is set, so that nobody serves it.                       *)
Connected(o) == link[o] \in {"up", "left"}

Queue ==
  /\ client \in Operators => Connected(client) /\ ~Contains(backlog, client)
  /\ \A i \in 1 .. Len(backlog) :
       /\ backlog[i] = Poke => stopping
       /\ backlog[i] \in Operators =>
            /\ Connected(backlog[i])
            /\ \A j \in 1 .. Len(backlog) : backlog[j] = backlog[i] => j = i

(* The destructor has set `stopping` before it does anything else.          *)
Told == owner # "outside" => stopping

Inv == IType /\ Served /\ Queue /\ Told /\ LinesObeyedOnce

-----------------------------------------------------------------------------
(* Counting the ends of lines.                                              *)

EndsOf(s) == {i \in DOMAIN s : s[i] = "end"}

LEMMA EndsFinite ==
  ASSUME NEW s \in Seq(Pieces)
  PROVE  IsFiniteSet(EndsOf(s)) /\ Ends(s) = Cardinality(EndsOf(s)) /\ Ends(s) \in Nat
<1>1. DOMAIN s = 1 .. Len(s) /\ Len(s) \in Nat
  BY LenProperties
<1>2. IsFiniteSet(1 .. Len(s))
  BY <1>1, FS_Interval
<1>3. EndsOf(s) \in SUBSET (1 .. Len(s))
  BY <1>1 DEF EndsOf
<1>4. IsFiniteSet(EndsOf(s))
  BY <1>2, <1>3, FS_Subset
<1>5. Ends(s) = Cardinality(EndsOf(s))
  BY DEF Ends, EndsOf
<1> QED
  BY <1>4, <1>5, FS_CardinalityType

LEMMA EndsAppend ==
  ASSUME NEW s \in Seq(Pieces), NEW x \in Pieces
  PROVE  /\ x = "end" => Ends(Append(s, x)) = Ends(s) + 1
         /\ x # "end" => Ends(Append(s, x)) = Ends(s)
<1> DEFINE n == Len(s)
           t == Append(s, x)
<1>1. /\ t \in Seq(Pieces) /\ n \in Nat /\ DOMAIN s = 1 .. n /\ DOMAIN t = 1 .. (n + 1)
      /\ t[n + 1] = x /\ \A i \in 1 .. n : t[i] = s[i]
  BY AppendProperties, LenProperties
<1>2. x = "end" => EndsOf(t) = EndsOf(s) \cup {n + 1}
  BY <1>1 DEF EndsOf
<1>3. x # "end" => EndsOf(t) = EndsOf(s)
  BY <1>1 DEF EndsOf
<1>4. n + 1 \notin EndsOf(s)
  BY <1>1 DEF EndsOf
<1>5. IsFiniteSet(EndsOf(s)) /\ Ends(s) = Cardinality(EndsOf(s))
  BY EndsFinite
<1>6. Ends(t) = Cardinality(EndsOf(t))
  BY <1>1, EndsFinite
<1>7. Cardinality(EndsOf(s) \cup {n + 1}) = Cardinality(EndsOf(s)) + 1
  BY <1>4, <1>5, FS_AddElement
<1> QED
  BY <1>2, <1>3, <1>5, <1>6, <1>7

LEMMA EndsNone ==
  ASSUME NEW s \in Seq(Pieces), ~Contains(s, "end")
  PROVE  Ends(s) = 0
<1>1. EndsOf(s) = {}
  BY LenProperties DEF EndsOf, Contains
<1> QED
  BY <1>1, EndsFinite, FS_EmptySet

(* What is left after the first end of a line holds one end less.           *)
LEMMA EndsAfterFirst ==
  ASSUME NEW s \in Seq(Pieces), NEW i \in 1 .. Len(s), s[i] = "end",
         \A j \in 1 .. Len(s) : s[j] = "end" => i <= j
  PROVE  /\ SubSeq(s, i + 1, Len(s)) \in Seq(Pieces)
         /\ Ends(s) = Ends(SubSeq(s, i + 1, Len(s))) + 1
<1> DEFINE n == Len(s)
           t == SubSeq(s, i + 1, n)
           S == EndsOf(t)
           T == EndsOf(s) \ {i}
           f == [k \in S |-> k + i]
<1>1. n \in Nat /\ DOMAIN s = 1 .. n /\ \A j \in 1 .. n : s[j] \in Pieces
  BY LenProperties, ElementOfSeq
<1>2. i \in Nat /\ i >= 1 /\ i <= n
  BY <1>1
<1>3. \A j \in i + 1 .. n : s[j] \in Pieces
  BY <1>1, <1>2
<1>4. /\ t \in Seq(Pieces)
      /\ Len(t) = IF i + 1 <= n THEN n - (i + 1) + 1 ELSE 0
      /\ \A j \in 1 .. n - (i + 1) + 1 : t[j] = s[(i + 1) + j - 1]
  <2>1. i + 1 \in Int /\ n \in Int
    BY <1>1, <1>2
  <2> HIDE DEF n
  <2> QED
    BY <2>1, <1>3, SubSeqProperties, SMTT(60)
<1>5. Len(t) = n - i /\ DOMAIN t = 1 .. n - i /\ \A j \in 1 .. n - i : t[j] = s[j + i]
  <2> DEFINE l == Len(t)
  <2>1. l = n - i
    <3>1. l = IF i + 1 <= n THEN n - (i + 1) + 1 ELSE 0
      BY <1>4
    <3>2. n \in Nat /\ i \in Nat /\ i <= n
      BY <1>1, <1>2
    <3> HIDE DEF l, n, t
    <3> QED
      BY <3>1, <3>2
  <2>2. DOMAIN t = 1 .. Len(t)
    BY <1>4, LenProperties
  <2>3. n - (i + 1) + 1 = n - i /\ \A j \in 1 .. n - i : (i + 1) + j - 1 = j + i
    BY <1>1, <1>2
  <2> QED
    BY <2>1, <2>2, <2>3, <1>4
<1> HIDE DEF n, t
<1>6. \A k : k \in S <=> k \in 1 .. n - i /\ s[k + i] = "end"
  BY <1>5 DEF EndsOf
<1>7. \A k : k \in T <=> k \in 1 .. n /\ s[k] = "end" /\ k # i
  BY <1>1 DEF EndsOf
<1>8. \A k \in T : k \in i + 1 .. n
  BY <1>7, <1>1, <1>2 DEF n
<1> HIDE DEF S, T
<1>9. f \in Bijection(S, T)
  <2>1. \A k \in S : k + i \in T
    BY <1>6, <1>7, <1>1, <1>2
  <2>2. \A j, k \in S : j + i = k + i => j = k
    BY <1>6, <1>2
  <2>3. \A k \in T : k - i \in S /\ (k - i) + i = k
    BY <1>6, <1>7, <1>8, <1>1, <1>2
  <2>4. f \in [S -> T] /\ \A k \in S : f[k] = k + i
    BY <2>1
  <2> HIDE DEF f
  <2>5. \A k \in T : \E j \in S : f[j] = k
    BY <2>3, <2>4
  <2>6. \A j, k \in S : f[j] = f[k] => j = k
    BY <2>2, <2>4
  <2>7. f \in Injection(S, T)
    BY <2>4, <2>6 DEF Injection, IsInjective
  <2>8. f \in Surjection(S, T)
    BY <2>4, <2>5 DEF Surjection
  <2> QED
    BY <2>7, <2>8 DEF Bijection
<1>10. IsFiniteSet(S) /\ Cardinality(S) = Ends(t)
  BY <1>4, EndsFinite DEF S
<1>11. IsFiniteSet(T) /\ Cardinality(T) = Cardinality(S)
  BY <1>9, <1>10, FS_Bijection DEF ExistsBijection
<1>12. T \cup {i} = EndsOf(s) /\ i \notin T
  BY <1>1, <1>2 DEF EndsOf, T
<1>13. Cardinality(T \cup {i}) = Cardinality(T) + 1
  BY <1>11, <1>12, FS_AddElement
<1>14. Ends(s) = Cardinality(EndsOf(s))
  BY EndsFinite
<1> QED
  BY <1>4, <1>10, <1>11, <1>12, <1>13, <1>14 DEF n, t

(* SelectInSeq finds the first end of a line, if there is one.              *)
FirstEnd(s) == SelectInSeq(s, LAMBDA p : p = "end")

LEMMA FirstEndFound ==
  ASSUME NEW s \in Seq(Pieces), Contains(s, "end")
  PROVE  /\ FirstEnd(s) \in 1 .. Len(s) /\ s[FirstEnd(s)] = "end"
         /\ \A j \in 1 .. Len(s) : s[j] = "end" => FirstEnd(s) <= j
<1> DEFINE I == {j \in 1 .. Len(s) : s[j] = "end"}
<1>1. Len(s) \in Nat
  BY LenProperties
<1>2. I \subseteq Nat /\ I # {}
  BY <1>1 DEF Contains
<1>3. \E m \in I : \A j \in I : m <= j
  <2> HIDE DEF I
  <2> QED
    BY <1>2, LeastNatural
<1>4. FirstEnd(s) = Min(I)
  BY <1>2 DEF FirstEnd, SelectInSeq
<1>5. Min(I) \in I /\ \A j \in I : Min(I) <= j
  BY <1>3 DEF Min
<1> QED
  BY <1>4, <1>5

(* Obeying one line takes one end from what is unobeyed.                    *)
LEMMA EndsAfterOne ==
  ASSUME NEW s \in Seq(Pieces), NEW w \in Seq(Pieces), Contains(s, "end")
  PROVE  /\ SubSeq(s, FirstEnd(s) + 1, Len(s)) \in Seq(Pieces)
         /\ Ends(s \o w) = Ends(SubSeq(s, FirstEnd(s) + 1, Len(s)) \o w) + 1
<1> DEFINE i == FirstEnd(s)
           n == Len(s)
           r == SubSeq(s, i + 1, n)
           u == s \o w
<1>1. i \in 1 .. n /\ s[i] = "end" /\ \A j \in 1 .. n : s[j] = "end" => i <= j
  BY FirstEndFound
<1>2. n \in Nat /\ Len(w) \in Nat
  BY LenProperties
<1>3. i \in Nat /\ 1 <= i /\ i <= n
  BY <1>1, <1>2
<1>4. /\ u \in Seq(Pieces) /\ Len(u) = n + Len(w)
      /\ \A j \in 1 .. n + Len(w) : u[j] = IF j <= n THEN s[j] ELSE w[j - n]
  BY ConcatProperties
<1>5. r \in Seq(Pieces)
  <2> HIDE DEF i
  <2> QED
    BY <1>1, EndsAfterFirst
<1> HIDE DEF i
<1>6. i \in 1 .. Len(u) /\ u[i] = "end"
  BY <1>1, <1>2, <1>3, <1>4
<1>7. \A j \in 1 .. Len(u) : u[j] = "end" => i <= j
  <2> TAKE j \in 1 .. Len(u)
  <2>1. CASE j <= n
    <3>1. j \in 1 .. n /\ u[j] = s[j]
      BY <2>1, <1>2, <1>4
    <3> QED
      BY <3>1, <1>1
  <2>2. CASE ~(j <= n)
    <3>1. j \in Nat
      BY <1>2, <1>4
    <3> QED
      BY <2>2, <3>1, <1>2, <1>3
  <2> QED
    BY <2>1, <2>2
<1>8. SubSeq(u, i + 1, Len(u)) \in Seq(Pieces) /\ Ends(u) = Ends(SubSeq(u, i + 1, Len(u))) + 1
  <2> HIDE DEF u
  <2> QED
    BY <1>4, <1>6, <1>7, EndsAfterFirst
<1>9. SubSeq(u, i + 1, Len(u)) = r \o w
  <2> DEFINE m == n - i
             v == SubSeq(u, i + 1, Len(u))
             q == r \o w
  <2>1. i + 1 \in Int /\ n \in Int /\ \A j \in i + 1 .. n : s[j] \in Pieces
    BY <1>2, <1>3, ElementOfSeq
  <2>2. /\ Len(r) = IF i + 1 <= n THEN n - (i + 1) + 1 ELSE 0
        /\ \A j \in 1 .. n - (i + 1) + 1 : r[j] = s[(i + 1) + j - 1]
    <3> HIDE DEF n
    <3> QED
      BY <2>1, SubSeqProperties
  <2>3. i + 1 \in Int /\ Len(u) \in Int /\ \A j \in i + 1 .. Len(u) : u[j] \in Pieces
    BY <1>2, <1>3, <1>4, ElementOfSeq
  <2>4. /\ Len(v) = IF i + 1 <= Len(u) THEN Len(u) - (i + 1) + 1 ELSE 0
        /\ \A j \in 1 .. Len(u) - (i + 1) + 1 : v[j] = u[(i + 1) + j - 1]
    <3> HIDE DEF u
    <3> QED
      BY <2>3, SubSeqProperties
  <2>5. /\ q \in Seq(Pieces) /\ Len(q) = Len(r) + Len(w)
        /\ \A j \in 1 .. Len(r) + Len(w) : q[j] = IF j <= Len(r) THEN r[j] ELSE w[j - Len(r)]
    <3> HIDE DEF r
    <3> QED
      BY <1>5, ConcatProperties
  <2> HIDE DEF n, r, u, v, q
  <2> DEFINE k == Len(w)
             lr == Len(r)
             lu == Len(u)
             lv == Len(v)
  <2>6. lr = m
    <3>1. lr = IF i + 1 <= n THEN n - (i + 1) + 1 ELSE 0
      BY <2>2
    <3> HIDE DEF lr
    <3> QED
      BY <3>1, <1>2, <1>3
  <2>7. lu = n + k
    BY <1>4
  <2>8. lv = m + k
    <3>1. lv = IF i + 1 <= lu THEN lu - (i + 1) + 1 ELSE 0
      BY <2>4
    <3> HIDE DEF lv, lu, k
    <3> QED
      BY <3>1, <2>7, <1>2, <1>3 DEF k
  <2>9. m \in Nat /\ k \in Nat
    BY <1>2, <1>3
  <2>10. \A j \in 1 .. m + k : v[j] = q[j]
    <3> TAKE j \in 1 .. m + k
    <3>1. j \in Nat /\ 1 <= j /\ j <= m + k
      BY <2>9
    <3>2. v[j] = u[j + i]
      <4>1. j \in 1 .. Len(u) - (i + 1) + 1 /\ (i + 1) + j - 1 = j + i
        BY <3>1, <2>7, <1>2, <1>3
      <4> QED
        BY <4>1, <2>4
    <3>3. j + i \in 1 .. n + Len(w)
      BY <3>1, <1>2, <1>3
    <3>4. CASE j <= m
      <4>1. u[j + i] = s[j + i]
        BY <3>3, <3>4, <1>2, <1>3, <1>4, <3>1
      <4>2. j \in 1 .. n - (i + 1) + 1 /\ (i + 1) + j - 1 = j + i
        BY <3>1, <3>4, <1>2, <1>3
      <4>3. r[j] = s[j + i]
        BY <4>2, <2>2
      <4>4. j \in 1 .. Len(r) + Len(w) /\ j <= Len(r)
        BY <3>1, <3>4, <2>6, <2>9
      <4> QED
        BY <3>2, <4>1, <4>3, <4>4, <2>5
    <3>5. CASE ~(j <= m)
      <4>1. u[j + i] = w[(j + i) - n] /\ (j + i) - n = j - m
        BY <3>3, <3>5, <1>2, <1>3, <1>4, <3>1
      <4>2. j \in 1 .. Len(r) + Len(w) /\ ~(j <= Len(r)) /\ j - Len(r) = j - m
        BY <3>1, <3>5, <2>6, <2>9
      <4> QED
        BY <3>2, <4>1, <4>2, <2>5
    <3> QED
      BY <3>4, <3>5
  <2>11. Len(v) = m + k /\ Len(q) = m + k
    BY <2>5, <2>6, <2>8
  <2>12. v \in Seq(Pieces)
    BY <1>8 DEF v
  <2> HIDE DEF m, k
  <2>13. v = q
    BY <2>5, <2>10, <2>11, <2>12, SeqEqual
  <2> QED
    BY <2>13 DEF v, q
<1> QED
  BY <1>5, <1>8, <1>9 DEF i

(* A line that is not finished adds no end to what follows it.              *)
LEMMA EndsOfTheRest ==
  ASSUME NEW s \in Seq(Pieces), NEW w \in Seq(Pieces), ~Contains(s, "end")
  PROVE  Ends(s \o w) = Ends(w)
<1> DEFINE n == Len(s)
           u == s \o w
           S == EndsOf(w)
           T == EndsOf(u)
           f == [k \in S |-> k + n]
<1>1. n \in Nat /\ Len(w) \in Nat /\ DOMAIN w = 1 .. Len(w) /\ \A j \in 1 .. n : s[j] # "end"
  BY LenProperties DEF Contains
<1>2. /\ u \in Seq(Pieces) /\ Len(u) = n + Len(w)
      /\ \A j \in 1 .. n + Len(w) : u[j] = IF j <= n THEN s[j] ELSE w[j - n]
  BY ConcatProperties
<1>3. DOMAIN u = 1 .. n + Len(w)
  <2> HIDE DEF u
  <2> QED
    BY <1>2, LenProperties
<1> HIDE DEF n, u
<1>4. \A k : k \in S <=> k \in 1 .. Len(w) /\ w[k] = "end"
  BY <1>1 DEF EndsOf
<1>5. \A k : k \in T <=> k \in 1 .. n + Len(w) /\ u[k] = "end"
  BY <1>3 DEF EndsOf
<1>6. \A k \in 1 .. n + Len(w) :
        \/ k <= n /\ u[k] # "end"
        \/ k - n \in 1 .. Len(w) /\ (k - n) + n = k /\ u[k] = w[k - n]
  <2> TAKE k \in 1 .. n + Len(w)
  <2>1. k \in Nat /\ u[k] = IF k <= n THEN s[k] ELSE w[k - n]
    BY <1>1, <1>2
  <2>2. CASE k <= n
    <3>1. k \in 1 .. n
      BY <1>1, <2>2
    <3> QED
      BY <1>1, <2>1, <2>2, <3>1
  <2>3. CASE ~(k <= n)
    BY <1>1, <2>1, <2>3
  <2> QED
    BY <2>2, <2>3
<1>7. \A k \in 1 .. Len(w) : k + n \in 1 .. n + Len(w) /\ u[k + n] = w[k]
  <2> TAKE k \in 1 .. Len(w)
  <2>1. k + n \in 1 .. n + Len(w) /\ ~(k + n <= n) /\ (k + n) - n = k
    BY <1>1
  <2> QED
    BY <1>2, <2>1
<1> HIDE DEF S, T
<1>8. f \in Bijection(S, T)
  <2>1. \A k \in S : k + n \in T /\ k \in Nat
    BY <1>1, <1>4, <1>5, <1>7
  <2>2. \A j, k \in S : j + n = k + n => j = k
    BY <1>1, <2>1
  <2>3. \A k \in T : k - n \in S /\ (k - n) + n = k
    BY <1>4, <1>5, <1>6
  <2>4. f \in [S -> T] /\ \A k \in S : f[k] = k + n
    BY <2>1
  <2> HIDE DEF f
  <2>5. \A k \in T : \E j \in S : f[j] = k
    BY <2>3, <2>4
  <2>6. \A j, k \in S : f[j] = f[k] => j = k
    BY <2>2, <2>4
  <2>7. f \in Injection(S, T) /\ f \in Surjection(S, T)
    BY <2>4, <2>5, <2>6 DEF Injection, IsInjective, Surjection
  <2> QED
    BY <2>7 DEF Bijection
<1>9. IsFiniteSet(S) /\ Cardinality(S) = Ends(w)
  BY EndsFinite DEF S
<1>10. Cardinality(T) = Cardinality(S)
  BY <1>8, <1>9, FS_Bijection DEF ExistsBijection
<1>11. Ends(u) = Cardinality(T)
  BY <1>2, EndsFinite DEF T
<1> QED
  BY <1>9, <1>10, <1>11 DEF u

-----------------------------------------------------------------------------
(* Types.                                                                   *)

LEMMA HaltedOrServing ==
  ASSUME IType, Served, client \in Operators
  PROVE  acceptor \in {"reading", "answering", "leaving"}
  BY OperatorsAssumption DEF IType, Served

LEMMA TypesStep ==
  ASSUME IType, Served, Next
  PROVE  IType'
<1> USE DEF IType, vars, serving, stream, counts
<1>1. ASSUME NEW o \in Operators, Connect(o)
      PROVE  IType'
  BY <1>1 DEF Connect, Clients
<1>2. ASSUME NEW o \in Operators, Write(o)
      PROVE  IType'
  <2>1. PICK piece \in Pieces :
          /\ wire' = [wire EXCEPT ![o] = Append(@, piece)]
          /\ lines' = [lines EXCEPT ![o] = IF piece = "end" THEN @ + 1 ELSE @]
    BY <1>2 DEF Write, Pieces
  <2>2. Append(wire[o], piece) \in Seq(Pieces)
    BY AppendProperties
  <2>3. wire' \in [Operators -> Seq(Pieces)]
    BY <2>1, <2>2
  <2>4. lines' \in [Operators -> Nat]
    BY <2>1
  <2> QED
    BY <1>2, <2>3, <2>4 DEF Write
<1>3. ASSUME NEW o \in Operators, Leave(o)
      PROVE  IType'
  BY <1>3 DEF Leave
<1>4. CASE Accept
  <2>1. backlog # <<>> => Head(backlog) \in Clients /\ Tail(backlog) \in Seq(Clients)
    BY HeadTailProperties
  <2>2. <<>> \in Seq(Clients)
    BY EmptySeq
  <2> QED
    BY <1>4, <2>1, <2>2 DEF Accept, Close
<1>5. CASE Crash
  <2>1. <<>> \in Seq(Clients)
    BY EmptySeq
  <2> QED
    BY <1>5, <2>1 DEF Crash, Close
<1>6. CASE Read
  <2>1. client \in Operators /\ wire[client] \in Seq(Pieces)
    BY <1>6 DEF Read, Served
  <2>2. PICK k \in 1 .. Len(wire[client]) :
          /\ pending' = pending \o SubSeq(wire[client], 1, k)
          /\ wire' = [wire EXCEPT ![client] = SubSeq(@, k + 1, Len(@))]
    BY <1>6 DEF Read
  <2>3. SubSeq(wire[client], 1, k) \in Seq(Pieces)
    <3>1. Len(wire[client]) \in Nat /\ 1 \in Int /\ k \in Int
          /\ \A j \in 1 .. k : wire[client][j] \in Pieces
      BY <2>1, LenProperties, ElementOfSeq
    <3> QED
      BY <3>1, SubSeqProperties
  <2>4. SubSeq(wire[client], k + 1, Len(wire[client])) \in Seq(Pieces)
    <3> DEFINE n == Len(wire[client])
    <3>1. n \in Nat /\ k + 1 \in Int /\ n \in Int
          /\ \A j \in k + 1 .. n : wire[client][j] \in Pieces
      BY <2>1, LenProperties, ElementOfSeq
    <3> HIDE DEF n
    <3>2. SubSeq(wire[client], k + 1, n) \in Seq(Pieces)
      BY <3>1, SubSeqProperties
    <3> QED
      BY <3>2 DEF n
  <2>5. pending' \in Seq(Pieces)
    BY <2>2, <2>3, ConcatProperties
  <2>6. wire' \in [Operators -> Seq(Pieces)]
    BY <2>2, <2>4
  <2> QED
    BY <1>6, <2>5, <2>6 DEF Read
<1>7. CASE StopReading
  BY <1>7 DEF StopReading
<1>13. CASE Hangup
  <2>1. <<>> \in Seq(Pieces)
    BY EmptySeq
  <2> QED
    BY <1>13, <2>1 DEF Hangup, Close
<1>8. CASE Answer
  <2>1. CASE ~Contains(pending, "end")
    <3>1. <<>> \in Seq(Pieces) /\ <<"part">> \in Seq(Pieces)
      BY EmptySeq DEF Pieces
    <3>2. pending' \in Seq(Pieces)
      BY <1>8, <2>1, <3>1 DEF Answer
    <3> QED
      BY <1>8, <2>1, <3>2 DEF Answer
  <2>2. CASE Contains(pending, "end")
    <3>1. client \in Operators
      BY <1>8 DEF Answer, Served
    <3>2. obeyed' \in [Operators -> Nat]
      <4>1. obeyed' = [obeyed EXCEPT ![client] = @ + 1]
        BY <1>8, <2>2 DEF Answer
      <4> QED
        BY <3>1, <4>1
    <3>3. answered' \in [Operators -> Nat]
      <4>1. answered' = [answered EXCEPT ![client] = @ + 1] \/ answered' = answered
        BY <1>8, <2>2 DEF Answer
      <4>2. [answered EXCEPT ![client] = @ + 1] \in [Operators -> Nat]
        BY <3>1
      <4> QED
        BY <4>1, <4>2
    <3>4. SubSeq(pending, FirstEnd(pending) + 1, Len(pending)) \in Seq(Pieces)
      BY <2>2, EmptySeq, EndsAfterOne
    <3>5. pending' \in Seq(Pieces)
      BY <1>8, <2>2, <3>4 DEF Answer, FirstEnd
    <3> QED
      BY <1>8, <2>2, <3>2, <3>3, <3>5 DEF Answer
  <2> QED
    BY <2>1, <2>2
<1>9. CASE Stop
  BY <1>9 DEF Stop
<1>10. CASE PokeAcceptor
  <2>1. Append(backlog, Poke) \in Seq(Clients)
    BY AppendProperties DEF Clients
  <2> QED
    BY <1>10, <2>1 DEF PokeAcceptor
<1>11. CASE JoinAcceptor
  BY <1>11 DEF JoinAcceptor
<1>12. CASE Over
  BY <1>12 DEF Over
<1> QED
  BY <1>1, <1>2, <1>3, <1>4, <1>5, <1>6, <1>7, <1>8, <1>9, <1>10, <1>11, <1>12, <1>13
     DEF Next, AcceptorStep, OwnerStep

-----------------------------------------------------------------------------
(* Who is served, and who waits.                                            *)

LEMMA ServedStep ==
  ASSUME IType, Served, Queue, Next
  PROVE  Served'
<1> USE DEF IType, vars, serving, stream, counts
<1>1. ASSUME NEW o \in Operators, Connect(o) \/ Write(o) \/ Leave(o)
      PROVE  Served'
  BY <1>1 DEF Connect, Write, Leave, Served
<1>2. CASE Accept
  <2>1. CASE stopping
    BY <1>2, <2>1 DEF Accept, Served
  <2>2. CASE ~stopping
    <3>1. 1 \in 1 .. Len(backlog) /\ Head(backlog) = backlog[1] /\ backlog[1] \in Clients
      BY <1>2, EmptySeq, ElementOfSeq DEF Accept
    <3>2. client' \in Operators
      BY <1>2, <2>2, <3>1 DEF Accept, Queue, Clients
    <3>3. pending' = <<>>
      BY <1>2 DEF Accept, Served
    <3>4. ~Contains(<<>>, "end")
      BY DEF Contains
    <3> QED
      BY <1>2, <2>2, <3>2, <3>3, <3>4 DEF Accept, Served
  <2> QED
    BY <2>1, <2>2
<1>3. CASE Crash
  BY <1>3 DEF Crash, Served
<1>4. CASE Read
  BY <1>4 DEF Read, Served
<1>5. CASE StopReading \/ Hangup
  BY <1>5 DEF StopReading, Hangup, Served
<1>6. CASE Answer
  <2>1. CASE ~Contains(pending, "end")
    <3>1. ~Contains(<<>>, "end") /\ ~Contains(<<"part">>, "end")
      BY DEF Contains
    <3>2. client \in Operators /\ client' = client /\ acceptor' = "reading"
      BY <1>6, <2>1 DEF Answer, Served
    <3>3. pending' = <<>> \/ pending' = <<"part">>
      BY <1>6, <2>1 DEF Answer
    <3> QED
      BY <3>1, <3>2, <3>3 DEF Served
  <2>2. CASE Contains(pending, "end")
    BY <1>6, <2>2 DEF Answer, Served
  <2> QED
    BY <2>1, <2>2
<1>7. CASE Stop \/ PokeAcceptor \/ JoinAcceptor \/ Over
  BY <1>7 DEF Stop, PokeAcceptor, JoinAcceptor, Over, Served
<1> QED
  BY <1>1, <1>2, <1>3, <1>4, <1>5, <1>6, <1>7 DEF Next, AcceptorStep, OwnerStep

LEMMA ToldStep ==
  ASSUME IType, Told, Next
  PROVE  Told'
BY DEF Told, Next, AcceptorStep, OwnerStep, Connect, Write, Leave, Accept, Crash, Read,
       StopReading, Hangup, Answer, Stop, PokeAcceptor, JoinAcceptor, Over, IType, vars

LEMMA QueueStep ==
  ASSUME IType, Served, Queue, Told, Next
  PROVE  Queue'
<1> USE DEF IType, vars, serving, stream, counts
<1>0. Poke \notin Operators /\ Nobody \notin Operators /\ Len(backlog) \in Nat
  BY OperatorsAssumption, LenProperties
<1>1. ASSUME NEW o \in Operators, Connect(o)
      PROVE  Queue'
  <2>1. link' = [link EXCEPT ![o] = "up"] /\ client' = client /\ stopping' = stopping
    BY <1>1 DEF Connect
  <2>2. /\ backlog' = Append(backlog, o) /\ Len(backlog') = Len(backlog) + 1
        /\ \A i \in 1 .. Len(backlog) : backlog'[i] = backlog[i]
        /\ backlog'[Len(backlog) + 1] = o
    BY <1>1, AppendProperties DEF Connect, Clients
  <2>3. \A i \in 1 .. Len(backlog) : backlog[i] # o
    BY <1>1 DEF Queue, Connected, Connect
  <2>4. client \in Operators => client # o
    BY <1>1 DEF Queue, Connected, Connect
  <2>5. \A i \in 1 .. Len(backlog') : i \in 1 .. Len(backlog) \/ i = Len(backlog) + 1
    BY <1>0, <2>2
  <2>6. client' \in Operators => Connected(client)' /\ ~Contains(backlog, client)'
    BY <2>1, <2>2, <2>4, <2>5 DEF Queue, Connected, Contains
  <2>7. \A i \in 1 .. Len(backlog') : backlog'[i] = Poke => stopping'
    BY <1>0, <2>1, <2>2, <2>5 DEF Queue
  <2>8. \A i \in 1 .. Len(backlog') : backlog'[i] \in Operators => link'[backlog'[i]] \in {"up", "left"}
    BY <2>1, <2>2, <2>5 DEF Queue, Connected
  <2>9. \A i, j \in 1 .. Len(backlog') :
          backlog'[i] \in Operators /\ backlog'[j] = backlog'[i] => j = i
    <3>1. \A i, j \in 1 .. Len(backlog) :
            backlog[i] \in Operators /\ backlog[j] = backlog[i] => j = i
      BY DEF Queue
    <3> TAKE i \in 1 .. Len(backlog'), j \in 1 .. Len(backlog')
    <3>2. i \in 1 .. Len(backlog) => backlog'[i] = backlog[i] /\ backlog'[i] # o
      BY <2>2, <2>3
    <3>3. j \in 1 .. Len(backlog) => backlog'[j] = backlog[j] /\ backlog'[j] # o
      BY <2>2, <2>3
    <3>4. i \in 1 .. Len(backlog) \/ (i = Len(backlog) + 1 /\ backlog'[i] = o)
      BY <2>2, <2>5
    <3>5. j \in 1 .. Len(backlog) \/ (j = Len(backlog) + 1 /\ backlog'[j] = o)
      BY <2>2, <2>5
    <3> QED
      BY <3>1, <3>2, <3>3, <3>4, <3>5
  <2> QED
    BY <2>6, <2>7, <2>8, <2>9 DEF Queue, Connected
<1>2. ASSUME NEW o \in Operators, Write(o)
      PROVE  Queue'
  BY <1>2 DEF Write, Queue, Connected, Contains
<1>3. ASSUME NEW o \in Operators, Leave(o)
      PROVE  Queue'
  <2>1. \A q \in Operators : link[q] \in {"up", "left"} => link'[q] \in {"up", "left"}
    BY <1>3 DEF Leave
  <2>2. UNCHANGED <<client, backlog, stopping>>
    BY <1>3 DEF Leave
  <2> QED
    BY <2>1, <2>2 DEF Queue, Connected, Contains
<1>4. CASE Accept
  <2>1. client \notin Operators
    BY <1>0, <1>4 DEF Accept, Served
  <2>2. CASE stopping
    <3>1. client' = client /\ Len(backlog') = 0
      BY <1>4, <2>2, EmptySeq DEF Accept
    <3>2. \A i \in 1 .. Len(backlog') : FALSE
      BY <3>1
    <3> QED
      BY <2>1, <3>1, <3>2 DEF Queue
  <2>3. CASE ~stopping
    <3>1. /\ client' = backlog[1] /\ backlog' = Tail(backlog) /\ link' = link /\ stopping' = stopping
          /\ Len(backlog) >= 1
      BY <1>4, <2>3, EmptySeq DEF Accept
    <3>2. /\ Len(backlog') = Len(backlog) - 1
          /\ \A i \in 1 .. Len(backlog') : backlog'[i] = backlog[i + 1]
      BY <1>4, <3>1, HeadTailProperties DEF Accept
    <3>3. 1 \in 1 .. Len(backlog)
          /\ \A i \in 1 .. Len(backlog') : i + 1 \in 1 .. Len(backlog) /\ i + 1 # 1
      BY <1>0, <3>1, <3>2
    <3>4. client' \in Operators => Connected(client)' /\ ~Contains(backlog, client)'
      BY <3>1, <3>2, <3>3 DEF Queue, Connected, Contains
    <3>5. \A i \in 1 .. Len(backlog') :
            /\ backlog'[i] = Poke => stopping'
            /\ backlog'[i] \in Operators => link'[backlog'[i]] \in {"up", "left"}
      <4>1. \A i \in 1 .. Len(backlog) :
              /\ backlog[i] = Poke => stopping
              /\ backlog[i] \in Operators => link[backlog[i]] \in {"up", "left"}
        BY DEF Queue, Connected
      <4> QED
        BY <3>1, <3>2, <3>3, <4>1
    <3>6. \A i, j \in 1 .. Len(backlog') :
            backlog'[i] \in Operators /\ backlog'[j] = backlog'[i] => j = i
      <4>1. \A i, j \in 1 .. Len(backlog') : j + 1 = i + 1 => j = i
        BY <1>0, <3>2
      <4> QED
        BY <3>2, <3>3, <4>1 DEF Queue
    <3> QED
      BY <3>4, <3>5, <3>6 DEF Queue, Connected
  <2> QED
    BY <2>2, <2>3
<1>5. CASE Crash
  <2>1. client' \notin Operators /\ Len(backlog') = 0
    BY <1>0, <1>5, EmptySeq DEF Crash, Served
  <2>2. \A i \in 1 .. Len(backlog') : FALSE
    BY <2>1
  <2> QED
    BY <2>1, <2>2 DEF Queue
<1>6. CASE Read
  BY <1>6 DEF Read, Queue, Connected, Contains
<1>7. CASE Hangup
  <2>1. client \in Operators /\ UNCHANGED <<backlog, stopping>>
    BY <1>7 DEF Hangup, Served
  <2>2. \A q \in Operators : q # client => link'[q] = link[q]
    BY <1>7 DEF Hangup, Close
  <2>3. \A i \in 1 .. Len(backlog) : backlog[i] # client
    BY <2>1 DEF Queue, Contains
  <2>4. client' \notin Operators
    BY <1>0, <1>7 DEF Hangup
  <2> QED
    BY <2>1, <2>2, <2>3, <2>4 DEF Queue, Connected
<1>8. CASE StopReading
  BY <1>8 DEF StopReading, Queue, Connected, Contains
<1>9. CASE Answer
  <2>1. UNCHANGED <<client, link, backlog, stopping>>
    BY <1>9 DEF Answer
  <2> QED
    BY <2>1 DEF Queue, Connected, Contains
<1>10. CASE Stop
  BY <1>10 DEF Stop, Queue, Connected, Contains
<1>11. CASE PokeAcceptor
  <2>1. CASE backlog' = backlog
    BY <1>11, <2>1 DEF PokeAcceptor, Queue, Connected, Contains
  <2>2. CASE backlog' = Append(backlog, Poke)
    <3>1. UNCHANGED <<client, link, stopping>>
      BY <1>11 DEF PokeAcceptor
    <3>2. stopping
      BY <1>11 DEF PokeAcceptor, Told
    <3>3. /\ Len(backlog') = Len(backlog) + 1
          /\ \A i \in 1 .. Len(backlog) : backlog'[i] = backlog[i]
          /\ backlog'[Len(backlog) + 1] = Poke
      BY <2>2, AppendProperties DEF Clients
    <3>4. \A i \in 1 .. Len(backlog') : i \in 1 .. Len(backlog) \/ backlog'[i] = Poke
      <4> TAKE i \in 1 .. Len(backlog')
      <4>1. i \in 1 .. Len(backlog) \/ i = Len(backlog) + 1
        <5>1. Len(backlog') = Len(backlog) + 1 /\ Len(backlog) \in Nat
          BY <1>0, <3>3
        <5> QED
          BY <5>1
      <4> QED
        BY <3>3, <4>1
    <3>5. client' \in Operators => Connected(client)' /\ ~Contains(backlog, client)'
      BY <1>0, <3>1, <3>3, <3>4 DEF Queue, Connected, Contains
    <3>6. \A i \in 1 .. Len(backlog') :
            backlog'[i] \in Operators => link'[backlog'[i]] \in {"up", "left"}
      BY <1>0, <3>1, <3>3, <3>4 DEF Queue, Connected
    <3>7. \A i, j \in 1 .. Len(backlog') :
            backlog'[i] \in Operators /\ backlog'[j] = backlog'[i] => j = i
      BY <1>0, <3>3, <3>4 DEF Queue
    <3> QED
      BY <3>1, <3>2, <3>5, <3>6, <3>7 DEF Queue, Connected
  <2> QED
    BY <1>11, <2>1, <2>2 DEF PokeAcceptor
<1>12. CASE JoinAcceptor \/ Over
  BY <1>12 DEF JoinAcceptor, Over, Queue, Connected, Contains
<1> QED
  BY <1>1, <1>2, <1>3, <1>4, <1>5, <1>6, <1>7, <1>8, <1>9, <1>10, <1>11, <1>12
     DEF Next, AcceptorStep, OwnerStep

-----------------------------------------------------------------------------
(* Lines.  What is said of one operator, and the ways it can change.        *)

Unread(o) == IF client = o THEN pending \o wire[o] ELSE wire[o]

Settled(o) ==
  /\ answered[o] <= obeyed[o] /\ obeyed[o] <= lines[o]
  /\ IF GivenUp(o) THEN obeyed[o] <= answered[o] + 1 ELSE answered[o] = obeyed[o]
  /\ link[o] # "over" => obeyed[o] + Ends(Unread(o)) = lines[o]

LEMMA AllSettled == LinesObeyedOnce <=> \A o \in Operators : Settled(o)
  BY DEF LinesObeyedOnce, Settled, Unobeyed, Unread

LEMMA PiecesAssociate ==
  \A s, t, u \in Seq(Pieces) : (s \o t) \o u = s \o (t \o u)
  BY ConcatAssociative

LEMMA UnreadIsPieces ==
  ASSUME IType, NEW o \in Operators
  PROVE  Unread(o) \in Seq(Pieces)
<1>1. wire[o] \in Seq(Pieces) /\ pending \in Seq(Pieces)
  BY DEF IType
<1> QED
  BY <1>1, ConcatProperties DEF Unread

(* A step that leaves an operator's counts and what is unread of his alone, *)
(* or ends his connection.                                                  *)
LEMMA SettledStays ==
  ASSUME NEW o \in Operators, Settled(o), obeyed[o] \in Nat, answered[o] \in Nat,
         answered'[o] = answered[o], obeyed'[o] = obeyed[o], lines'[o] = lines[o],
         GivenUp(o) => GivenUp(o)',
         link'[o] # "over" => link[o] # "over" /\ Unread(o)' = Unread(o)
  PROVE  Settled(o)'
  BY DEF Settled

(* Once a connection is given up it remains so.                             *)
LEMMA GivenUpStays ==
  ASSUME IType, Served, Queue, Next, NEW o \in Operators, GivenUp(o)
  PROVE  GivenUp(o)'
<1> USE DEF GivenUp, IType, vars, serving
<1>1. link[o] = "over" => link'[o] = "over"
  BY DEF Next, AcceptorStep, OwnerStep, Connect, Write, Leave, Accept, Crash, Read, StopReading,
         Hangup, Close, Answer, Stop, PokeAcceptor, JoinAcceptor, Over
<1>2. ASSUME client = o, acceptor = "leaving" PROVE GivenUp(o)'
  <2>1. CASE Hangup
    <3>1. link[o] # "unused"
      BY <1>2 DEF Queue, Connected
    <3> QED
      BY <1>2, <2>1, <3>1 DEF Hangup, Close
  <2>2. CASE ~Hangup
    <3>1. client' = client /\ acceptor' = acceptor
      BY <1>2, <2>2 DEF Next, AcceptorStep, OwnerStep, Connect, Write, Leave, Accept, Crash, Read,
         StopReading, Answer, Stop, PokeAcceptor, JoinAcceptor, Over
    <3> QED
      BY <1>2, <3>1
  <2> QED
    BY <2>1, <2>2
<1> QED
  BY <1>1, <1>2

LEMMA LinesStep ==
  ASSUME Inv, Next
  PROVE  LinesObeyedOnce'
<1> SUFFICES ASSUME NEW o \in Operators
             PROVE  Settled(o)'
  BY AllSettled DEF LinesObeyedOnce, Settled, Unobeyed, Unread, GivenUp
<1> USE DEF vars, serving, stream, counts
<1>0. /\ Settled(o) /\ IType /\ Served /\ Queue
      /\ wire[o] \in Seq(Pieces) /\ pending \in Seq(Pieces)
      /\ lines[o] \in Nat /\ obeyed[o] \in Nat /\ answered[o] \in Nat
      /\ Unread(o) \in Seq(Pieces) /\ (GivenUp(o) => GivenUp(o)')
  BY AllSettled, UnreadIsPieces, GivenUpStays DEF Inv, IType
<1>00. Poke \notin Operators /\ Nobody \notin Operators
  BY OperatorsAssumption
<1>01. lines[o] \in Nat /\ obeyed[o] \in Nat /\ answered[o] \in Nat
  BY <1>0
<1>1. ASSUME NEW p \in Operators, Connect(p)
      PROVE  Settled(o)'
  <2>1. link'[o] # "over" => link[o] # "over"
    BY <1>0, <1>1 DEF Connect, IType
  <2>2. Unread(o)' = Unread(o)
    BY <1>1 DEF Connect, Unread
  <2> QED
    BY <1>0, <1>1, <2>1, <2>2, SettledStays DEF Connect
<1>2. ASSUME NEW p \in Operators, Write(p)
      PROVE  Settled(o)'
  <2>1. PICK piece \in Pieces :
          /\ wire' = [wire EXCEPT ![p] = Append(@, piece)]
          /\ lines' = [lines EXCEPT ![p] = IF piece = "end" THEN @ + 1 ELSE @]
    BY <1>2 DEF Write, Pieces
  <2>2. link' = link /\ client' = client /\ pending' = pending /\ answered' = answered
        /\ obeyed' = obeyed
    BY <1>2 DEF Write
  <2>3. CASE p # o
    <3>1. wire'[o] = wire[o] /\ lines'[o] = lines[o]
      BY <2>1, <2>3, <1>0 DEF IType
    <3>2. Unread(o)' = Unread(o)
      BY <2>2, <3>1 DEF Unread
    <3> QED
      BY <1>0, <2>2, <3>1, <3>2, SettledStays
  <2>4. CASE p = o
    <3>1. wire'[o] = Append(wire[o], piece)
      BY <2>1, <2>4, <1>0 DEF IType
    <3>2. pending \o Append(wire[o], piece) = Append(pending \o wire[o], piece)
      <4> DEFINE end == <<piece>>
      <4>1. Append(wire[o], piece) = wire[o] \o end
        BY <1>0, AppendIsConcat
      <4>2. Append(pending \o wire[o], piece) = (pending \o wire[o]) \o end
        <5>1. pending \o wire[o] \in Seq(Pieces)
          BY <1>0, ConcatProperties
        <5> QED
          BY <5>1, AppendIsConcat
      <4>3. end \in Seq(Pieces)
        OBVIOUS
      <4> HIDE DEF end
      <4>4. wire[o] \in Seq(Pieces) /\ pending \in Seq(Pieces)
        BY <1>0
      <4>5. (pending \o wire[o]) \o end = pending \o (wire[o] \o end)
        BY <4>3, <4>4, PiecesAssociate
      <4> QED
        BY <4>1, <4>2, <4>5, Zenon
    <3>3. Unread(o)' = Append(Unread(o), piece)
      BY <2>2, <3>1, <3>2 DEF Unread
    <3>4. lines'[o] = IF piece = "end" THEN lines[o] + 1 ELSE lines[o]
      BY <2>1, <2>4, <1>0 DEF IType
    <3>5. link[o] = "up" /\ acceptor' = acceptor /\ GivenUp(o)' = GivenUp(o)
      BY <1>2, <2>2, <2>4 DEF Write, GivenUp
    <3>6. Ends(Unread(o)) \in Nat
      BY <1>0, EndsFinite
    <3>7. CASE piece = "end"
      <4>1. Ends(Unread(o)') = Ends(Unread(o)) + 1
        BY <1>0, <3>3, <3>7, EndsAppend
      <4>2. /\ answered'[o] <= obeyed'[o] /\ obeyed'[o] <= lines'[o]
            /\ obeyed'[o] + Ends(Unread(o)') = lines'[o]
        <5>1. /\ answered[o] <= obeyed[o] /\ obeyed[o] <= lines[o]
              /\ obeyed[o] + Ends(Unread(o)) = lines[o]
          BY <1>0, <3>5 DEF Settled
        <5>2. lines'[o] = lines[o] + 1
          BY <3>4, <3>7
        <5> QED
          BY <1>01, <2>2, <3>6, <4>1, <5>1, <5>2
      <4> QED
        BY <1>0, <2>2, <3>5, <4>2 DEF Settled
    <3>8. CASE piece # "end"
      <4>1. Ends(Unread(o)') = Ends(Unread(o))
        BY <1>0, <3>3, <3>8, EndsAppend
      <4> QED
        BY <1>0, <2>2, <3>4, <3>5, <3>8, <4>1 DEF Settled
    <3> QED
      BY <3>7, <3>8
  <2> QED
    BY <2>3, <2>4
<1>3. ASSUME NEW p \in Operators, Leave(p)
      PROVE  Settled(o)'
  <2>1. link'[o] # "over" => link[o] # "over"
    BY <1>0, <1>3 DEF Leave, IType
  <2>2. Unread(o)' = Unread(o)
    BY <1>3 DEF Leave, Unread
  <2> QED
    BY <1>0, <1>3, <2>1, <2>2, SettledStays DEF Leave
<1>4. CASE Accept
  <2>1. UNCHANGED <<wire, lines, obeyed, answered>>
    BY <1>4 DEF Accept
  <2>2. client # o /\ pending = <<>> /\ pending' = <<>>
    BY <1>0, <1>00, <1>4 DEF Accept, Served
  <2>3. <<>> \o wire[o] = wire[o]
    BY <1>0, ConcatEmptySeq
  <2>4. Unread(o)' = Unread(o)
    BY <2>1, <2>2, <2>3 DEF Unread
  <2>5. link'[o] # "over" => link[o] # "over"
    BY <1>0, <1>4 DEF Accept, Close
  <2> QED
    BY <1>0, <2>1, <2>4, <2>5, SettledStays
<1>5. CASE Crash
  <2>1. link'[o] # "over" => link[o] # "over"
    BY <1>0, <1>5 DEF Crash, Close
  <2>2. Unread(o)' = Unread(o)
    BY <1>5 DEF Crash, Unread
  <2> QED
    BY <1>0, <1>5, <2>1, <2>2, SettledStays DEF Crash
<1>6. CASE Read
  <2>1. /\ client \in Operators /\ client' = client
        /\ UNCHANGED <<link, lines, obeyed, answered>>
    BY <1>0, <1>6 DEF Read, Served
  <2>2. PICK k \in 1 .. Len(wire[client]) :
          /\ pending' = pending \o SubSeq(wire[client], 1, k)
          /\ wire' = [wire EXCEPT ![client] = SubSeq(@, k + 1, Len(@))]
    BY <1>6 DEF Read
  <2>3. CASE client # o
    <3>1. wire'[o] = wire[o]
      BY <1>0, <2>2, <2>3 DEF IType
    <3>2. Unread(o)' = Unread(o)
      BY <2>1, <2>3, <3>1 DEF Unread
    <3> QED
      BY <1>0, <2>1, <3>2, SettledStays
  <2>4. CASE client = o
    <3> DEFINE w == wire[o]
               n == Len(w)
               a == SubSeq(w, 1, k)
               b == SubSeq(w, k + 1, n)
    <3>1. pending' = pending \o a /\ wire'[o] = b
      BY <1>0, <2>2, <2>4 DEF IType
    <3>2. n \in Nat /\ k \in Nat /\ 1 <= k /\ k <= n
      BY <1>0, <2>2, <2>4, LenProperties
    <3>3. a \in Seq(Pieces)
      <4>1. \A j \in 1 .. k : w[j] \in Pieces
        BY <1>0, <3>2, ElementOfSeq
      <4> QED
        BY <3>2, <4>1, SubSeqProperties
    <3>4. b \in Seq(Pieces)
      <4>1. \A j \in k + 1 .. n : w[j] \in Pieces
        BY <1>0, <3>2, ElementOfSeq
      <4>2. k + 1 \in Int /\ n \in Int
        BY <3>2
      <4> HIDE DEF n
      <4> QED
        BY <4>1, <4>2, SubSeqProperties
    <3>5. a \o b = w
      <4>1. 1 \in 1 .. Len(w) + 1 /\ k \in 1 - 1 .. Len(w) /\ n \in k .. Len(w)
        BY <3>2
      <4>2. a \o b = SubSeq(w, 1, n)
        BY <1>0, <4>1, ConcatAdjacentSubSeq
      <4> QED
        BY <1>0, <4>2, SubSeqFull
    <3>6. (pending \o a) \o b = pending \o w
      <4> HIDE DEF a, b, w
      <4>1. (pending \o a) \o b = pending \o (a \o b)
        BY <1>0, <3>3, <3>4, PiecesAssociate, ZenonT(60)
      <4> QED
        BY <3>5, <4>1
    <3>7. Unread(o)' = Unread(o)
      BY <2>1, <2>4, <3>1, <3>6 DEF Unread
    <3> QED
      BY <1>0, <2>1, <3>7, SettledStays
  <2> QED
    BY <2>3, <2>4
<1>7. CASE Hangup
  <2>1. client \in Operators /\ UNCHANGED <<stream, counts>>
    BY <1>0, <1>7 DEF Hangup, Served
  <2>2. CASE client # o
    <3>1. link'[o] = link[o] /\ client' # o
      BY <1>00, <1>7, <2>2 DEF Hangup, Close
    <3>2. Unread(o)' = Unread(o)
      BY <2>1, <2>2, <3>1 DEF Unread
    <3> QED
      BY <1>0, <2>1, <3>1, <3>2, SettledStays
  <2>3. CASE client = o
    <3>1. link'[o] = "over"
      BY <1>0, <1>7, <2>3 DEF Hangup, Close, Queue, Connected
    <3> QED
      BY <1>0, <2>1, <3>1, SettledStays
  <2> QED
    BY <2>2, <2>3
<1>8. CASE StopReading
  <2>1. UNCHANGED <<client, pending, link, stream, counts>>
    BY <1>8 DEF StopReading
  <2>2. Unread(o)' = Unread(o)
    BY <2>1 DEF Unread
  <2> QED
    BY <1>0, <2>1, <2>2, SettledStays
<1>9. CASE Answer
  <2>1. client \in Operators /\ UNCHANGED <<client, link, stream>> /\ acceptor = "answering"
    BY <1>0, <1>9 DEF Answer, Served
  <2>2. CASE client # o
    <3>1. obeyed'[o] = obeyed[o] /\ answered'[o] = answered[o]
      BY <1>0, <1>9, <2>2 DEF Answer, IType
    <3>2. Unread(o)' = Unread(o)
      BY <2>1, <2>2 DEF Unread
    <3> QED
      BY <1>0, <2>1, <3>1, <3>2, SettledStays
  <2>3. CASE ~Contains(pending, "end") /\ client = o
    <3>1. UNCHANGED counts /\ (pending' = <<>> \/ pending' = <<"part">>)
      BY <1>9, <2>3 DEF Answer
    <3>2. pending' \in Seq(Pieces) /\ ~Contains(pending', "end")
      <4>1. <<>> \in Seq(Pieces) /\ <<"part">> \in Seq(Pieces)
        BY EmptySeq DEF Pieces
      <4>2. ~Contains(<<>>, "end") /\ ~Contains(<<"part">>, "end")
        BY DEF Contains
      <4> QED
        BY <3>1, <4>1, <4>2
    <3>3. Ends(pending \o wire[o]) = Ends(wire[o])
      BY <1>0, <2>3, EndsOfTheRest
    <3>4. \A q \in Seq(Pieces) : ~Contains(q, "end") => Ends(q \o wire[o]) = Ends(wire[o])
      BY <1>0, EndsOfTheRest
    <3>5. Unread(o) = pending \o wire[o] /\ Unread(o)' = pending' \o wire[o]
      BY <2>1, <2>3 DEF Unread
    <3>6. Ends(Unread(o)') = Ends(Unread(o))
      BY <3>2, <3>3, <3>4, <3>5
    <3>7. ~GivenUp(o) => ~GivenUp(o)'
      BY <1>9, <2>1, <2>3 DEF Answer, GivenUp
    <3> QED
      BY <1>0, <2>1, <3>1, <3>6, <3>7 DEF Settled
  <2>4. CASE Contains(pending, "end") /\ client = o
    <3> DEFINE rest == SubSeq(pending, FirstEnd(pending) + 1, Len(pending))
    <3>1. obeyed'[o] = obeyed[o] + 1 /\ pending' = rest
      BY <1>0, <1>9, <2>4 DEF Answer, IType, FirstEnd
    <3>2. link[o] # "over"
      BY <1>0, <2>4 DEF Queue, Connected
    <3>3. rest \in Seq(Pieces) /\ Ends(pending \o wire[o]) = Ends(rest \o wire[o]) + 1
      BY <1>0, <2>4, EndsAfterOne
    <3>4. Ends(rest \o wire[o]) \in Nat
      BY <1>0, <3>3, ConcatProperties, EndsFinite
    <3>5. Unread(o) = pending \o wire[o] /\ Unread(o)' = rest \o wire[o]
      BY <2>1, <2>4, <3>1 DEF Unread
    <3> HIDE DEF rest
    <3>6. /\ answered[o] = obeyed[o] /\ obeyed[o] + 1 <= lines[o]
          /\ (obeyed[o] + 1) + Ends(rest \o wire[o]) = lines[o]
      <4>1. ~GivenUp(o)
        BY <2>1, <3>2 DEF GivenUp
      <4>2. answered[o] = obeyed[o] /\ obeyed[o] + Ends(pending \o wire[o]) = lines[o]
        BY <1>0, <3>2, <3>5, <4>1 DEF Settled
      <4> DEFINE e == Ends(rest \o wire[o])
      <4>3. e \in Nat /\ Ends(pending \o wire[o]) = e + 1
        BY <3>3, <3>4
      <4> HIDE DEF e
      <4>4. obeyed[o] + 1 <= lines[o] /\ (obeyed[o] + 1) + e = lines[o]
        BY <1>01, <4>2, <4>3
      <4> QED
        BY <4>2, <4>4 DEF e
    <3>7. CASE acceptor' = "leaving" /\ answered' = answered
      <4>1. GivenUp(o)'
        BY <2>1, <2>4, <3>7 DEF GivenUp
      <4> QED
        BY <1>0, <2>1, <3>1, <3>5, <3>6, <3>7, <4>1 DEF Settled
    <3>8. CASE answered' = [answered EXCEPT ![client] = @ + 1]
      <4>1. answered'[o] = answered[o] + 1
        BY <1>0, <2>4, <3>8 DEF IType
      <4> QED
        BY <1>0, <2>1, <3>1, <3>5, <3>6, <4>1 DEF Settled
    <3> QED
      BY <1>9, <2>4, <3>7, <3>8 DEF Answer
  <2> QED
    BY <2>2, <2>3, <2>4
<1>10. CASE Stop \/ PokeAcceptor \/ JoinAcceptor \/ Over
  <2>1. UNCHANGED <<link, client, pending, stream, counts>>
    BY <1>10 DEF Stop, PokeAcceptor, JoinAcceptor, Over
  <2>2. Unread(o)' = Unread(o)
    BY <2>1 DEF Unread
  <2> QED
    BY <1>0, <2>1, <2>2, SettledStays
<1> QED
  BY <1>1, <1>2, <1>3, <1>4, <1>5, <1>6, <1>7, <1>8, <1>9, <1>10
     DEF Inv, Next, AcceptorStep, OwnerStep

-----------------------------------------------------------------------------

LEMMA InvInit ==
  ASSUME Init
  PROVE  Inv
<1>1. IType
  <2>1. <<>> \in Seq(Pieces) /\ <<>> \in Seq(Clients)
    BY EmptySeq
  <2> QED
    BY <2>1 DEF Init, IType
<1>2. ~Contains(<<>>, "end") /\ \A c \in Operators : ~Contains(<<>>, c)
  BY DEF Contains
<1>3. Nobody \notin Operators /\ Len(backlog) = 0
  BY OperatorsAssumption, EmptySeq DEF Init
<1>4. Served /\ Told
  BY <1>2 DEF Init, Served, Told
<1>5. Queue
  <2>1. \A i \in 1 .. Len(backlog) : FALSE
    BY <1>3
  <2> QED
    BY <1>3, <2>1 DEF Init, Queue
<1>6. \A o \in Operators : Settled(o)
  <2> TAKE o \in Operators
  <2>1. Unread(o) = <<>>
    BY <1>3 DEF Init, Unread
  <2>2. <<>> \in Seq(Pieces) /\ ~Contains(<<>>, "end")
    BY <1>2, EmptySeq
  <2>3. Ends(<<>>) = 0
    BY <2>2, EndsNone
  <2> QED
    BY <2>1, <2>3 DEF Init, Settled, GivenUp
<1> QED
  BY <1>1, <1>4, <1>5, <1>6, AllSettled DEF Inv

LEMMA InvStep ==
  ASSUME Inv, [Next]_vars
  PROVE  Inv'
<1>1. CASE Next
  <2>1. IType' /\ Served' /\ Told' /\ Queue'
    BY <1>1, TypesStep, ServedStep, ToldStep, QueueStep DEF Inv
  <2> QED
    BY <1>1, <2>1, LinesStep DEF Inv
<1>2. CASE UNCHANGED vars
  BY <1>2 DEF Inv, IType, Served, Queue, Told, Connected, Contains, LinesObeyedOnce, Unobeyed,
              Ends, GivenUp, vars, serving, stream, counts
<1> QED
  BY <1>1, <1>2

LEMMA AlwaysInv == Spec => []Inv
<1>1. Init /\ [][Next]_vars => []Inv
  BY InvInit, InvStep, PTL
<1> QED
  BY <1>1, PTL DEF Spec, Safety

(* An operator's lines are obeyed in order, each at most once and only when *)
(* it has arrived whole, and none is skipped, however the stream is cut up  *)
(* (control.cpp:26-66).                                                     *)
THEOREM LinesAreObeyedOnce == Spec => []LinesObeyedOnce
  BY AlwaysInv, PTL DEF Inv

(* The server gives up an operator who is still there only when every line  *)
(* of his that has arrived is obeyed and answered, or when the reply to the *)
(* last one obeyed could not be written (control.cpp:33-41, 44-65).         *)
THEOREM NoLineIsEverDropped == Spec => NoLineIsDropped
<1> DEFINE Gives(o) == client = o /\ link[o] = "up" /\ acceptor # "leaving" /\ acceptor' = "leaving"
           Kept == \A o \in Operators :
                     Gives(o) => answered[o] = lines[o] \/ obeyed'[o] = answered'[o] + 1
<1>1. ASSUME Inv, [Next]_vars
      PROVE  Kept
  <2> SUFFICES ASSUME NEW o \in Operators, Gives(o)
               PROVE  answered[o] = lines[o] \/ obeyed'[o] = answered'[o] + 1
    OBVIOUS
  <2>1. Next
    BY <1>1 DEF vars, serving
  <2>2. /\ IType /\ Served /\ Queue /\ Settled(o)
        /\ wire[o] \in Seq(Pieces) /\ pending \in Seq(Pieces)
        /\ lines[o] \in Nat /\ obeyed[o] \in Nat /\ ~GivenUp(o)
    BY <1>1, AllSettled DEF Inv, IType, GivenUp
  <2>3. ASSUME StopReading
        PROVE  answered[o] = lines[o]
    <3>1. wire[o] = <<>> /\ ~Contains(pending, "end")
      BY <2>2, <2>3 DEF StopReading, Served
    <3>2. pending \o <<>> = pending
      BY <2>2, ConcatEmptySeq
    <3>3. Ends(Unread(o)) = 0
      BY <2>2, <3>1, <3>2, EndsNone DEF Unread
    <3> QED
      BY <2>2, <3>3 DEF Settled
  <2>4. ASSUME Answer
        PROVE  obeyed'[o] = answered'[o] + 1
    <3>1. obeyed' = [obeyed EXCEPT ![o] = @ + 1] /\ answered' = answered
      BY <2>4 DEF Answer
    <3>2. answered[o] = obeyed[o]
      BY <2>2 DEF Settled
    <3> QED
      BY <2>2, <3>1, <3>2 DEF IType
  <2>5. StopReading \/ Answer
    BY <2>1 DEF Next, AcceptorStep, OwnerStep, Connect, Write, Leave, Accept, Crash, Read, Hangup,
       Stop, PokeAcceptor, JoinAcceptor, Over, vars, serving
  <2> QED
    BY <2>3, <2>4, <2>5
<1>2. Init /\ [][Next]_vars => [][Kept]_vars
  BY <1>1, InvInit, InvStep, PTL
<1> QED
  BY <1>2, PTL DEF Spec, Safety, NoLineIsDropped

-----------------------------------------------------------------------------
(* Http11Get: texts, and where their lines end.                             *)

(* The pieces of a text: which are not a CR, and which are not a header     *)
(* line.                                                                    *)
LEMMA Kinds ==
  /\ {Cr, Lf, Byte, Slash, Filler} \subseteq Piece
  /\ Fields \subseteq Piece /\ StatusLines \subseteq Piece
  /\ Lf # Cr /\ Byte # Cr /\ Slash # Cr /\ Filler # Cr
  /\ Cr.kind # "field" /\ Lf.kind # "field"
  /\ \A f \in Fields : f # Cr /\ f.kind = "field" /\ f.value \in Seq(Digits)
  /\ \A l \in StatusLines : l # Cr /\ l.kind # "field"
<1>1. Cr.kind = "cr" /\ Lf.kind = "lf" /\ Byte.kind = "byte" /\ Slash.kind = "slash"
      /\ Filler.kind = "field"
  BY DEF Cr, Lf, Byte, Slash, Filler, Field
<1>2. \A f \in Fields : f.kind = "field" /\ f.value \in Seq(Digits)
  BY DEF Fields
<1>3. \A l \in StatusLines : l.kind = "status"
  BY DEF StatusLines
<1> QED
  BY <1>1, <1>2, <1>3 DEF Piece

(* Two texts, one after the other.                                          *)
LEMMA Joined ==
  ASSUME NEW s \in Text, NEW u \in Text
  PROVE  /\ s \o u \in Text /\ Len(s \o u) = Len(s) + Len(u)
         /\ Len(s) \in Nat /\ Len(u) \in Nat
         /\ \A k \in 1 .. Len(s) : (s \o u)[k] = s[k]
         /\ \A k \in 1 .. Len(u) : (s \o u)[Len(s) + k] = u[k]
<1>1. Len(s) \in Nat /\ Len(u) \in Nat
  BY LenProperties DEF Text
<1>2. /\ s \o u \in Text /\ Len(s \o u) = Len(s) + Len(u)
      /\ \A i \in 1 .. Len(s) + Len(u) :
           (s \o u)[i] = IF i <= Len(s) THEN s[i] ELSE u[i - Len(s)]
  BY ConcatProperties DEF Text
<1>3. ASSUME NEW k \in 1 .. Len(s) PROVE (s \o u)[k] = s[k]
  BY <1>1, <1>2
<1>4. ASSUME NEW k \in 1 .. Len(u) PROVE (s \o u)[Len(s) + k] = u[k]
  <2>1. Len(s) + k \in 1 .. Len(s) + Len(u) /\ ~(Len(s) + k <= Len(s))
        /\ (Len(s) + k) - Len(s) = k
    BY <1>1
  <2> QED
    BY <2>1, <1>2
<1> QED
  BY <1>1, <1>2, <1>3, <1>4

(* A part of a text, from one place to another.                             *)
LEMMA Part ==
  ASSUME NEW s \in Text, NEW m \in 1 .. Len(s) + 1, NEW n \in 0 .. Len(s), m <= n + 1
  PROVE  /\ SubSeq(s, m, n) \in Text /\ Len(SubSeq(s, m, n)) = n - m + 1
         /\ \A k \in 1 .. n - m + 1 : SubSeq(s, m, n)[k] = s[m + k - 1]
<1>1. Len(s) \in Nat
  BY LenProperties DEF Text
<1>2. m \in Int /\ n \in Int /\ \A i \in m .. n : s[i] \in Piece
  BY <1>1, ElementOfSeq DEF Text
<1>3. /\ SubSeq(s, m, n) \in Seq(Piece)
      /\ Len(SubSeq(s, m, n)) = IF m <= n THEN n - m + 1 ELSE 0
      /\ \A k \in 1 .. n - m + 1 : SubSeq(s, m, n)[k] = s[m + k - 1]
  BY <1>2, SubSeqProperties
<1> DEFINE l == Len(SubSeq(s, m, n))
<1>4. l = n - m + 1
  <2>1. l = IF m <= n THEN n - m + 1 ELSE 0
    BY <1>3
  <2> HIDE DEF l
  <2> QED
    BY <2>1, <1>2
<1> QED
  BY <1>3, <1>4 DEF Text

(* A blank line begins where a CR LF is followed by another.                *)
LEMMA Blank ==
  ASSUME NEW s \in Text, NEW i \in 1 .. Len(s) - 3
  PROVE  BlankAt(s, i) <=>
           s[i] = Cr /\ s[i + 1] = Lf /\ s[i + 2] = Cr /\ s[i + 3] = Lf
<1> DEFINE t == SubSeq(s, i, i + 3)
           b == CrLf \o CrLf
<1>1. Len(s) \in Nat
  BY LenProperties DEF Text
<1>2. i \in 1 .. Len(s) + 1 /\ i + 3 \in 0 .. Len(s) /\ i <= (i + 3) + 1
  BY <1>1
<1>3. /\ t \in Text /\ Len(t) = (i + 3) - i + 1
      /\ \A k \in 1 .. (i + 3) - i + 1 : t[k] = s[i + k - 1]
  <2> DEFINE j == i + 3
  <2>1. j \in 0 .. Len(s) /\ i <= j + 1
    BY <1>2
  <2> HIDE DEF j
  <2>2. /\ SubSeq(s, i, j) \in Text /\ Len(SubSeq(s, i, j)) = j - i + 1
        /\ \A k \in 1 .. j - i + 1 : SubSeq(s, i, j)[k] = s[i + k - 1]
    BY <1>2, <2>1, Part
  <2> QED
    BY <2>2 DEF j
<1>4. (i + 3) - i + 1 = 4
  BY <1>1
<1>5. Len(t) = 4 /\ t[1] = s[i] /\ t[2] = s[i + 1] /\ t[3] = s[i + 2] /\ t[4] = s[i + 3]
  <2>1. Len(t) = 4 /\ \A k \in 1 .. 4 : t[k] = s[i + k - 1]
    BY <1>3, <1>4
  <2>2. i + 1 - 1 = i /\ i + 2 - 1 = i + 1 /\ i + 3 - 1 = i + 2 /\ i + 4 - 1 = i + 3
    BY <1>1
  <2> HIDE DEF t
  <2>3. t[1] = s[i + 1 - 1] /\ t[2] = s[i + 2 - 1] /\ t[3] = s[i + 3 - 1] /\ t[4] = s[i + 4 - 1]
    BY <2>1
  <2> QED
    BY <2>1, <2>2, <2>3
<1>6. b \in Text /\ Len(b) = 4 /\ b[1] = Cr /\ b[2] = Lf /\ b[3] = Cr /\ b[4] = Lf
  BY Kinds DEF CrLf, Text
<1>7. BlankAt(s, i) <=> t = b
  BY DEF BlankAt
<1> HIDE DEF t, b
<1>8. t[1] = b[1] /\ t[2] = b[2] /\ t[3] = b[3] /\ t[4] = b[4] => t = b
  <2>1. SUFFICES ASSUME t[1] = b[1], t[2] = b[2], t[3] = b[3], t[4] = b[4]
                 PROVE  t = b
    OBVIOUS
  <2>2. \A k \in 1 .. Len(t) : t[k] = b[k]
    <3>1. 1 .. Len(t) = {1, 2, 3, 4}
      BY <1>5
    <3> QED
      BY <2>1, <3>1
  <2>3. t \in Seq(Piece) /\ b \in Seq(Piece) /\ Len(t) = Len(b)
    BY <1>3, <1>5, <1>6 DEF Text
  <2> QED
    BY <2>2, <2>3, SeqEqual
<1> QED
  BY <1>5, <1>6, <1>7, <1>8

-----------------------------------------------------------------------------
(* The request.                                                             *)

(* Where the CRs of a text stand.                                           *)
Crs(s) == {k \in 1 .. Len(s) : s[k] = Cr}

(* Where they stand in a text and another, and in a text and a line end.    *)
LEMMA CrsJoined ==
  ASSUME NEW s \in Text, NEW u \in Text
  PROVE  /\ Crs(u) = {} => Crs(s \o u) = Crs(s)
         /\ s \o CrLf \in Text /\ Len(s \o CrLf) = Len(s) + 2
         /\ Crs(s \o CrLf) = Crs(s) \cup {Len(s) + 1}
<1>1. ASSUME NEW v \in Text
      PROVE  Crs(s \o v) = Crs(s) \cup {Len(s) + k : k \in Crs(v)}
  <2> DEFINE t == s \o v
             m == Len(s)
             n == Len(v)
  <2>1. /\ t \in Text /\ Len(t) = m + n /\ m \in Nat /\ n \in Nat
        /\ \A k \in 1 .. m : t[k] = s[k]
        /\ \A k \in 1 .. n : t[m + k] = v[k]
    BY Joined
  <2> HIDE DEF t, m, n
  <2>2. ASSUME NEW k \in 1 .. m + n
        PROVE  k \in 1 .. m \/ \E j \in 1 .. n : k = m + j
    <3>1. k \in Nat /\ k >= 1 /\ k <= m + n
      BY <2>1
    <3>2. CASE k <= m
      BY <3>1, <3>2, <2>1
    <3>3. CASE ~(k <= m)
      <4>1. k - m \in 1 .. n /\ k = m + (k - m)
        BY <3>1, <3>3, <2>1
      <4> QED
        BY <4>1
    <3> QED
      BY <3>2, <3>3
  <2>3. \A k \in 1 .. m : k \in 1 .. m + n
    BY <2>1
  <2>4. \A k \in 1 .. n : m + k \in 1 .. m + n
    BY <2>1
  <2>5. /\ \A k : k \in Crs(t) <=> k \in 1 .. m + n /\ t[k] = Cr
        /\ \A k : k \in Crs(s) <=> k \in 1 .. m /\ s[k] = Cr
        /\ \A k : k \in Crs(v) <=> k \in 1 .. n /\ v[k] = Cr
    BY <2>1 DEF Crs, m, n
  <2>6. ASSUME NEW k \in Crs(t)
        PROVE  k \in Crs(s) \cup {m + j : j \in Crs(v)}
    <3>1. k \in 1 .. m + n /\ t[k] = Cr
      BY <2>5
    <3>2. CASE k \in 1 .. m
      BY <3>1, <3>2, <2>1, <2>5
    <3>3. ASSUME NEW j \in 1 .. n, k = m + j
          PROVE  k \in {m + i : i \in Crs(v)}
      <4>1. j \in Crs(v)
        BY <3>1, <3>3, <2>1, <2>5
      <4> QED
        BY <3>3, <4>1
    <3> QED
      BY <2>2, <3>1, <3>2, <3>3
  <2>7. \A k \in Crs(s) : k \in Crs(t)
    BY <2>1, <2>3, <2>5
  <2>8. \A j \in Crs(v) : m + j \in Crs(t)
    BY <2>1, <2>4, <2>5
  <2>9. Crs(t) = Crs(s) \cup {m + k : k \in Crs(v)}
    BY <2>6, <2>7, <2>8
  <2> QED
    BY <2>9 DEF t, m
<1>2. CrLf \in Text /\ Len(CrLf) = 2 /\ CrLf[1] = Cr /\ CrLf[2] = Lf
  BY Kinds DEF CrLf, Text
<1>3. Crs(CrLf) = {1}
  <2>1. 1 .. Len(CrLf) = {1, 2}
    BY <1>2
  <2> QED
    BY <1>2, <2>1, Kinds DEF Crs
<1>4. s \o CrLf \in Text /\ Len(s \o CrLf) = Len(s) + Len(CrLf)
  BY <1>2, Joined
<1>5. Crs(s \o CrLf) = Crs(s) \cup {Len(s) + 1}
  BY <1>1, <1>2, <1>3
<1>6. Crs(u) = {} => Crs(s \o u) = Crs(s)
  BY <1>1
<1> QED
  BY <1>2, <1>4, <1>5, <1>6

(* A byte is a word.                                                        *)
LEMMA OneByte == <<Byte>> \in Text /\ Len(<<Byte>>) = 1 /\ Crs(<<Byte>>) = {}
<1>1. <<Byte>> \in Text /\ Len(<<Byte>>) = 1 /\ <<Byte>>[1] = Byte
  BY Kinds DEF Text
<1>2. 1 .. Len(<<Byte>>) = {1}
  BY <1>1
<1> QED
  BY <1>1, <1>2, Kinds DEF Crs

(* A word has no CR.                                                        *)
LEMMA WordJoined ==
  ASSUME NEW s \in Text, NEW u \in Text, Crs(u) = {}
  PROVE  s \o u \in Text /\ Len(s \o u) = Len(s) + Len(u) /\ Crs(s \o u) = Crs(s)
BY Joined, CrsJoined

(* What build_get builds of a host and a path it lets through is one        *)
(* request: a CR ends each of its lines and is nowhere else, so its one     *)
(* blank line is its last (http.cpp:15-43).                                 *)
THEOREM RequestIsOne ==
  ASSUME NEW host \in Text, NEW path \in Text, ~Refused(host, path)
  PROVE  Cardinality(Blanks(RequestOf(host, path))) = 1
<1>1. \A s \in {host, path} : Crs(s) = {}
  <2>1. \A s \in {host, path} : Cr \notin ToSet(s) /\ DOMAIN s = 1 .. Len(s)
    BY LenProperties DEF Refused, Text
  <2> QED
    BY <2>1 DEF ToSet, Crs
<1> DEFINE h == Len(host)
           p == Len(path)
           b == <<Byte>>
           t1 == b \o path
           t2 == t1 \o b
           t3 == t2 \o CrLf
           t4 == t3 \o b
           t5 == t4 \o host
           t6 == t5 \o CrLf
           t7 == t6 \o b
           t8 == t7 \o CrLf
           t9 == t8 \o b
           ta == t9 \o CrLf
           tb == ta \o CrLf
<1>2. h \in Nat /\ p \in Nat
  BY LenProperties DEF Text
<1>3. b \in Text /\ Len(b) = 1 /\ Crs(b) = {}
  BY OneByte
<1>4. Crs(path) = {} /\ Crs(host) = {}
  BY <1>1
<1>5. RequestOf(host, path) = tb
  BY DEF RequestOf
<1> HIDE DEF b, h, p
<1>6. t1 \in Text /\ Len(t1) = p + 1 /\ Crs(t1) = {}
  <2>1. t1 \in Text /\ Len(t1) = Len(b) + Len(path) /\ Crs(t1) = Crs(b)
    BY <1>3, <1>4, WordJoined
  <2> QED
    BY <2>1, <1>2, <1>3 DEF p
<1> HIDE DEF t1
<1>7. t2 \in Text /\ Len(t2) = p + 2 /\ Crs(t2) = {}
  <2>1. t2 \in Text /\ Len(t2) = Len(t1) + Len(b) /\ Crs(t2) = Crs(t1)
    BY <1>3, <1>6, WordJoined
  <2> QED
    BY <2>1, <1>2, <1>3, <1>6
<1> HIDE DEF t2
<1>8. t3 \in Text /\ Len(t3) = p + 4 /\ Crs(t3) = {p + 3}
  <2>1. t3 \in Text /\ Len(t3) = Len(t2) + 2 /\ Crs(t3) = Crs(t2) \cup {Len(t2) + 1}
    BY <1>7, CrsJoined
  <2> QED
    BY <2>1, <1>2, <1>7
<1> HIDE DEF t3
<1>9. t4 \in Text /\ Len(t4) = p + 5 /\ Crs(t4) = {p + 3}
  <2>1. t4 \in Text /\ Len(t4) = Len(t3) + Len(b) /\ Crs(t4) = Crs(t3)
    BY <1>3, <1>8, WordJoined
  <2> QED
    BY <2>1, <1>2, <1>3, <1>8
<1> HIDE DEF t4
<1>10. t5 \in Text /\ Len(t5) = p + h + 5 /\ Crs(t5) = {p + 3}
  <2>1. t5 \in Text /\ Len(t5) = Len(t4) + Len(host) /\ Crs(t5) = Crs(t4)
    BY <1>4, <1>9, WordJoined
  <2> QED
    BY <2>1, <1>2, <1>9 DEF h
<1> HIDE DEF t5
<1>11. t6 \in Text /\ Len(t6) = p + h + 7 /\ Crs(t6) = {p + 3, p + h + 6}
  <2>1. t6 \in Text /\ Len(t6) = Len(t5) + 2 /\ Crs(t6) = Crs(t5) \cup {Len(t5) + 1}
    BY <1>10, CrsJoined
  <2> QED
    BY <2>1, <1>2, <1>10
<1> HIDE DEF t6
<1>12. t7 \in Text /\ Len(t7) = p + h + 8 /\ Crs(t7) = {p + 3, p + h + 6}
  <2>1. t7 \in Text /\ Len(t7) = Len(t6) + Len(b) /\ Crs(t7) = Crs(t6)
    BY <1>3, <1>11, WordJoined
  <2> QED
    BY <2>1, <1>2, <1>3, <1>11
<1> HIDE DEF t7
<1>13. t8 \in Text /\ Len(t8) = p + h + 10 /\ Crs(t8) = {p + 3, p + h + 6, p + h + 9}
  <2>1. t8 \in Text /\ Len(t8) = Len(t7) + 2 /\ Crs(t8) = Crs(t7) \cup {Len(t7) + 1}
    BY <1>12, CrsJoined
  <2> QED
    BY <2>1, <1>2, <1>12
<1> HIDE DEF t8
<1>14. t9 \in Text /\ Len(t9) = p + h + 11 /\ Crs(t9) = {p + 3, p + h + 6, p + h + 9}
  <2>1. t9 \in Text /\ Len(t9) = Len(t8) + Len(b) /\ Crs(t9) = Crs(t8)
    BY <1>3, <1>13, WordJoined
  <2> QED
    BY <2>1, <1>2, <1>3, <1>13
<1> HIDE DEF t9
<1>15. ta \in Text /\ Len(ta) = p + h + 13
       /\ Crs(ta) = {p + 3, p + h + 6, p + h + 9, p + h + 12}
  <2>1. ta \in Text /\ Len(ta) = Len(t9) + 2 /\ Crs(ta) = Crs(t9) \cup {Len(t9) + 1}
    BY <1>14, CrsJoined
  <2> QED
    BY <2>1, <1>2, <1>14
<1>16. tb \in Text /\ Len(tb) = p + h + 15
       /\ Crs(tb) = {p + 3, p + h + 6, p + h + 9, p + h + 12, p + h + 14}
  <2> HIDE DEF ta
  <2>1. tb \in Text /\ Len(tb) = Len(ta) + 2 /\ Crs(tb) = Crs(ta) \cup {Len(ta) + 1}
    BY <1>15, CrsJoined
  <2> QED
    BY <2>1, <1>2, <1>15
<1>17. tb[p + h + 13] = Lf /\ tb[p + h + 15] = Lf
  <2>1. CrLf \in Text /\ Len(CrLf) = 2 /\ CrLf[2] = Lf /\ 2 \in 1 .. Len(CrLf)
    BY Kinds DEF CrLf, Text
  <2>2. ta[Len(t9) + 2] = Lf
    BY <2>1, <1>14, Joined
  <2>3. \A k \in 1 .. Len(ta) : tb[k] = ta[k]
    <3> HIDE DEF ta
    <3> QED
      BY <2>1, <1>15, Joined
  <2>4. tb[Len(ta) + 2] = Lf
    <3> HIDE DEF ta
    <3> QED
      BY <2>1, <1>15, Joined
  <2>5. Len(t9) + 2 = p + h + 13 /\ p + h + 13 \in 1 .. Len(ta) /\ Len(ta) + 2 = p + h + 15
    BY <1>2, <1>14, <1>15
  <2> HIDE DEF ta, tb
  <2>6. tb[p + h + 13] = ta[p + h + 13]
    BY <2>3, <2>5
  <2> QED
    BY <2>2, <2>4, <2>5, <2>6
<1> HIDE DEF ta, tb
<1>18. \A k \in 1 .. p + h + 15 :
         tb[k] = Cr <=> k \in {p + 3, p + h + 6, p + h + 9, p + h + 12, p + h + 14}
  BY <1>16 DEF Crs
<1>19. ASSUME NEW k \in 1 .. Len(tb) - 3
       PROVE  BlankAt(tb, k) <=> k = p + h + 12
  <2>1. k \in Nat /\ k >= 1 /\ k <= p + h + 12
    BY <1>2, <1>16
  <2>2. BlankAt(tb, k) <=> tb[k] = Cr /\ tb[k + 1] = Lf /\ tb[k + 2] = Cr /\ tb[k + 3] = Lf
    BY <1>16, Blank
  <2>3. k \in 1 .. p + h + 15 /\ k + 2 \in 1 .. p + h + 15
    BY <2>1, <1>2
  <2>4. tb[k] = Cr /\ tb[k + 2] = Cr => k = p + h + 12
    <3>1. tb[k] = Cr <=> k \in {p + 3, p + h + 6, p + h + 9, p + h + 12, p + h + 14}
      BY <2>3, <1>18
    <3>2. tb[k + 2] = Cr
             <=> k + 2 \in {p + 3, p + h + 6, p + h + 9, p + h + 12, p + h + 14}
      BY <2>3, <1>18
    <3> QED
      BY <3>1, <3>2, <2>1, <1>2
  <2>5. k = p + h + 12 => tb[k] = Cr /\ tb[k + 2] = Cr
    <3>1. p + h + 12 \in 1 .. p + h + 15 /\ p + h + 14 \in 1 .. p + h + 15
          /\ (p + h + 12) + 2 = p + h + 14
      BY <1>2
    <3>2. tb[p + h + 12] = Cr /\ tb[p + h + 14] = Cr
      BY <3>1, <1>18
    <3> QED
      BY <3>1, <3>2
  <2>6. k = p + h + 12 => tb[k + 1] = Lf /\ tb[k + 3] = Lf
    <3>1. (p + h + 12) + 1 = p + h + 13 /\ (p + h + 12) + 3 = p + h + 15
      BY <1>2
    <3> QED
      BY <3>1, <1>17
  <2> QED
    BY <2>2, <2>4, <2>5, <2>6
<1>20. p + h + 12 \in 1 .. Len(tb) - 3
  BY <1>2, <1>16
<1>21. Blanks(tb) = {p + h + 12}
  BY <1>19, <1>20 DEF Blanks
<1> QED
  BY <1>5, <1>21, FS_Singleton

-----------------------------------------------------------------------------
(* Folds: the recursion of the library's fold has a solution, found here by *)
(* the size of the set it is over.                                          *)

(* A set of places that is not empty has a last one.                        *)
LEMMA LastPlace ==
  ASSUME NEW n \in Nat, NEW s \in SUBSET (1 .. n), s # {}
  PROVE  Max(s) \in s /\ \A k \in s : k <= Max(s)
<1> DEFINE T == {n - k : k \in s}
<1>1. \A k \in s : k \in Nat /\ k <= n /\ n - k \in Nat
  <2> TAKE k \in s
  <2>1. k \in 1 .. n
    OBVIOUS
  <2> QED
    BY <2>1
<1>2. T \subseteq Nat /\ T # {}
  BY <1>1
<1>3. PICK m \in T : \A j \in T : m <= j
  <2> HIDE DEF T
  <2> QED
    BY <1>2, LeastNatural
<1>4. PICK x \in s : m = n - x
  BY <1>3
<1>5. \A k \in s : n - x <= n - k
  BY <1>3, <1>4
<1>6. \A k \in s : x >= k
  <2> TAKE k \in s
  <2>1. x \in Nat /\ k \in Nat /\ n - x <= n - k
    BY <1>1, <1>5
  <2> QED
    BY <2>1
<1>7. Max(s) \in s /\ \A k \in s : Max(s) >= k
  BY <1>6 DEF Max
<1> DEFINE y == Max(s)
<1> HIDE DEF y
<1>8. y \in s /\ \A k \in s : y >= k
  BY <1>7 DEF y
<1>9. \A k \in s : k <= y
  BY <1>1, <1>8
<1> QED
  BY <1>8, <1>9 DEF y

(* g folds step over every set of places up to n, the last place last.      *)
Folding(g, n, base, step) ==
  g = [s \in SUBSET (1 .. n) |->
         IF s = {} THEN base ELSE step[<<Max(s), g[s \ {Max(s)}]>>]]

(* The recursion of a fold has a solution: one for sets of at most c places *)
(* yields one for sets of at most c + 1.                                    *)
LEMMA FoldingExists ==
  ASSUME NEW n \in Nat, NEW V, NEW base \in V, NEW step \in [(1 .. n) \X V -> V]
  PROVE  \E g \in [SUBSET (1 .. n) -> V] : Folding(g, n, base, step)
<1> DEFINE S == 1 .. n
           Upto(c) == {s \in SUBSET S : Cardinality(s) <= c}
           Then(s, g) == IF s = {} THEN base ELSE step[<<Max(s), g[s \ {Max(s)}]>>]
           Good(c, g) == g \in [Upto(c) -> V] /\ g = [s \in Upto(c) |-> Then(s, g)]
           Bad == {c \in Nat : ~ \E g : Good(c, g)}
<1>0. IsFiniteSet(S)
  BY FS_Interval
<1>1. \A s \in SUBSET S : IsFiniteSet(s) /\ Cardinality(s) \in Nat
  BY <1>0, FS_Subset, FS_CardinalityType
<1>2. ASSUME NEW c \in Nat, NEW s \in SUBSET S, s # {}, Cardinality(s) <= c + 1
      PROVE  Max(s) \in S /\ s \ {Max(s)} \in Upto(c)
  <2>1. Max(s) \in s
    BY <1>2, LastPlace
  <2> DEFINE x == Max(s)
  <2> HIDE DEF x
  <2>2. x \in s
    BY <2>1 DEF x
  <2>3. Cardinality(s \ {x}) = Cardinality(s) - 1
    BY <1>1, <2>2, FS_RemoveElement
  <2>4. s \ {x} \in SUBSET S /\ Cardinality(s \ {x}) <= c
    <3>1. Cardinality(s) \in Nat /\ s \ {x} \in SUBSET S
      BY <1>1
    <3> QED
      BY <1>2, <2>3, <3>1
  <2> QED
    BY <2>2, <2>4 DEF x
<1>3. \E g : Good(0, g)
  <2>1. Upto(0) = {{}}
    BY <1>1, FS_EmptySet
  <2> DEFINE g == [s \in Upto(0) |-> base]
  <2>2. \A s \in Upto(0) : Then(s, g) = base
    BY <2>1
  <2>3. Good(0, g)
    <3> HIDE DEF Upto, Then
    <3> QED  BY <2>2
  <2> QED
    BY <2>3
<1>4. ASSUME NEW c \in Nat, \E g : Good(c, g)
      PROVE  \E g : Good(c + 1, g)
  <2>1. PICK g : Good(c, g)
    BY <1>4
  <2> DEFINE h == [s \in Upto(c + 1) |-> Then(s, g)]
  <2>2. ASSUME NEW s \in Upto(c)
        PROVE  s \in Upto(c + 1) /\ h[s] = g[s]
    <3>1. s \in Upto(c + 1)
      BY <1>1, <1>4
    <3>2. h[s] = Then(s, g)
      <4> HIDE DEF Upto, Then
      <4> QED  BY <3>1
    <3>3. g[s] = Then(s, g)
      <4> HIDE DEF Upto, Then
      <4> QED  BY <2>1, <2>2
    <3> QED
      BY <3>1, <3>2, <3>3
  <2>3. ASSUME NEW s \in Upto(c + 1)
        PROVE  Then(s, h) = Then(s, g) /\ Then(s, g) \in V
    <3>1. CASE s = {}
      BY <3>1
    <3>2. CASE s # {}
      <4>1. Max(s) \in S /\ s \ {Max(s)} \in Upto(c)
        BY <1>2, <2>3, <3>2
      <4> DEFINE x == Max(s)
                 r == s \ {x}
      <4>2. h[r] = g[r] /\ g[r] \in V
        <5> HIDE DEF h, Upto, Then
        <5> QED  BY <2>1, <2>2, <4>1
      <4>3. x \in S
        BY <4>1
      <4> HIDE DEF h
      <4>4. Then(s, h) = step[<<x, h[r]>>] /\ Then(s, g) = step[<<x, g[r]>>]
        BY <3>2
      <4> HIDE DEF x, r, Then
      <4>5. step[<<x, g[r]>>] \in V
        BY <4>2, <4>3
      <4> QED
        BY <4>2, <4>4, <4>5
    <3> QED
      BY <3>1, <3>2
  <2>4. Good(c + 1, h)
    <3>1. [s \in Upto(c + 1) |-> Then(s, g)] = [s \in Upto(c + 1) |-> Then(s, h)]
      <4> HIDE DEF Upto, Then, h
      <4> QED  BY <2>3
    <3>2. h \in [Upto(c + 1) -> V]
      <4> HIDE DEF Upto, Then
      <4> QED  BY <2>3
    <3> QED
      BY <3>1, <3>2
  <2> HIDE DEF h, Good
  <2> QED
    BY <2>4
<1>5. Bad = {}
  <2>1. SUFFICES ASSUME Bad # {} PROVE FALSE
    OBVIOUS
  <2> HIDE DEF Good
  <2>2. PICK c \in Bad : \A m \in Bad : c <= m
    <3>1. Bad \subseteq Nat
      OBVIOUS
    <3> HIDE DEF Bad
    <3> QED  BY <2>1, <3>1, LeastNatural
  <2>3. c # 0
    BY <1>3
  <2>4. c - 1 \in Nat /\ c - 1 \notin Bad
    BY <2>2, <2>3
  <2>5. \E g : Good((c - 1) + 1, g)
    BY <1>4, <2>4
  <2>6. (c - 1) + 1 = c
    BY <2>2
  <2> QED
    BY <2>5, <2>6
<1>6. Upto(n) = SUBSET S
  <2>1. Cardinality(S) = n
    BY FS_Interval
  <2>2. \A s \in SUBSET S : Cardinality(s) <= n
    <3> HIDE DEF S
    <3> QED
      BY <1>0, <2>1, FS_Subset
  <2> QED
    BY <2>2
<1>7. PICK g : Good(n, g)
  <2> HIDE DEF Good
  <2> QED  BY <1>5
<1>8. g \in [SUBSET S -> V] /\ Folding(g, n, base, step)
  BY <1>6, <1>7 DEF Folding
<1> QED
  BY <1>8

(* The last of the first k places is k, and the first k - 1 go before it.   *)
LEMMA FirstPlaces ==
  ASSUME NEW n \in Nat, NEW k \in 1 .. n
  PROVE  /\ 1 .. k \in SUBSET (1 .. n) /\ 1 .. (k - 1) \in SUBSET (1 .. n)
         /\ 1 .. k # {} /\ Max(1 .. k) = k /\ (1 .. k) \ {Max(1 .. k)} = 1 .. (k - 1)
<1>1. k \in Nat /\ 1 <= k /\ k <= n
  OBVIOUS
<1>2. 1 .. k \in SUBSET (1 .. n) /\ 1 .. (k - 1) \in SUBSET (1 .. n) /\ k \in 1 .. k
  BY <1>1
<1>3. Max(1 .. k) \in 1 .. k /\ \A j \in 1 .. k : j <= Max(1 .. k)
  BY <1>2, LastPlace
<1>4. Max(1 .. k) = k
  BY <1>1, <1>2, <1>3
<1>5. (1 .. k) \ {k} = 1 .. (k - 1)
  BY <1>1
<1>6. (1 .. k) \ {Max(1 .. k)} = 1 .. (k - 1) /\ 1 .. k # {}
  BY <1>2, <1>4, <1>5, Zenon
<1> QED
  BY <1>2, <1>4, <1>6

(* What the digits are worth, place by place.                               *)
WorthSolves(g, v) ==
  g = [s \in SUBSET DOMAIN v |->
         IF s = {} THEN 0 ELSE LET x == Max(s) IN 10 * g[s \ {x}] + v[x]]
WorthOfPlaces(v) == CHOOSE g : WorthSolves(g, v)

(* The fold that Worth is goes through the digits from the first to the     *)
(* last.                                                                    *)
LEMMA WorthByPlace ==
  ASSUME NEW v \in Seq(Digits)
  PROVE  \E w \in [0 .. Len(v) -> Nat] :
           /\ w[0] = 0 /\ \A k \in 1 .. Len(v) : w[k] = 10 * w[k - 1] + v[k]
           /\ FoldLeft(LAMBDA n, d : 10 * n + d, 0, v) = w[Len(v)]
<1> DEFINE n == Len(v)
           g == WorthOfPlaces(v)
           step == [p \in (1 .. n) \X Nat |-> 10 * p[2] + v[p[1]]]
<1>1. n \in Nat /\ DOMAIN v = 1 .. n /\ \A k \in 1 .. n : v[k] \in Nat
  BY LenProperties, ElementOfSeq DEF Digits, NotADigit
<1>2. FoldLeft(LAMBDA m, d : 10 * m + d, 0, v) = g[DOMAIN v]
  BY DEF FoldLeft, MapThenFoldSet, WorthOfPlaces, WorthSolves
<1> HIDE DEF n
<1>3. \E h : WorthSolves(h, v)
  <2>1. step \in [(1 .. n) \X Nat -> Nat]
    BY <1>1
  <2>2. \A x \in 1 .. n : \A y \in Nat : step[<<x, y>>] = 10 * y + v[x]
    OBVIOUS
  <2> HIDE DEF step
  <2>3. PICK h \in [SUBSET (1 .. n) -> Nat] : Folding(h, n, 0, step)
    BY <1>1, <2>1, FoldingExists
  <2>4. ASSUME NEW s \in SUBSET (1 .. n), s # {}
        PROVE  step[<<Max(s), h[s \ {Max(s)}]>>] = 10 * h[s \ {Max(s)}] + v[Max(s)]
    <3>1. Max(s) \in s
      BY <1>1, <2>4, LastPlace
    <3> DEFINE x == Max(s)
    <3> HIDE DEF x
    <3>2. x \in 1 .. n /\ h[s \ {x}] \in Nat
      BY <3>1 DEF x
    <3>3. step[<<x, h[s \ {x}]>>] = 10 * h[s \ {x}] + v[x]
      BY <2>2, <3>2
    <3> QED
      BY <3>3 DEF x
  <2>5. h = [s \in SUBSET (1 .. n) |->
               IF s = {} THEN 0 ELSE step[<<Max(s), h[s \ {Max(s)}]>>]]
    BY <2>3 DEF Folding
  <2>6. h = [s \in SUBSET (1 .. n) |->
               IF s = {} THEN 0 ELSE 10 * h[s \ {Max(s)}] + v[Max(s)]]
    BY <2>4, <2>5
  <2> QED
    BY <1>1, <2>6 DEF WorthSolves
<1>4. WorthSolves(g, v)
  BY <1>3 DEF WorthOfPlaces
<1> HIDE DEF g
<1>5. \A s \in SUBSET (1 .. n) :
        /\ s = {} => g[s] = 0
        /\ s # {} => g[s] = 10 * g[s \ {Max(s)}] + v[Max(s)]
  BY <1>1, <1>4 DEF WorthSolves
<1> DEFINE w == [k \in 0 .. n |-> g[1 .. k]]
<1>6. w[0] = 0
  <2>1. 1 .. 0 = {} /\ {} \in SUBSET (1 .. n) /\ 0 \in 0 .. n
    BY <1>1
  <2> QED
    BY <2>1, <1>5
<1>7. ASSUME NEW k \in 1 .. n PROVE w[k] = 10 * w[k - 1] + v[k]
  <2>1. /\ 1 .. k \in SUBSET (1 .. n) /\ 1 .. (k - 1) \in SUBSET (1 .. n)
        /\ 1 .. k # {} /\ Max(1 .. k) = k /\ (1 .. k) \ {Max(1 .. k)} = 1 .. (k - 1)
    BY <1>1, FirstPlaces
  <2>2. g[1 .. k] = 10 * g[(1 .. k) \ {Max(1 .. k)}] + v[Max(1 .. k)]
    BY <2>1, <1>5
  <2>3. g[1 .. k] = 10 * g[1 .. (k - 1)] + v[k]
    BY <2>1, <2>2
  <2>4. k \in 0 .. n /\ k - 1 \in 0 .. n
    BY <1>1
  <2> QED
    BY <2>3, <2>4
<1>8. \A k \in 0 .. n : w[k] \in Nat
  <2> DEFINE Bad == {k \in 0 .. n : w[k] \notin Nat}
  <2> SUFFICES ASSUME Bad # {} PROVE FALSE
    OBVIOUS
  <2>1. Bad \subseteq Nat
    BY <1>1
  <2> HIDE DEF w
  <2>2. PICK k \in Bad : \A m \in Bad : k <= m
    <3> HIDE DEF Bad
    <3> QED
      BY <2>1, LeastNatural
  <2>3. k \in 1 .. n /\ k - 1 \in 0 .. n /\ k - 1 \notin Bad
    BY <1>1, <1>6, <2>2
  <2>4. w[k - 1] \in Nat /\ v[k] \in Nat /\ w[k] = 10 * w[k - 1] + v[k]
    BY <1>1, <1>7, <2>3
  <2> QED
    BY <2>2, <2>4
<1>9. w \in [0 .. n -> Nat]
  <2>1. w = [k \in 0 .. n |-> w[k]]
    OBVIOUS
  <2> HIDE DEF w
  <2> QED
    BY <1>8, <2>1
<1>10. w[n] = g[DOMAIN v]
  BY <1>1
<1> HIDE DEF w
<1> QED
  BY <1>2, <1>6, <1>7, <1>9, <1>10 DEF n

-----------------------------------------------------------------------------
(* What content_length makes of the digits, place by place.                 *)

(* A length stays a number, digit by digit.                                 *)
LEMMA WithDigitType ==
  ASSUME NEW length \in Int, NEW digit \in Digits
  PROVE  WithDigit(length, digit) \in Int
BY DEF WithDigit, Absent, Digits, NotADigit

(* What content_length makes of them, place by place.                       *)
LengthSolves(g, v) ==
  g = [s \in SUBSET DOMAIN v |->
         IF s = {} THEN 0 ELSE LET x == Max(s) IN WithDigit(g[s \ {x}], v[x])]
LengthOfPlaces(v) == CHOOSE g : LengthSolves(g, v)

(* The fold that ContentLength is goes through the digits in the same       *)
(* order.                                                                   *)
LEMMA LengthByPlace ==
  ASSUME NEW v \in Seq(Digits)
  PROVE  \E w \in [0 .. Len(v) -> Int] :
           /\ w[0] = 0 /\ \A k \in 1 .. Len(v) : w[k] = WithDigit(w[k - 1], v[k])
           /\ FoldLeft(WithDigit, 0, v) = w[Len(v)]
<1> DEFINE n == Len(v)
           g == LengthOfPlaces(v)
           step == [p \in (1 .. n) \X Int |-> WithDigit(p[2], v[p[1]])]
<1>1. n \in Nat /\ DOMAIN v = 1 .. n /\ \A k \in 1 .. n : v[k] \in Digits
  BY LenProperties, ElementOfSeq
<1>2. FoldLeft(WithDigit, 0, v) = g[DOMAIN v]
  BY DEF FoldLeft, MapThenFoldSet, LengthOfPlaces, LengthSolves
<1> HIDE DEF n
<1>3. \E h : LengthSolves(h, v)
  <2>0. 0 \in Int
    OBVIOUS
  <2>1. step \in [(1 .. n) \X Int -> Int]
    BY <1>1, WithDigitType
  <2>2. \A x \in 1 .. n : \A y \in Int : step[<<x, y>>] = WithDigit(y, v[x])
    OBVIOUS
  <2> HIDE DEF step
  <2>3. PICK h \in [SUBSET (1 .. n) -> Int] : Folding(h, n, 0, step)
    BY <1>1, <2>1, <2>0, FoldingExists
  <2>4. ASSUME NEW s \in SUBSET (1 .. n), s # {}
        PROVE  step[<<Max(s), h[s \ {Max(s)}]>>] = WithDigit(h[s \ {Max(s)}], v[Max(s)])
    <3>1. Max(s) \in s
      BY <1>1, <2>4, LastPlace
    <3> DEFINE x == Max(s)
    <3> HIDE DEF x
    <3>2. x \in 1 .. n /\ h[s \ {x}] \in Int
      BY <3>1 DEF x
    <3>3. step[<<x, h[s \ {x}]>>] = WithDigit(h[s \ {x}], v[x])
      BY <2>2, <3>2
    <3> QED
      BY <3>3 DEF x
  <2>5. h = [s \in SUBSET (1 .. n) |->
               IF s = {} THEN 0 ELSE step[<<Max(s), h[s \ {Max(s)}]>>]]
    BY <2>3 DEF Folding
  <2>6. h = [s \in SUBSET (1 .. n) |->
               IF s = {} THEN 0 ELSE WithDigit(h[s \ {Max(s)}], v[Max(s)])]
    BY <2>4, <2>5
  <2> QED
    BY <1>1, <2>6 DEF LengthSolves
<1>4. LengthSolves(g, v)
  BY <1>3 DEF LengthOfPlaces
<1> HIDE DEF g
<1>5. \A s \in SUBSET (1 .. n) :
        /\ s = {} => g[s] = 0
        /\ s # {} => g[s] = WithDigit(g[s \ {Max(s)}], v[Max(s)])
  BY <1>1, <1>4 DEF LengthSolves
<1> DEFINE w == [k \in 0 .. n |-> g[1 .. k]]
<1>6. w[0] = 0
  <2>1. 1 .. 0 = {} /\ {} \in SUBSET (1 .. n) /\ 0 \in 0 .. n
    BY <1>1
  <2> QED
    BY <2>1, <1>5
<1>7. ASSUME NEW k \in 1 .. n PROVE w[k] = WithDigit(w[k - 1], v[k])
  <2>1. /\ 1 .. k \in SUBSET (1 .. n) /\ 1 .. (k - 1) \in SUBSET (1 .. n)
        /\ 1 .. k # {} /\ Max(1 .. k) = k /\ (1 .. k) \ {Max(1 .. k)} = 1 .. (k - 1)
    BY <1>1, FirstPlaces
  <2>2. g[1 .. k] = WithDigit(g[(1 .. k) \ {Max(1 .. k)}], v[Max(1 .. k)])
    BY <2>1, <1>5
  <2>3. g[1 .. k] = WithDigit(g[1 .. (k - 1)], v[k])
    BY <2>1, <2>2
  <2>4. k \in 0 .. n /\ k - 1 \in 0 .. n
    BY <1>1
  <2> QED
    BY <2>3, <2>4
<1>8. \A k \in 0 .. n : w[k] \in Int
  <2>1. ASSUME NEW k \in 1 .. n, w[k - 1] \in Int PROVE w[k] \in Int
    BY <1>1, <1>7, <2>1, WithDigitType
  <2> DEFINE Bad == {k \in 0 .. n : w[k] \notin Int}
  <2> SUFFICES ASSUME Bad # {} PROVE FALSE
    OBVIOUS
  <2>2. Bad \subseteq Nat
    BY <1>1
  <2> HIDE DEF w
  <2>3. PICK k \in Bad : \A m \in Bad : k <= m
    <3> HIDE DEF Bad
    <3> QED
      BY <2>2, LeastNatural
  <2>4. k \in 1 .. n /\ k - 1 \in 0 .. n /\ k - 1 \notin Bad
    BY <1>1, <1>6, <2>3
  <2> QED
    BY <2>1, <2>3, <2>4
<1>9. w \in [0 .. n -> Int]
  <2>1. w = [k \in 0 .. n |-> w[k]]
    OBVIOUS
  <2> HIDE DEF w
  <2> QED
    BY <1>8, <2>1
<1>10. w[n] = g[DOMAIN v]
  BY <1>1
<1> HIDE DEF w
<1> QED
  BY <1>2, <1>6, <1>7, <1>9, <1>10 DEF n

(* A bounded sum of digits is the sum when it fits.                         *)
LEMMA WithDigitIsWorth ==
  ASSUME NEW w \in Nat, NEW d \in Digits
  PROVE  /\ d = NotADigit => WithDigit(w, d) = Absent
         /\ d # NotADigit /\ 10 * w + d > SizeMax => WithDigit(w, d) = Absent
         /\ d # NotADigit /\ 10 * w + d <= SizeMax => WithDigit(w, d) = 10 * w + d
<1>1. SizeMax \in Nat /\ SizeMax >= 10 /\ d \in Nat /\ d <= 10 /\ w # Absent
  BY SizesAssumption DEF Digits, NotADigit, Absent
<1>2. w > (SizeMax - d) \div 10 <=> 10 * w + d > SizeMax
  BY <1>1
<1> QED
  BY <1>1, <1>2 DEF WithDigit

(* What is no length stays none, whatever digit follows.                    *)
LEMMA WithDigitOfAbsent == \A d : WithDigit(Absent, d) = Absent
BY DEF WithDigit

(* content_length makes of any digits the number they are worth, and none   *)
(* of those that are no number or are past the largest size (http.cpp:130-  *)
(* 148).                                                                    *)
THEOREM LengthIsWorth ==
  ASSUME NEW v \in Seq(Digits), v # <<>>
  PROVE  /\ Worth(v) = Absent => FoldLeft(WithDigit, 0, v) = Absent
         /\ Worth(v) # Absent =>
              /\ Worth(v) \in Nat
              /\ Worth(v) > SizeMax => FoldLeft(WithDigit, 0, v) = Absent
              /\ Worth(v) <= SizeMax => FoldLeft(WithDigit, 0, v) = Worth(v)
<1> DEFINE n == Len(v)
           Marred(k) == \E j \in 1 .. k : v[j] = NotADigit
<1>1. n \in Nat /\ DOMAIN v = 1 .. n /\ \A k \in 1 .. n : v[k] \in Digits
  BY LenProperties, ElementOfSeq
<1>2. PICK w \in [0 .. n -> Nat] :
        /\ w[0] = 0 /\ \A k \in 1 .. n : w[k] = 10 * w[k - 1] + v[k]
        /\ FoldLeft(LAMBDA m, d : 10 * m + d, 0, v) = w[n]
  BY WorthByPlace
<1>3. PICK c \in [0 .. n -> Int] :
        /\ c[0] = 0 /\ \A k \in 1 .. n : c[k] = WithDigit(c[k - 1], v[k])
        /\ FoldLeft(WithDigit, 0, v) = c[n]
  BY LengthByPlace
<1>4. SizeMax \in Nat
  BY SizesAssumption
<1> DEFINE Right(k) ==
      /\ Marred(k) \/ w[k] > SizeMax => c[k] = Absent
      /\ ~Marred(k) /\ w[k] <= SizeMax => c[k] = w[k]
<1>5. Right(0)
  <2>1. ~Marred(0)
    OBVIOUS
  <2> HIDE DEF Marred
  <2>2. w[0] = 0 /\ c[0] = 0
    BY <1>2, <1>3
  <2> QED
    BY <2>1, <2>2, <1>4
<1>6. ASSUME NEW k \in 1 .. n, Right(k - 1)
      PROVE  Right(k)
  <2>1. k \in Nat /\ k - 1 \in 0 .. n /\ k \in 0 .. n
    BY <1>1
  <2> DEFINE a == w[k - 1]
             d == v[k]
  <2>2. a \in Nat /\ d \in Digits /\ d \in Nat /\ w[k] = 10 * a + d
        /\ c[k] = WithDigit(c[k - 1], d)
    <3>1. a \in Nat
      BY <1>2, <2>1
    <3>2. d \in Digits /\ d \in Nat
      BY <1>1 DEF Digits, NotADigit
    <3>3. w[k] = 10 * w[k - 1] + v[k] /\ c[k] = WithDigit(c[k - 1], v[k])
      BY <1>2, <1>3
    <3> QED
      BY <3>1, <3>2, <3>3
  <2>3. Marred(k) <=> Marred(k - 1) \/ d = NotADigit
    <3>1. 1 .. k = (1 .. (k - 1)) \cup {k}
      BY <2>1
    <3> QED
      BY <3>1
  <2> HIDE DEF Marred, a, d
  <2>4. CASE Marred(k - 1) \/ a > SizeMax
    <3>1. c[k] = Absent
      BY <1>6, <2>2, <2>4, WithDigitOfAbsent DEF a
    <3>2. Marred(k) \/ w[k] > SizeMax
      BY <2>2, <2>3, <2>4, <1>4
    <3>3. ~(~Marred(k) /\ w[k] <= SizeMax)
      BY <3>2, <2>2, <1>4
    <3> QED
      BY <3>1, <3>3
  <2>5. CASE ~Marred(k - 1) /\ a <= SizeMax
    <3>1. c[k] = WithDigit(a, d)
      BY <1>6, <2>2, <2>5 DEF a
    <3>2. /\ d = NotADigit => c[k] = Absent
          /\ d # NotADigit /\ w[k] > SizeMax => c[k] = Absent
          /\ d # NotADigit /\ w[k] <= SizeMax => c[k] = w[k]
      BY <3>1, <2>2, WithDigitIsWorth
    <3>3. Marred(k) <=> d = NotADigit
      BY <2>3, <2>5
    <3> QED
      BY <3>2, <3>3
  <2> QED
    BY <2>2, <2>4, <2>5, <1>4
<1>7. Right(n)
  <2> DEFINE Bad == {k \in 0 .. n : ~Right(k)}
  <2> HIDE DEF Right
  <2>1. SUFFICES ASSUME Bad # {} PROVE FALSE
    BY <1>1
  <2>2. Bad \subseteq Nat
    BY <1>1
  <2>3. PICK k \in Bad : \A m \in Bad : k <= m
    <3> HIDE DEF Bad
    <3> QED
      BY <2>1, <2>2, LeastNatural
  <2>4. k \in 1 .. n /\ k - 1 \in 0 .. n /\ k - 1 \notin Bad
    BY <1>1, <1>5, <2>3
  <2> QED
    BY <1>6, <2>3, <2>4
<1>8. Worth(v) = IF Marred(n) THEN Absent ELSE w[n]
  <2>1. NotADigit \in ToSet(v) <=> Marred(n)
    BY <1>1 DEF ToSet
  <2> QED
    BY <1>2, <2>1 DEF Worth
<1>9. w[n] \in Nat /\ w[n] # Absent
  <2>1. n \in 0 .. n
    BY <1>1
  <2>2. w[n] \in Nat
    BY <1>2, <2>1
  <2> QED
    BY <2>2 DEF Absent
<1> HIDE DEF Marred
<1> QED
  BY <1>3, <1>4, <1>7, <1>8, <1>9

-----------------------------------------------------------------------------
(* The header lines of a response, and the library's FlattenSeq of them.    *)

(* The k-th piece of the header lines of some fields.                       *)
LinePiece(fields, k) ==
  IF k % 3 = 1 THEN fields[(k + 2) \div 3] ELSE IF k % 3 = 2 THEN Cr ELSE Lf
LinesUpTo(fields, i) == [k \in 1 .. 3 * i |-> LinePiece(fields, k)]
Lines(fields) == [i \in DOMAIN fields |-> <<fields[i]>> \o CrLf]

(* FlattenSeq joins sequences one by one; g[i] is the first i of them.      *)
Flattens(g, seqs) ==
  g = [i \in 1 .. Len(seqs) |-> IF i = 1 THEN seqs[i] ELSE g[i - 1] \o seqs[i]]
Flattened(seqs) == CHOOSE g : Flattens(g, seqs)

(* An interval from 1 tells its length.                                     *)
LEMMA SameLength ==
  ASSUME NEW a \in Nat, NEW b \in Nat, 1 .. a = 1 .. b
  PROVE  a = b
<1>1. a # 0 => a \in 1 .. a
  OBVIOUS
<1>2. b # 0 => b \in 1 .. b
  OBVIOUS
<1>3. \A k : k \in 1 .. a <=> k \in 1 .. b
  OBVIOUS
<1>4. a # 0 => 1 <= a /\ a <= b
  BY <1>1, <1>3
<1>5. b # 0 => 1 <= b /\ b <= a
  BY <1>2, <1>3
<1> QED
  BY <1>4, <1>5

(* The lines of the first i fields are a text of three pieces for each.     *)
LEMMA LinesUpToType ==
  ASSUME NEW fields \in Seq(Fields), NEW i \in 0 .. Len(fields)
  PROVE  /\ LinesUpTo(fields, i) \in Text /\ Len(LinesUpTo(fields, i)) = 3 * i
         /\ \A k \in 1 .. 3 * i : LinesUpTo(fields, i)[k] = LinePiece(fields, k)
<1> DEFINE t == LinesUpTo(fields, i)
           m == 3 * i
<1>1. Len(fields) \in Nat /\ i \in Nat /\ m \in Nat
  BY LenProperties
<1>2. ASSUME NEW k \in 1 .. m PROVE LinePiece(fields, k) \in Piece
  <2>1. CASE k % 3 = 1
    <3>1. (k + 2) \div 3 \in 1 .. Len(fields)
      BY <1>1, <2>1
    <3>2. fields[(k + 2) \div 3] \in Fields
      BY <3>1, ElementOfSeq
    <3> QED
      BY <2>1, <3>2, Kinds DEF LinePiece
  <2>2. CASE k % 3 # 1
    BY <2>2, Kinds DEF LinePiece
  <2> QED
    BY <2>1, <2>2
<1>3. t = [k \in 1 .. m |-> LinePiece(fields, k)]
  BY DEF LinesUpTo
<1> HIDE DEF m, t
<1>4. t \in [1 .. m -> Piece]
  BY <1>2, <1>3
<1>5. t \in Seq(Piece)
  BY <1>1, <1>4, SeqDef
<1>6. Len(t) = m
  <2>1. Len(t) \in Nat /\ DOMAIN t = 1 .. Len(t) /\ DOMAIN t = 1 .. m
    BY <1>4, <1>5, LenProperties
  <2> QED
    BY <2>1, <1>1, SameLength
<1> QED
  BY <1>3, <1>5, <1>6 DEF Text, m, t

(* A line of one piece and its end.                                         *)
LEMMA OneLine ==
  ASSUME NEW f \in Piece
  PROVE  /\ <<f>> \o CrLf \in Text /\ Len(<<f>> \o CrLf) = 3
         /\ (<<f>> \o CrLf)[1] = f /\ (<<f>> \o CrLf)[2] = Cr /\ (<<f>> \o CrLf)[3] = Lf
<1>1. <<f>> \in Text /\ Len(<<f>>) = 1 /\ <<f>>[1] = f /\ 1 \in 1 .. Len(<<f>>)
  BY DEF Text
<1>2. /\ CrLf \in Text /\ Len(CrLf) = 2 /\ CrLf[1] = Cr /\ CrLf[2] = Lf
      /\ 1 \in 1 .. Len(CrLf) /\ 2 \in 1 .. Len(CrLf)
  BY Kinds DEF CrLf, Text
<1> DEFINE s == <<f>>
           t == s \o CrLf
<1>3. s \in Text /\ Len(s) = 1 /\ s[1] = f /\ 1 \in 1 .. Len(s)
  BY <1>1
<1> HIDE DEF s
<1>4. /\ t \in Text /\ Len(t) = Len(s) + Len(CrLf)
      /\ \A k \in 1 .. Len(s) : t[k] = s[k]
      /\ \A k \in 1 .. Len(CrLf) : t[Len(s) + k] = CrLf[k]
  BY <1>2, <1>3, Joined
<1>5. t[1] = s[1] /\ t[Len(s) + 1] = CrLf[1] /\ t[Len(s) + 2] = CrLf[2]
  BY <1>2, <1>3, <1>4
<1>6. t[1] = f /\ t[2] = Cr /\ t[3] = Lf /\ Len(t) = 3
  BY <1>2, <1>3, <1>4, <1>5
<1> QED
  BY <1>4, <1>6 DEF s

(* The header lines grow by a line of three pieces.                         *)
LEMMA LinesGrow ==
  ASSUME NEW fields \in Seq(Fields), NEW i \in 1 .. Len(fields)
  PROVE  LinesUpTo(fields, i) = LinesUpTo(fields, i - 1) \o Lines(fields)[i]
<1> DEFINE a == LinesUpTo(fields, i - 1)
           t == LinesUpTo(fields, i)
           l == Lines(fields)[i]
           b == a \o l
           m == 3 * (i - 1)
<1>1. /\ i \in Nat /\ i >= 1 /\ i - 1 \in 0 .. Len(fields) /\ i \in 0 .. Len(fields)
      /\ DOMAIN fields = 1 .. Len(fields) /\ fields[i] \in Fields
  BY LenProperties, ElementOfSeq
<1>2. l = <<fields[i]>> \o CrLf
  BY <1>1 DEF Lines
<1>3. fields[i] \in Piece
  BY <1>1, Kinds
<1>4. l \in Text /\ Len(l) = 3 /\ l[1] = fields[i] /\ l[2] = Cr /\ l[3] = Lf
  <2> HIDE DEF l
  <2> QED
    BY <1>2, <1>3, OneLine
<1>5. /\ t \in Text /\ Len(t) = 3 * i
      /\ \A k \in 1 .. 3 * i : t[k] = LinePiece(fields, k)
  BY <1>1, LinesUpToType
<1>6. /\ a \in Text /\ Len(a) = m
      /\ \A k \in 1 .. m : a[k] = LinePiece(fields, k)
  BY <1>1, LinesUpToType
<1> HIDE DEF a, t, l
<1>7. /\ b \in Text /\ Len(b) = Len(a) + Len(l)
      /\ \A k \in 1 .. Len(a) : b[k] = a[k]
      /\ \A k \in 1 .. Len(l) : b[Len(a) + k] = l[k]
  BY <1>4, <1>6, Joined
<1> HIDE DEF b
<1>8. m \in Nat /\ 3 * i = m + 3 /\ Len(b) = m + 3
  BY <1>1, <1>4, <1>6, <1>7
<1>9. b[m + 1] = fields[i] /\ b[m + 2] = Cr /\ b[m + 3] = Lf
  <2>1. 1 \in 1 .. Len(l) /\ 2 \in 1 .. Len(l) /\ 3 \in 1 .. Len(l)
    BY <1>4
  <2>2. b[Len(a) + 1] = l[1] /\ b[Len(a) + 2] = l[2] /\ b[Len(a) + 3] = l[3]
    BY <2>1, <1>7
  <2> QED
    BY <2>2, <1>4, <1>6
<1>10. /\ LinePiece(fields, m + 1) = fields[i] /\ LinePiece(fields, m + 2) = Cr
       /\ LinePiece(fields, m + 3) = Lf
  <2>1. /\ (m + 1) % 3 = 1 /\ (m + 2) % 3 = 2 /\ (m + 3) % 3 = 0
        /\ ((m + 1) + 2) \div 3 = i
    BY <1>1
  <2> HIDE DEF m
  <2> QED
    BY <2>1 DEF LinePiece
<1> HIDE DEF m
<1>11. ASSUME NEW k \in 1 .. Len(t) PROVE t[k] = b[k]
  <2>1. k \in 1 .. m + 3
    BY <1>5, <1>8
  <2>2. CASE k \in 1 .. m
    <3>1. t[k] = LinePiece(fields, k) /\ a[k] = LinePiece(fields, k) /\ b[k] = a[k]
      BY <2>1, <2>2, <1>5, <1>6, <1>7, <1>8
    <3> QED
      BY <3>1
  <2>3. CASE k \notin 1 .. m
    <3>1. k = m + 1 \/ k = m + 2 \/ k = m + 3
      BY <2>1, <2>3, <1>8
    <3>2. t[k] = LinePiece(fields, k)
      BY <2>1, <1>5, <1>8
    <3> QED
      BY <3>1, <3>2, <1>9, <1>10
  <2> QED
    BY <2>2, <2>3
<1>12. t = b
  BY <1>5, <1>7, <1>8, <1>11, SeqEqual DEF Text
<1> QED
  BY <1>12 DEF t, b, a, l

(* Flattened, the lines of the fields are all of them.                      *)
LEMMA FlattenedLines ==
  ASSUME NEW fields \in Seq(Fields)
  PROVE  FlattenSeq(Lines(fields)) = LinesUpTo(fields, Len(fields))
<1> DEFINE n == Len(fields)
           seqs == Lines(fields)
           g == Flattened(seqs)
<1>1. n \in Nat /\ DOMAIN fields = 1 .. n
  BY LenProperties
<1>2. seqs = [i \in 1 .. n |-> <<fields[i]>> \o CrLf]
  BY <1>1 DEF Lines
<1>3. Len(seqs) = n
  <2>1. \A i \in 1 .. n : <<fields[i]>> \o CrLf \in Text
    <3> TAKE i \in 1 .. n
    <3>1. fields[i] \in Piece
      BY ElementOfSeq, Kinds
    <3> QED
      BY <3>1, OneLine
  <2>2. seqs \in [1 .. n -> Text]
    BY <1>2, <2>1
  <2> HIDE DEF seqs, n
  <2>3. seqs \in Seq(Text)
    BY <1>1, <2>2, SeqDef
  <2>4. Len(seqs) \in Nat /\ DOMAIN seqs = 1 .. Len(seqs) /\ DOMAIN seqs = 1 .. n
    BY <2>2, <2>3, LenProperties
  <2> QED
    BY <2>4, <1>1, SameLength
<1>4. CASE n = 0
  <2>1. FlattenSeq(seqs) = seqs
    BY <1>3, <1>4 DEF FlattenSeq
  <2>2. 1 .. n = {} /\ 1 .. 3 * n = {}
    BY <1>4
  <2>3. LinesUpTo(fields, n) = [k \in {} |-> LinePiece(fields, k)]
    BY <2>2 DEF LinesUpTo
  <2>4. seqs = [k \in {} |-> LinePiece(fields, k)]
    BY <1>2, <2>2
  <2> QED
    BY <2>1, <2>3, <2>4
<1>5. CASE n # 0
  <2>1. FlattenSeq(seqs) = g[n]
    BY <1>1, <1>3, <1>5 DEF FlattenSeq, Flattened, Flattens
  <2> HIDE DEF seqs, n
  <2> DEFINE W == [i \in 1 .. n |-> LinesUpTo(fields, i)]
  <2>2. LinesUpTo(fields, 0) = <<>>
    <3>1. 0 \in 0 .. Len(fields)
      BY <1>1 DEF n
    <3>2. LinesUpTo(fields, 0) \in Seq(Piece) /\ Len(LinesUpTo(fields, 0)) = 3 * 0
      BY <3>1, LinesUpToType DEF Text
    <3> QED
      BY <3>2, EmptySeq
  <2>3. ASSUME NEW i \in 1 .. n
        PROVE  /\ LinesUpTo(fields, i) = LinesUpTo(fields, i - 1) \o seqs[i]
               /\ seqs[i] \in Text
    <3>1. fields[i] \in Piece
      BY ElementOfSeq, Kinds DEF n
    <3>2. seqs[i] \in Text
      BY <1>2, <3>1, OneLine
    <3> QED
      BY <3>2, LinesGrow DEF seqs, n
  <2>4. 1 \in 1 .. n /\ n \in 1 .. n
    BY <1>1, <1>5
  <2>5. LinesUpTo(fields, 1) = seqs[1]
    <3>1. LinesUpTo(fields, 1) = LinesUpTo(fields, 1 - 1) \o seqs[1] /\ seqs[1] \in Seq(Piece)
      BY <2>3, <2>4 DEF Text
    <3>2. LinesUpTo(fields, 1) = <<>> \o seqs[1]
      BY <2>2, <3>1
    <3> QED
      BY <3>1, <3>2, ConcatEmptySeq
  <2>6. Flattens(W, seqs)
    <3>1. ASSUME NEW i \in 1 .. n
          PROVE  LinesUpTo(fields, i)
                   = IF i = 1 THEN seqs[i] ELSE W[i - 1] \o seqs[i]
      <4>1. CASE i = 1
        BY <4>1, <2>5
      <4>2. CASE i # 1
        <5>1. i - 1 \in 1 .. n
          BY <1>1, <4>2
        <5>2. W[i - 1] = LinesUpTo(fields, i - 1)
          BY <5>1
        <5> HIDE DEF W
        <5> QED
          BY <4>2, <5>2, <2>3
      <4> QED
        BY <4>1, <4>2
    <3>2. W = [i \in 1 .. n |-> IF i = 1 THEN seqs[i] ELSE W[i - 1] \o seqs[i]]
      BY <3>1
    <3> HIDE DEF W
    <3> QED
      BY <1>3, <3>2 DEF Flattens
  <2>7. Flattens(g, seqs)
    BY <2>6 DEF Flattened
  <2> HIDE DEF g, W
  <2>8. \A i \in 1 .. n : g[i] = IF i = 1 THEN seqs[i] ELSE g[i - 1] \o seqs[i]
    BY <1>3, <2>7 DEF Flattens
  <2> DEFINE Wrong == {i \in 1 .. n : g[i] # LinesUpTo(fields, i)}
  <2>9. Wrong = {}
    <3> SUFFICES ASSUME Wrong # {} PROVE FALSE
      OBVIOUS
    <3>1. Wrong \subseteq Nat
      BY <1>1
    <3>2. PICK i \in Wrong : \A j \in Wrong : i <= j
      <4> HIDE DEF Wrong
      <4> QED
        BY <3>1, LeastNatural
    <3>3. i \in 1 .. n /\ g[i] # LinesUpTo(fields, i)
      BY <3>2
    <3>4. i # 1
      BY <2>5, <2>8, <3>3
    <3>5. i - 1 \in 1 .. n /\ i - 1 \notin Wrong
      BY <1>1, <3>2, <3>4
    <3>6. g[i - 1] = LinesUpTo(fields, i - 1)
      BY <3>5
    <3>7. g[i] = g[i - 1] \o seqs[i]
      BY <2>8, <3>3, <3>4
    <3> QED
      BY <2>3, <3>3, <3>6, <3>7
  <2>10. g[n] = LinesUpTo(fields, n)
    BY <2>4, <2>9
  <2> QED
    BY <2>1, <2>10 DEF n, seqs
<1> QED
  BY <1>4, <1>5

-----------------------------------------------------------------------------
(* A response as it arrives.                                                *)

(* s is the head of r as far as it goes: its lines are of three pieces.     *)
BeginsAs(s, r) ==
  \A k \in 1 .. Len(s) :
    /\ k = 1 => s[k] = r.status
    /\ k % 3 = 2 /\ k < HeadLength(r) => s[k] = Cr
    /\ k % 3 = 0 /\ k < HeadLength(r) => s[k] = Lf
    /\ k % 3 = 1 /\ 1 < k /\ k < HeadLength(r) - 1 => s[k] = r.fields[(k - 1) \div 3]
    /\ k = HeadLength(r) - 1 => s[k] = Cr
    /\ k = HeadLength(r) => s[k] = Lf

(* The parts of a response have their types, and its head its length.       *)
LEMMA ResponseTypes ==
  ASSUME NEW r \in Responses
  PROVE  /\ r.status \in StatusLines /\ r.status \in Piece
         /\ r.fields \in Seq(Fields) /\ Len(r.fields) \in Nat /\ DOMAIN r.fields = 1 .. Len(r.fields)
         /\ r.body \in Text /\ Len(r.body) \in Nat
         /\ HeadLength(r) = 3 * Len(r.fields) + 5 /\ HeadLength(r) \in Nat
<1>1. r.status \in StatusLines /\ r.fields \in Seq(Fields) /\ r.body \in Text
  BY ResponsesAssumption
<1>2. Len(r.fields) \in Nat /\ DOMAIN r.fields = 1 .. Len(r.fields) /\ Len(r.body) \in Nat
  BY <1>1, LenProperties DEF Text
<1>3. HeadLength(r) = 3 * Len(r.fields) + 5 /\ HeadLength(r) \in Nat
  BY <1>2 DEF HeadLength
<1> QED
  BY <1>1, <1>2, <1>3, Kinds

(* A rendered response begins as its head does and ends with its body.      *)
LEMMA RenderedBegins ==
  ASSUME NEW r \in Responses
  PROVE  /\ Rendered(r) \in Text /\ Len(Rendered(r)) = HeadLength(r) + Len(r.body)
         /\ BeginsAs(Rendered(r), r)
<1> DEFINE n == Len(r.fields)
           l == LinesUpTo(r.fields, n)
           s1 == <<r.status>> \o CrLf
           s2 == s1 \o l
           s3 == s2 \o CrLf
           s4 == s3 \o r.body
           H == HeadLength(r)
           B == Len(r.body)
<1>1. /\ r.status \in Piece /\ r.fields \in Seq(Fields) /\ n \in Nat
      /\ r.body \in Text /\ B \in Nat /\ H = 3 * n + 5 /\ n \in 0 .. n
  BY ResponseTypes
<1>2. Rendered(r) = s4
  <2>1. FlattenSeq(Lines(r.fields)) = l
    BY <1>1, FlattenedLines
  <2> QED
    BY <2>1 DEF Rendered, Lines
<1>3. s1 \in Text /\ Len(s1) = 3 /\ s1[1] = r.status /\ s1[2] = Cr /\ s1[3] = Lf
  BY <1>1, OneLine
<1>4. l \in Text /\ Len(l) = 3 * n /\ \A k \in 1 .. 3 * n : l[k] = LinePiece(r.fields, k)
  BY <1>1, LinesUpToType
<1>5. /\ CrLf \in Text /\ Len(CrLf) = 2 /\ CrLf[1] = Cr /\ CrLf[2] = Lf
      /\ 1 \in 1 .. Len(CrLf) /\ 2 \in 1 .. Len(CrLf)
  BY Kinds DEF CrLf, Text
<1> HIDE DEF s1, l
<1>6. /\ s2 \in Text /\ Len(s2) = Len(s1) + Len(l)
      /\ \A k \in 1 .. Len(s1) : s2[k] = s1[k]
      /\ \A k \in 1 .. Len(l) : s2[Len(s1) + k] = l[k]
  BY <1>3, <1>4, Joined
<1> HIDE DEF s2
<1>7. /\ s3 \in Text /\ Len(s3) = Len(s2) + Len(CrLf)
      /\ \A k \in 1 .. Len(s2) : s3[k] = s2[k]
      /\ \A k \in 1 .. Len(CrLf) : s3[Len(s2) + k] = CrLf[k]
  BY <1>5, <1>6, Joined
<1> HIDE DEF s3
<1>8. /\ s4 \in Text /\ Len(s4) = Len(s3) + B
      /\ \A k \in 1 .. Len(s3) : s4[k] = s3[k]
  BY <1>1, <1>7, Joined
<1> HIDE DEF s4
<1>9. Len(s2) = 3 * n + 3 /\ Len(s3) = H /\ Len(s4) = H + B
  BY <1>1, <1>3, <1>4, <1>5, <1>6, <1>7, <1>8
<1>10. s4[H - 1] = Cr /\ s4[H] = Lf
  <2>1. s3[Len(s2) + 1] = Cr /\ s3[Len(s2) + 2] = Lf
    BY <1>5, <1>7
  <2>2. Len(s2) + 1 = H - 1 /\ Len(s2) + 2 = H /\ H - 1 \in 1 .. Len(s3) /\ H \in 1 .. Len(s3)
    BY <1>1, <1>9
  <2> HIDE DEF H
  <2>3. s3[H - 1] = Cr /\ s3[H] = Lf
    BY <2>1, <2>2
  <2> QED
    BY <2>2, <2>3, <1>8
<1>11. ASSUME NEW k \in 1 .. 3 * n + 3
       PROVE  s4[k] = s2[k]
  <2>1. k \in 1 .. Len(s2) /\ k \in 1 .. Len(s3)
    BY <1>1, <1>9
  <2> QED
    BY <2>1, <1>7, <1>8
<1>12. s4[1] = r.status /\ s4[2] = Cr /\ s4[3] = Lf
  <2>1. 1 \in 1 .. Len(s1) /\ 2 \in 1 .. Len(s1) /\ 3 \in 1 .. Len(s1)
    BY <1>3
  <2>2. s2[1] = s1[1] /\ s2[2] = s1[2] /\ s2[3] = s1[3]
    BY <2>1, <1>6
  <2>3. 1 \in 1 .. 3 * n + 3 /\ 2 \in 1 .. 3 * n + 3 /\ 3 \in 1 .. 3 * n + 3
    BY <1>1
  <2> QED
    BY <2>2, <2>3, <1>3, <1>11
<1>13. ASSUME NEW k \in 4 .. 3 * n + 3
       PROVE  s4[k] = LinePiece(r.fields, k - 3)
  <2>1. k \in 1 .. 3 * n + 3 /\ k - 3 \in 1 .. 3 * n /\ k = 3 + (k - 3)
    BY <1>1
  <2>2. s2[Len(s1) + (k - 3)] = l[k - 3]
    BY <2>1, <1>4, <1>6
  <2>3. s2[k] = l[k - 3]
    BY <2>1, <2>2, <1>3
  <2> QED
    BY <2>1, <2>3, <1>4, <1>11
<1>14. ASSUME NEW k \in 1 .. H + B
       PROVE  /\ k = 1 => s4[k] = r.status
              /\ k % 3 = 2 /\ k < H => s4[k] = Cr
              /\ k % 3 = 0 /\ k < H => s4[k] = Lf
              /\ k % 3 = 1 /\ 1 < k /\ k < H - 1 => s4[k] = r.fields[(k - 1) \div 3]
              /\ k = H - 1 => s4[k] = Cr
              /\ k = H => s4[k] = Lf
  <2>1. k \in Nat /\ 1 <= k
    BY <1>1
  <2>2. CASE k \in {1, 2, 3}
    <3>1. 1 % 3 = 1 /\ 2 % 3 = 2 /\ 3 % 3 = 0
      OBVIOUS
    <3>2. k < H - 1
      BY <2>2, <1>1
    <3> HIDE DEF H
    <3> QED
      BY <2>2, <3>1, <3>2, <1>12, <1>10
  <2>3. CASE k \in 4 .. 3 * n + 3
    <3>1. s4[k] = LinePiece(r.fields, k - 3)
      BY <2>3, <1>13
    <3>2. (k - 3) % 3 = k % 3 /\ (k - 3) + 2 = k - 1 /\ k < H - 1 /\ k # 1
      BY <2>3, <1>1
    <3> HIDE DEF H
    <3>3. /\ k % 3 = 1 => s4[k] = r.fields[(k - 1) \div 3]
          /\ k % 3 = 2 => s4[k] = Cr
          /\ k % 3 = 0 => s4[k] = Lf
      <4> DEFINE m == k - 3
      <4>1. m % 3 = k % 3 /\ m + 2 = k - 1 /\ s4[k] = LinePiece(r.fields, m)
        BY <3>1, <3>2
      <4> HIDE DEF m
      <4> QED
        BY <4>1 DEF LinePiece
    <3> QED
      BY <3>2, <3>3, <1>10
  <2>4. CASE k > 3 * n + 3
    <3>a. n \in Nat /\ H = 3 * n + 5
      BY <1>1
    <3>b. (3 * n + 4) % 3 = 1
      <4> HIDE DEF n
      <4> QED
        BY <3>a
    <3>1. H - 1 = 3 * n + 4 /\ H = 3 * n + 5 /\ (3 * n + 4) % 3 = 1
      <4> HIDE DEF n, H
      <4> QED
        BY <3>a, <3>b
    <3>2. k = H - 1 \/ k = H \/ k > H
      BY <2>1, <2>4, <3>1, <1>1
    <3>3. k = H - 1 => k % 3 = 1
      BY <3>1
    <3>4. H \in Nat
      BY <1>1
    <3> HIDE DEF H
    <3> QED
      BY <2>1, <3>2, <3>3, <3>4, <1>10, <1>1
  <2> QED
    BY <2>1, <2>2, <2>3, <2>4, <1>1
<1>15. BeginsAs(s4, r)
  BY <1>9, <1>14 DEF BeginsAs
<1> QED
  BY <1>2, <1>8, <1>9, <1>15

(* What has arrived of it begins as it does.                                *)
LEMMA PrefixBegins ==
  ASSUME NEW r \in Responses, NEW s \in Text, NEW u \in Text, s \o u = Rendered(r)
  PROVE  /\ BeginsAs(s, r) /\ Len(s) + Len(u) = HeadLength(r) + Len(r.body)
         /\ Len(s) \in Nat /\ Len(u) \in Nat
<1>1. /\ Len(s \o u) = Len(s) + Len(u) /\ Len(s) \in Nat /\ Len(u) \in Nat
      /\ \A k \in 1 .. Len(s) : (s \o u)[k] = s[k]
  BY Joined
<1>2. Len(s \o u) = HeadLength(r) + Len(r.body) /\ BeginsAs(s \o u, r)
  BY RenderedBegins
<1>3. \A k \in 1 .. Len(s) : k \in 1 .. Len(s \o u)
  BY <1>1
<1> DEFINE t == s \o u
<1>4. BeginsAs(t, r) /\ \A k \in 1 .. Len(s) : k \in 1 .. Len(t) /\ t[k] = s[k]
  BY <1>1, <1>2, <1>3
<1> HIDE DEF t
<1>5. BeginsAs(s, r)
  BY <1>4 DEF BeginsAs
<1> QED
  BY <1>1, <1>2, <1>5

-----------------------------------------------------------------------------
(* Where the head ends, and which of its lines are named.                   *)

(* Least is the least of a set of places that is not empty.                 *)
LEMMA LeastOf ==
  ASSUME NEW S, S \subseteq Nat, S # {}
  PROVE  /\ Least(S) \in S /\ \A k \in S : Least(S) <= k
         /\ \A m \in S : (\A k \in S : m <= k) => Least(S) = m
<1>1. \E m \in S : \A k \in S : m <= k
  BY LeastNatural
<1> DEFINE l == Least(S)
<1>2. l \in S /\ \A k \in S : l <= k
  BY <1>1 DEF Least
<1> HIDE DEF l
<1>3. ASSUME NEW m \in S, \A k \in S : m <= k
      PROVE  l = m
  <2>1. l <= m /\ m <= l /\ l \in Nat /\ m \in Nat
    BY <1>2, <1>3
  <2> QED
    BY <2>1
<1> QED
  BY <1>2, <1>3 DEF l

(* The one blank line of a head is its end, and the first one of a response.*)
LEMMA HeadEnds ==
  ASSUME NEW r \in Responses, NEW s \in Text, BeginsAs(s, r)
  PROVE  /\ Len(s) < HeadLength(r) => Blanks(s) = {}
         /\ Len(s) >= HeadLength(r) => Blanks(s) # {} /\ BodyBegins(s) = HeadLength(r)
<1> DEFINE n == Len(r.fields)
           H == HeadLength(r)
           L == Len(s)
<1>1. n \in Nat /\ H = 3 * n + 5 /\ L \in Nat
  BY ResponseTypes, LenProperties DEF Text
<1>2. r.status # Cr /\ \A i \in 1 .. n : r.fields[i] # Cr
  <2>1. r.status \in StatusLines /\ \A i \in 1 .. n : r.fields[i] \in Fields
    BY ResponseTypes, ElementOfSeq
  <2> QED
    BY <2>1, Kinds
<1> HIDE DEF n, H, L
<1>3. ASSUME NEW k \in 1 .. L, k < H - 1, k % 3 # 2 PROVE s[k] # Cr
  <2>1. /\ k = 1 => s[k] = r.status
        /\ k % 3 = 0 /\ k < H => s[k] = Lf
        /\ k % 3 = 1 /\ 1 < k /\ k < H - 1 => s[k] = r.fields[(k - 1) \div 3]
    BY DEF BeginsAs, H, L
  <2>2. k \in Nat /\ 1 <= k /\ H \in Nat
    BY <1>1
  <2>3. CASE k = 1
    BY <2>1, <2>3, <1>2
  <2>4. CASE k % 3 = 0
    BY <2>1, <2>2, <2>4, <1>3, Kinds
  <2>5. CASE k % 3 = 1 /\ 1 < k
    <3>1. (k - 1) \div 3 \in 1 .. n
      BY <2>2, <2>5, <1>1, <1>3
    <3> QED
      BY <2>1, <2>5, <3>1, <1>2, <1>3
  <2> QED
    BY <2>2, <2>3, <2>4, <2>5, <1>3
<1>4. ASSUME NEW i \in 1 .. L - 3, BlankAt(s, i)
      PROVE  i >= H - 3
  <2>1. i \in Nat /\ 1 <= i /\ i + 2 \in 1 .. L /\ i \in 1 .. L /\ H \in Nat
    BY <1>1
  <2>2. s[i] = Cr /\ s[i + 2] = Cr
    BY <1>4, Blank DEF L
  <2>3. CASE i % 3 # 2
    BY <2>1, <2>2, <2>3, <1>3
  <2>4. CASE i % 3 = 2
    <3>1. (i + 2) % 3 # 2
      BY <2>1, <2>4
    <3>2. ~(i + 2 < H - 1)
      BY <2>1, <2>2, <3>1, <1>3
    <3> QED
      BY <2>1, <3>2
  <2> QED
    BY <2>3, <2>4
<1>5. CASE L < H
  <2>1. \A i \in 1 .. L - 3 : ~BlankAt(s, i)
    BY <1>1, <1>4, <1>5
  <2> QED
    BY <2>1, <1>1, <1>5 DEF Blanks, L, H
<1>6. CASE L >= H
  <2>1. H - 3 \in 1 .. L - 3 /\ (H - 3) + 1 = H - 2 /\ (H - 3) + 2 = H - 1 /\ (H - 3) + 3 = H
    BY <1>1, <1>6
  <2>2. H - 3 \in 1 .. L /\ H - 2 \in 1 .. L /\ H - 1 \in 1 .. L /\ H \in 1 .. L
    BY <1>1, <1>6
  <2>3. (H - 3) % 3 = 2 /\ (H - 2) % 3 = 0 /\ H - 3 < H /\ H - 2 < H
    BY <1>1
  <2>4. s[H - 3] = Cr /\ s[H - 2] = Lf /\ s[H - 1] = Cr /\ s[H] = Lf
    BY <2>2, <2>3 DEF BeginsAs, H, L
  <2>5. BlankAt(s, H - 3)
    BY <2>1, <2>4, Blank DEF L
  <2>6. /\ Blanks(s) \subseteq Nat /\ H - 3 \in Blanks(s)
        /\ \A i \in Blanks(s) : H - 3 <= i
    <3>1. H - 3 \in Blanks(s)
      BY <2>1, <2>5 DEF Blanks, L
    <3>2. \A i \in Blanks(s) : i \in 1 .. L - 3 /\ BlankAt(s, i)
      BY DEF Blanks, L
    <3>3. \A i \in Blanks(s) : i \in Nat /\ H - 3 <= i
      BY <3>2, <1>1, <1>4
    <3> QED
      BY <3>1, <3>3
  <2>7. Least(Blanks(s)) = H - 3
    BY <2>6, LeastOf
  <2>8. BodyBegins(s) = H
    BY <2>7, <1>1 DEF BodyBegins
  <2> QED
    BY <2>6, <2>8, <1>1, <1>6 DEF H, L
<1> QED
  BY <1>1, <1>5, <1>6

(* The header lines of a name are the fields of that name, in their order.  *)
LEMMA NamedLines ==
  ASSUME NEW r \in Responses, NEW s \in Text, BeginsAs(s, r), Len(s) >= HeadLength(r),
         NEW name
  PROVE  LET headers == SubSeq(s, 1, HeadLength(r) - 4)
             values == Values(r, name)
         IN  /\ values = {} => HeaderValue(headers, name) = {}
             /\ values # {} => HeaderValue(headers, name) = {r.fields[Least(values)].value}
<1> DEFINE n == Len(r.fields)
           H == HeadLength(r)
           L == Len(s)
           m == H - 4
           h == SubSeq(s, 1, m)
           V == Values(r, name)
           N == LinesNamed(h, name)
<1>1. n \in Nat /\ H = 3 * n + 5 /\ L \in Nat /\ DOMAIN r.fields = 1 .. n
  BY ResponseTypes, LenProperties DEF Text
<1>2. /\ r.status \in StatusLines /\ \A i \in 1 .. n : r.fields[i] \in Fields
  BY ResponseTypes, ElementOfSeq
<1>3. m = 3 * n + 1 /\ m \in 0 .. L /\ 1 \in 1 .. L + 1 /\ 1 <= m + 1 /\ m \in Nat
  BY <1>1
<1>4. /\ h \in Text /\ Len(h) = m
      /\ \A k \in 1 .. m : h[k] = s[k]
  <2> HIDE DEF m
  <2>1. /\ h \in Text /\ Len(h) = m - 1 + 1
        /\ \A k \in 1 .. m - 1 + 1 : h[k] = s[1 + k - 1]
    BY <1>3, Part DEF L
  <2>2. m - 1 + 1 = m /\ \A k \in 1 .. m : 1 + k - 1 = k
    BY <1>3
  <2> HIDE DEF h
  <2>3. \A k \in 1 .. m : h[k] = s[k]
    <3> TAKE k \in 1 .. m
    <3>1. h[k] = s[1 + k - 1] /\ 1 + k - 1 = k
      BY <2>1, <2>2
    <3> QED
      BY <3>1
  <2> QED
    BY <2>1, <2>2, <2>3
<1>5. ASSUME NEW k \in 1 .. m
      PROVE  /\ k = 1 => h[k] = r.status
             /\ k % 3 = 2 => h[k] = Cr
             /\ k % 3 = 0 => h[k] = Lf
             /\ k % 3 = 1 /\ 1 < k => h[k] = r.fields[(k - 1) \div 3]
  <2>1. k \in 1 .. L /\ k < H /\ k < H - 1 /\ h[k] = s[k]
    BY <1>1, <1>3, <1>4
  <2> HIDE DEF h
  <2> QED
    BY <2>1 DEF BeginsAs, H, L
<1> HIDE DEF n, H, L, m, h
<1>6. ASSUME NEW i \in 1 .. n
      PROVE  /\ 3 * i + 1 \in 3 .. m /\ h[3 * i + 1] = r.fields[i]
             /\ SubSeq(h, 3 * i - 1, 3 * i) = CrLf
  <2> DEFINE a == 3 * i - 1
             b == 3 * i
             t == SubSeq(h, a, b)
  <2>1. i \in Nat /\ 1 <= i /\ i <= n
    BY <1>1
  <2>2. /\ 3 * i + 1 \in 3 .. m /\ 3 * i + 1 \in 1 .. m /\ (3 * i + 1) % 3 = 1 /\ 1 < 3 * i + 1
        /\ ((3 * i + 1) - 1) \div 3 = i
    <3>1. (3 * i + 1) % 3 = 1 /\ ((3 * i + 1) - 1) \div 3 = i
      BY <2>1
    <3>2. 3 * i + 1 >= 4 /\ 3 * i + 1 <= m
      BY <2>1, <1>1, <1>3
    <3> QED
      BY <2>1, <3>1, <3>2, <1>3
  <2>3. h[3 * i + 1] = r.fields[i]
    BY <2>2, <1>5
  <2>4. /\ a \in 1 .. m /\ b \in 1 .. m /\ a % 3 = 2 /\ b % 3 = 0
        /\ a \in 1 .. m + 1 /\ b \in 0 .. m /\ a <= b + 1 /\ b - a + 1 = 2
        /\ a + 1 - 1 = a /\ a + 2 - 1 = b
    <3>1. a % 3 = 2 /\ b % 3 = 0
      BY <2>1
    <3>2. a >= 2 /\ b <= m /\ b = a + 1
      BY <2>1, <1>1, <1>3
    <3>3. a \in Nat /\ b \in Nat /\ m \in Nat
      BY <2>1, <1>3
    <3> HIDE DEF a, b
    <3> QED
      BY <3>1, <3>2, <3>3
  <2> HIDE DEF a, b
  <2>5. /\ t \in Text /\ Len(t) = b - a + 1
        /\ \A k \in 1 .. b - a + 1 : t[k] = h[a + k - 1]
    BY <2>4, <1>4, Part
  <2>6. Len(t) = 2 /\ t[1] = h[a + 1 - 1] /\ t[2] = h[a + 2 - 1]
    <3> HIDE DEF t
    <3>1. Len(t) = 2 /\ \A k \in 1 .. 2 : t[k] = h[a + k - 1]
      BY <2>4, <2>5
    <3> QED
      BY <3>1
  <2>7. h[a] = Cr /\ h[b] = Lf
    BY <2>4, <1>5
  <2>8. t[1] = CrLf[1] /\ t[2] = CrLf[2] /\ CrLf \in Seq(Piece) /\ Len(CrLf) = 2
    BY <2>4, <2>6, <2>7, Kinds DEF CrLf
  <2> HIDE DEF t
  <2>9. \A k \in 1 .. Len(t) : t[k] = CrLf[k]
    <3>1. 1 .. Len(t) = {1, 2}
      BY <2>6
    <3> QED
      BY <2>8, <3>1
  <2>10. t = CrLf
    BY <2>5, <2>6, <2>8, <2>9, SeqEqual DEF Text
  <2> QED
    BY <2>2, <2>3, <2>10 DEF t, a, b
<1>7. ASSUME NEW k \in 3 .. m, h[k].kind = "field"
      PROVE  (k - 1) \div 3 \in 1 .. n /\ k = 3 * ((k - 1) \div 3) + 1
  <2>1. k \in 1 .. m /\ k \in Nat /\ k >= 3
    BY <1>3
  <2>2. k % 3 # 2 /\ k % 3 # 0
    BY <2>1, <1>5, <1>7, Kinds
  <2>3. k % 3 = 1
    BY <2>1, <2>2
  <2> QED
    BY <2>1, <2>3, <1>3, <1>1
<1>8. \A k \in N : \E i \in V : k = 3 * i + 1
  <2> TAKE k \in N
  <2>1. k \in 3 .. m /\ h[k].kind = "field" /\ h[k].name = name
    BY <1>4 DEF LinesNamed
  <2>2. PICK i \in 1 .. n : k = 3 * i + 1
    BY <2>1, <1>7
  <2>3. h[k] = r.fields[i]
    BY <2>2, <1>6
  <2>4. i \in V
    BY <2>1, <2>3, <1>1 DEF Values
  <2> QED
    BY <2>2, <2>4
<1>9. \A i \in V : 3 * i + 1 \in N /\ i \in 1 .. n
  <2> TAKE i \in V
  <2>1. i \in 1 .. n /\ r.fields[i].name = name
    BY <1>1 DEF Values
  <2>2. /\ 3 * i + 1 \in 3 .. m /\ h[3 * i + 1] = r.fields[i]
        /\ SubSeq(h, 3 * i - 1, 3 * i) = CrLf
    BY <2>1, <1>6
  <2>3. h[3 * i + 1].kind = "field" /\ h[3 * i + 1].name = name
    BY <2>1, <2>2, <1>2, Kinds
  <2>4. (3 * i + 1) - 2 = 3 * i - 1 /\ (3 * i + 1) - 1 = 3 * i
    BY <2>1
  <2> DEFINE k == 3 * i + 1
  <2>5. k \in 3 .. Len(h) /\ h[k].kind = "field" /\ h[k].name = name
        /\ SubSeq(h, k - 2, k - 1) = CrLf
    BY <2>2, <2>3, <2>4, <1>4
  <2> HIDE DEF k
  <2>6. k \in N
    BY <2>5 DEF LinesNamed
  <2> QED
    BY <2>1, <2>6 DEF k
<1>10. ASSUME NEW i \in 1 .. n PROVE h[3 * i + 1] = r.fields[i]
  BY <1>6
<1> HIDE DEF N, V
<1>11. V = {} => N = {}
  BY <1>8
<1>12. V # {} => N # {} /\ Least(N) = 3 * Least(V) + 1 /\ Least(V) \in 1 .. n
  <2>1. SUFFICES ASSUME V # {}
                 PROVE  N # {} /\ Least(N) = 3 * Least(V) + 1 /\ Least(V) \in 1 .. n
    OBVIOUS
  <2>2. V \subseteq Nat
    BY <1>9, <1>1
  <2>3. Least(V) \in V /\ \A i \in V : Least(V) <= i
    BY <2>1, <2>2, LeastOf
  <2> DEFINE v == Least(V)
  <2> HIDE DEF v
  <2>4. v \in V /\ v \in 1 .. n /\ v \in Nat /\ \A i \in V : v <= i
    BY <2>3, <1>9, <1>1 DEF v
  <2>5. N \subseteq Nat
    BY <1>8, <2>2
  <2>6. 3 * v + 1 \in N
    BY <1>9, <2>4
  <2>7. \A k \in N : 3 * v + 1 <= k
    <3> TAKE k \in N
    <3>1. PICK i \in V : k = 3 * i + 1
      BY <1>8
    <3>2. v <= i /\ i \in Nat
      BY <2>2, <2>4
    <3> QED
      BY <3>1, <3>2, <2>4
  <2>8. Least(N) = 3 * v + 1
    BY <2>5, <2>6, <2>7, LeastOf
  <2> QED
    BY <2>4, <2>6, <2>8 DEF v
<1>13. V # {} => h[Least(N)] = r.fields[Least(V)]
  BY <1>10, <1>12
<1>14. V = {} => HeaderValue(h, name) = {}
  BY <1>11 DEF HeaderValue, N
<1>15. V # {} => HeaderValue(h, name) = {r.fields[Least(V)].value}
  BY <1>12, <1>13 DEF HeaderValue, N
<1> QED
  BY <1>14, <1>15 DEF V, h, m, H

-----------------------------------------------------------------------------
(* What a response promises, and what consume makes of it.                  *)

(* The length that the first content-length of a response says.             *)
Said(r) ==
  LET lengths == Values(r, "content-length")
  IN  IF lengths = {} THEN Absent ELSE Worth(r.fields[Least(lengths)].value)

(* With the head whole, content_length finds the length that was said, or   *)
(* none if that is beyond a size_t.                                         *)
LEMMA SaidLength ==
  ASSUME NEW r \in Responses, NEW s \in Text, BeginsAs(s, r), Len(s) >= HeadLength(r)
  PROVE  LET declared == ContentLength(SubSeq(s, 1, HeadLength(r) - 4))
         IN  /\ Said(r) # Absent => Said(r) \in Nat
             /\ Said(r) # Absent /\ Said(r) <= SizeMax => declared = Said(r)
             /\ Said(r) # Absent /\ Said(r) > SizeMax => declared = Absent
             /\ Said(r) = Absent => declared = Absent
<1> DEFINE h == SubSeq(s, 1, HeadLength(r) - 4)
           V == Values(r, "content-length")
           x == HeaderValue(h, "content-length")
           v == r.fields[Least(V)].value
<1>1. /\ V = {} => x = {}
      /\ V # {} => x = {v}
  BY NamedLines
<1>2. V # {} => v \in Seq(Digits)
  <2>1. V \subseteq 1 .. Len(r.fields) /\ Len(r.fields) \in Nat
    BY ResponseTypes DEF Values
  <2>2. V # {} => Least(V) \in V
    <3>1. V \subseteq Nat
      BY <2>1
    <3> HIDE DEF V
    <3> QED
      BY <3>1, LeastOf
  <2>3. V # {} => r.fields[Least(V)] \in Fields
    <3> HIDE DEF V
    <3> QED
      BY <2>1, <2>2, ResponseTypes, ElementOfSeq
  <2> QED
    BY <2>3, Kinds
<1>3. ContentLength(h) = IF x \ {<<>>} = {} THEN Absent
                         ELSE FoldLeft(WithDigit, 0, CHOOSE w \in x \ {<<>>} : TRUE)
  BY DEF ContentLength
<1>4. Said(r) = IF V = {} THEN Absent ELSE Worth(v)
  BY DEF Said
<1> HIDE DEF h, V, x, v
<1>5. CASE V = {}
  BY <1>1, <1>3, <1>4, <1>5 DEF h
<1>6. CASE V # {} /\ v = <<>>
  <2>1. x \ {<<>>} = {}
    BY <1>1, <1>6
  <2>2. Worth(v) = Absent
    BY <1>6 DEF Worth
  <2> QED
    BY <1>3, <1>4, <1>6, <2>1, <2>2 DEF h
<1>7. CASE V # {} /\ v # <<>>
  <2>1. x \ {<<>>} = {v} /\ {v} # {}
    BY <1>1, <1>7
  <2>2. (CHOOSE w \in {v} : TRUE) = v
    OBVIOUS
  <2>3. ContentLength(h) = FoldLeft(WithDigit, 0, v)
    BY <1>3, <2>1, <2>2
  <2>4. Said(r) = Worth(v)
    BY <1>4, <1>7
  <2>5. /\ Worth(v) = Absent => FoldLeft(WithDigit, 0, v) = Absent
        /\ Worth(v) # Absent =>
              /\ Worth(v) \in Nat
              /\ Worth(v) > SizeMax => FoldLeft(WithDigit, 0, v) = Absent
              /\ Worth(v) <= SizeMax => FoldLeft(WithDigit, 0, v) = Worth(v)
    BY <1>2, <1>7, LengthIsWorth
  <2> DEFINE c == ContentLength(h)
             a == Said(r)
  <2>6. /\ a = Absent => c = Absent
        /\ a # Absent => a \in Nat /\ (a > SizeMax => c = Absent) /\ (a <= SizeMax => c = a)
    BY <2>3, <2>4, <2>5
  <2> HIDE DEF c, a
  <2> QED
    BY <2>6 DEF c, a, h
<1> QED
  BY <1>5, <1>6, <1>7

(* The status is that of the status line, as soon as anything has arrived.  *)
LEMMA StatusArrived ==
  ASSUME NEW r \in Responses, NEW s \in Text, BeginsAs(s, r), Len(s) >= 1
  PROVE  StatusOf(s) = StatusOf(<<r.status>>)
<1>1. Len(s) \in Nat
  BY LenProperties DEF Text
<1>2. 1 \in 1 .. Len(s)
  BY <1>1
<1>3. s[1] = r.status
  BY <1>2 DEF BeginsAs
<1>4. s # <<>>
  BY <1>1, EmptySeq
<1>5. <<r.status>>[1] = r.status /\ <<r.status>> # <<>>
  OBVIOUS
<1> DEFINE t == <<r.status>>
<1> HIDE DEF t
<1>6. s[1] = t[1] /\ s # <<>> /\ t # <<>>
  BY <1>3, <1>4, <1>5 DEF t
<1>7. StatusOf(s) = StatusOf(t)
  BY <1>6 DEF StatusOf
<1> QED
  BY <1>7 DEF t

(* A text without a blank line.                                             *)
LEMMA NoEndYet ==
  ASSUME NEW s \in Text, Blanks(s) = {}
  PROVE  /\ Len(s) > MaxHead => Consume(s) = "Malformed"
         /\ Len(s) <= MaxHead => Consume(s) = "NeedMore"
<1>1. Consume(s) = IF TooLong(s) THEN "Malformed" ELSE "NeedMore"
  BY DEF Consume
<1>2. Len(s) \in Nat /\ MaxHead \in Nat
  BY SizesAssumption, LenProperties DEF Text
<1> QED
  BY <1>1, <1>2 DEF TooLong

(* What a response promises is a size_t.                                    *)
LEMMA PromisedType ==
  ASSUME NEW r \in Responses, Promised(r) # Absent
  PROVE  Promised(r) \in Nat /\ Promised(r) <= SizeMax
<1>1. Said(r) # Absent => Said(r) \in Nat
  <2>1. /\ Rendered(r) \in Text /\ BeginsAs(Rendered(r), r)
        /\ Len(Rendered(r)) = HeadLength(r) + Len(r.body)
    BY RenderedBegins
  <2>2. Len(Rendered(r)) >= HeadLength(r)
    BY <2>1, ResponseTypes
  <2> QED
    BY <2>1, <2>2, SaidLength
<1>2. SizeMax \in Nat
  BY SizesAssumption
<1>3. \/ Promised(r) = 0
      \/ Promised(r) = Said(r) /\ Said(r) # Absent /\ Said(r) <= SizeMax
  BY DEF Promised, Said
<1> QED
  BY <1>1, <1>2, <1>3

(* A response whose head has arrived whole is judged by its promise and by  *)
(* how much of it there is.                                                 *)
LEMMA Framing ==
  ASSUME NEW r \in Responses, NEW s \in Text, BeginsAs(s, r),
         Len(s) >= HeadLength(r), HeadLength(r) <= SizeMax
  PROVE  /\ Promised(r) = Absent => Consume(s) = "Malformed"
         /\ Promised(r) # Absent =>
              LET whole == HeadLength(r) + Promised(r)
              IN  /\ whole > SizeMax => Consume(s) = "Malformed"
                  /\ whole <= SizeMax /\ Len(s) < whole => Consume(s) = "NeedMore"
                  /\ whole <= SizeMax /\ Len(s) = whole => Consume(s) = "Complete"
                  /\ whole <= SizeMax /\ Len(s) > whole => Consume(s) = "Malformed"
<1> DEFINE H == HeadLength(r)
           L == Len(s)
           h == SubSeq(s, 1, H - 4)
           te == HeaderValue(h, "transfer-encoding")
           c == ContentLength(h)
           none == CarriesNoBody(StatusOf(s))
           total == IF c = Absent THEN H ELSE (H + c) % (SizeMax + 1)
           P == Promised(r)
<1>1. H \in Nat /\ L \in Nat /\ SizeMax \in Nat /\ H >= 5 /\ L >= 1
  BY ResponseTypes, SizesAssumption, LenProperties DEF Text
<1>2. Blanks(s) # {} /\ BodyBegins(s) = H
  BY HeadEnds
<1>3. Consume(s) = IF te # {} THEN "Malformed"
                   ELSE IF c = Absent /\ ~none THEN "Malformed"
                   ELSE IF L < total THEN "NeedMore"
                   ELSE IF L = total THEN "Complete" ELSE "Malformed"
  BY <1>2 DEF Consume
<1>4. te # {} <=> Values(r, "transfer-encoding") # {}
  BY NamedLines
<1>5. /\ Said(r) # Absent => Said(r) \in Nat
      /\ Said(r) # Absent /\ Said(r) <= SizeMax => c = Said(r)
      /\ Said(r) # Absent /\ Said(r) > SizeMax => c = Absent
      /\ Said(r) = Absent => c = Absent
  BY SaidLength
<1>6. StatusOf(s) = StatusOf(<<r.status>>)
  BY <1>1, StatusArrived
<1>7. P = IF Values(r, "transfer-encoding") # {} THEN Absent
          ELSE IF Said(r) # Absent /\ Said(r) <= SizeMax THEN Said(r)
          ELSE IF none THEN 0 ELSE Absent
  BY <1>6 DEF Promised, Said, CarriesNoBody
<1> HIDE DEF H, L, h, te, c, none, P
<1>8. CASE te # {} \/ (c = Absent /\ ~none)
  <2>1. Consume(s) = "Malformed"
    BY <1>3, <1>8
  <2>2. P = Absent
    BY <1>4, <1>5, <1>7, <1>8, <1>1
  <2> QED
    BY <2>1, <2>2 DEF P
<1>9. CASE te = {} /\ c = Absent /\ none
  <2>1. P = 0 /\ total = H
    BY <1>4, <1>5, <1>7, <1>9, <1>1
  <2>2. Consume(s) = IF L < H THEN "NeedMore" ELSE IF L = H THEN "Complete" ELSE "Malformed"
    BY <1>3, <1>9, <2>1
  <2>3. P # Absent /\ H + P = H /\ H <= SizeMax
    BY <1>1, <2>1 DEF Absent, H
  <2>4. /\ H + P > SizeMax => Consume(s) = "Malformed"
        /\ H + P <= SizeMax /\ L < H + P => Consume(s) = "NeedMore"
        /\ H + P <= SizeMax /\ L = H + P => Consume(s) = "Complete"
        /\ H + P <= SizeMax /\ L > H + P => Consume(s) = "Malformed"
    BY <1>1, <2>2, <2>3
  <2> QED
    BY <2>3, <2>4 DEF P, H, L
<1>10. CASE te = {} /\ c # Absent
  <2>1. c = Said(r) /\ c \in Nat /\ c <= SizeMax /\ P = c
    BY <1>4, <1>5, <1>7, <1>10, <1>1
  <2>2. total = (H + P) % (SizeMax + 1)
    BY <1>10, <2>1
  <2> HIDE DEF total
  <2>3. Consume(s) = IF L < total THEN "NeedMore"
                     ELSE IF L = total THEN "Complete" ELSE "Malformed"
    BY <1>3, <1>10
  <2>4. H <= SizeMax /\ H <= L
    BY DEF H, L
  <2>5. /\ H + P <= SizeMax => total = H + P
        /\ H + P > SizeMax => total = (H + P) - (SizeMax + 1)
    <3> DEFINE w == SizeMax + 1
               a == H + P
    <3>1. w \in Nat /\ w > 0 /\ a \in Nat /\ a < w + w /\ w * 0 = 0 /\ w * 1 = w
      BY <1>1, <2>1, <2>4
    <3>2. H + P <= SizeMax <=> a < w
      BY <1>1, <2>1
    <3> HIDE DEF w, a
    <3>3. a < w => a = a % w
      <4>1. a = w * 0 + a
        BY <3>1
      <4> QED
        BY <3>1, <4>1, DivIsUnique
    <3>4. a >= w => a - w = a % w
      <4>1. a >= w => a - w \in Nat /\ a - w < w /\ a = w * 1 + (a - w)
        BY <3>1
      <4> QED
        BY <3>1, <4>1, DivIsUnique
    <3>5. total = a % w
      BY <2>2 DEF w, a
    <3>6. a < w => total = a
      BY <3>3, <3>5
    <3>7. ~(a < w) => total = a - w
      BY <3>1, <3>4, <3>5
    <3>8. H + P > SizeMax => ~(a < w)
      BY <1>1, <2>1, <3>2
    <3>9. H + P <= SizeMax => total = a
      BY <3>2, <3>6
    <3>10. H + P > SizeMax => total = a - w
      BY <3>7, <3>8
    <3>11. a = H + P /\ w = SizeMax + 1
      BY DEF w, a
    <3> QED
      BY <3>9, <3>10, <3>11, Zenon
  <2>6. H + P > SizeMax => total < L /\ total \in Nat
    BY <1>1, <2>1, <2>4, <2>5
  <2>7. /\ H + P > SizeMax => Consume(s) = "Malformed"
        /\ H + P <= SizeMax /\ L < H + P => Consume(s) = "NeedMore"
        /\ H + P <= SizeMax /\ L = H + P => Consume(s) = "Complete"
        /\ H + P <= SizeMax /\ L > H + P => Consume(s) = "Malformed"
    BY <1>1, <2>1, <2>3, <2>5, <2>6
  <2>8. P # Absent
    BY <1>10, <2>1
  <2> QED
    BY <2>7, <2>8 DEF P, H, L
<1> QED
  BY <1>8, <1>9, <1>10

-----------------------------------------------------------------------------
(* Judgement.                                                               *)

(* An answer that has arrived so far is judged as the whole of it deserves. *)
LEMMA JudgedRight ==
  ASSUME NEW r \in Responses, NEW got \in Text, NEW rest \in Text,
         got \o rest = Rendered(r),
         HeadLength(r) <= Len(got) => HeadLength(r) <= MaxHead + Chunk
  PROVE  /\ Consume(got) = "Malformed" =>
              "ProtocolError" \in Verdicts(r)
                \cup (IF HeadLength(r) > MaxHead THEN {"ProtocolError"} ELSE {})
         /\ Consume(got) = "Complete" =>
              /\ (IF Succeeded(got) THEN "Succeeded" ELSE "Rejected") \in Verdicts(r)
              /\ rest # <<>> => Promised(r) < Len(r.body)
         /\ Consume(got) = "NeedMore" /\ rest = <<>> => Verdicts(r) = {}
<1> DEFINE H == HeadLength(r)
           B == Len(r.body)
           L == Len(got)
           P == Promised(r)
           yes == IF Succeeded(got) THEN "Succeeded" ELSE "Rejected"
<1>1. BeginsAs(got, r) /\ L + Len(rest) = H + B /\ L \in Nat /\ Len(rest) \in Nat
  BY PrefixBegins
<1>2. /\ H \in Nat /\ H >= 5 /\ B \in Nat /\ MaxHead \in Nat /\ SizeMax \in Nat
      /\ MaxHead + Chunk <= SizeMax /\ Chunk \in Nat
  BY ResponseTypes, SizesAssumption
<1>3. Len(rest) = 0 <=> rest = <<>>
  BY EmptySeq DEF Text
<1>4. CASE L < H
  <2>1. Blanks(got) = {}
    BY <1>1, <1>4, HeadEnds
  <2>2. /\ L > MaxHead => Consume(got) = "Malformed"
        /\ L <= MaxHead => Consume(got) = "NeedMore"
    BY <2>1, NoEndYet
  <2>3. rest # <<>>
    BY <1>1, <1>2, <1>3, <1>4
  <2>4. Consume(got) = "Malformed" => H > MaxHead
    BY <2>2, <1>1, <1>2, <1>4
  <2>5. Consume(got) # "Complete"
    BY <2>2, <1>1, <1>2
  <2> QED
    BY <2>3, <2>4, <2>5
<1>5. CASE L >= H
  <2>1. H <= SizeMax
    BY <1>1, <1>2, <1>5
  <2>2. /\ P = Absent => Consume(got) = "Malformed"
        /\ P # Absent =>
             /\ H + P > SizeMax => Consume(got) = "Malformed"
             /\ H + P <= SizeMax /\ L < H + P => Consume(got) = "NeedMore"
             /\ H + P <= SizeMax /\ L = H + P => Consume(got) = "Complete"
             /\ H + P <= SizeMax /\ L > H + P => Consume(got) = "Malformed"
    BY <1>1, <1>5, <2>1, Framing
  <2>3. StatusOf(got) = StatusOf(<<r.status>>)
    BY <1>1, <1>2, <1>5, StatusArrived
  <2> DEFINE J == Judged(StatusOf(<<r.status>>))
  <2>4. yes \in J
    <3>1. Absent \notin 200 .. 299
      BY DEF Absent
    <3> QED
      BY <2>3, <3>1 DEF Succeeded, Judged
  <2>5. Verdicts(r) = IF P = Absent \/ H + P > SizeMax THEN {"ProtocolError"}
                      ELSE IF P > B THEN {}
                      ELSE J \cup (IF P < B THEN {"ProtocolError"} ELSE {})
    BY DEF Verdicts
  <2>6. P # Absent => P \in Nat
    BY PromisedType
  <2> HIDE DEF H, B, L, P, J, yes
  <2>7. CASE P = Absent \/ H + P > SizeMax
    <3>1. Consume(got) = "Malformed" /\ "ProtocolError" \in Verdicts(r)
      BY <2>2, <2>5, <2>7
    <3> QED
      BY <3>1
  <2>8. CASE P # Absent /\ H + P <= SizeMax
    <3>1. P \in Nat /\ Verdicts(r) = IF P > B THEN {}
                      ELSE J \cup (IF P < B THEN {"ProtocolError"} ELSE {})
      BY <2>5, <2>6, <2>8, <1>2
    <3>2. CASE L < H + P
      <4>1. Consume(got) = "NeedMore"
        BY <2>2, <2>8, <3>2
      <4>2. rest = <<>> => P > B
        BY <1>1, <1>2, <1>3, <3>1, <3>2
      <4>3. rest = <<>> => Verdicts(r) = {}
        BY <3>1, <4>2
      <4> QED
        BY <4>1, <4>3
    <3>3. CASE L = H + P
      <4>1. Consume(got) = "Complete"
        BY <2>2, <2>8, <3>3
      <4>2. P <= B /\ (rest # <<>> => P < B)
        BY <1>1, <1>2, <1>3, <3>1, <3>3
      <4>3. yes \in Verdicts(r)
        BY <1>2, <2>4, <3>1, <4>2
      <4> QED
        BY <4>1, <4>2, <4>3 DEF yes, P, B
    <3>4. CASE L > H + P
      <4>1. Consume(got) = "Malformed"
        BY <2>2, <2>8, <3>4
      <4>2. P < B
        BY <1>1, <1>2, <1>3, <3>1, <3>4
      <4>3. "ProtocolError" \in Verdicts(r)
        BY <1>2, <3>1, <4>2
      <4> QED
        BY <4>1, <4>3
    <3> QED
      BY <1>1, <1>2, <3>1, <3>2, <3>3, <3>4
  <2> QED
    BY <2>7, <2>8, <1>1, <1>2, <2>6
<1> QED
  BY <1>1, <1>2, <1>4, <1>5

-----------------------------------------------------------------------------
(* Lines for ever, and no blank one.                                        *)

Endless(text) == \A k \in 1 .. Len(text) : k % 3 # 2 => text[k] # Cr

(* No part of it that has arrived has a blank line.                         *)
LEMMA EndlessHasNoEnd ==
  ASSUME NEW s \in Text, NEW u \in Text, Endless(s \o u)
  PROVE  Blanks(s) = {}
<1>1. /\ Len(s \o u) = Len(s) + Len(u) /\ Len(s) \in Nat /\ Len(u) \in Nat
      /\ \A k \in 1 .. Len(s) : (s \o u)[k] = s[k]
  BY Joined
<1>2. ASSUME NEW k \in 1 .. Len(s), k % 3 # 2 PROVE s[k] # Cr
  <2>1. k \in 1 .. Len(s \o u)
    BY <1>1
  <2> QED
    BY <1>1, <1>2, <2>1 DEF Endless
<1>3. ASSUME NEW i \in 1 .. Len(s) - 3, BlankAt(s, i) PROVE FALSE
  <2>1. i \in Nat /\ i \in 1 .. Len(s) /\ i + 2 \in 1 .. Len(s)
    BY <1>1
  <2>2. s[i] = Cr /\ s[i + 2] = Cr
    BY <1>3, Blank
  <2>3. i % 3 = 2 /\ (i + 2) % 3 = 2
    BY <1>2, <2>1, <2>2
  <2> QED
    BY <2>1, <2>3
<1> QED
  BY <1>3 DEF Blanks

(* One more line and it is as endless as before.                            *)
LEMMA EndlessGrows ==
  ASSUME NEW s \in Text, Endless(s), Len(s) % 3 = 0, NEW f \in Piece, f # Cr
  PROVE  /\ Endless(s \o (<<f>> \o CrLf))
         /\ Len(s \o (<<f>> \o CrLf)) % 3 = 0
<1> DEFINE l == <<f>> \o CrLf
           t == s \o l
           n == Len(s)
<1>1. l \in Text /\ Len(l) = 3 /\ l[1] = f /\ l[2] = Cr /\ l[3] = Lf
  BY OneLine
<1> HIDE DEF l
<1>0. /\ t \in Text /\ Len(t) = n + Len(l) /\ n \in Nat
      /\ \A k \in 1 .. n : t[k] = s[k]
      /\ \A k \in 1 .. Len(l) : t[n + k] = l[k]
  BY <1>1, Joined
<1>2. /\ t \in Text /\ Len(t) = n + 3 /\ n \in Nat
      /\ \A k \in 1 .. n : t[k] = s[k]
      /\ \A k \in 1 .. Len(l) : t[n + k] = l[k]
  <2> HIDE DEF t, n
  <2> QED
    BY <1>0, <1>1
<1> HIDE DEF t
<1>3. t[n + 1] # Cr /\ t[n + 3] # Cr
  <2>1. 1 \in 1 .. Len(l) /\ 3 \in 1 .. Len(l)
    BY <1>1
  <2>2. t[n + 1] = f /\ t[n + 3] = Lf
    BY <1>1, <1>2, <2>1
  <2> QED
    BY <2>2, Kinds
<1>4. n % 3 = 0
  OBVIOUS
<1>5. ASSUME NEW k \in 1 .. n + 3, k % 3 # 2 PROVE t[k] # Cr
  <2>1. k \in 1 .. n \/ k = n + 1 \/ k = n + 2 \/ k = n + 3
    BY <1>2
  <2>2. k # n + 2
    BY <1>2, <1>4, <1>5
  <2>3. CASE k \in 1 .. n
    BY <1>2, <1>5, <2>3 DEF Endless, n
  <2> QED
    BY <2>1, <2>2, <2>3, <1>3
<1>6. Len(t) % 3 = 0
  BY <1>2, <1>4
<1>7. Endless(t)
  BY <1>2, <1>5 DEF Endless
<1> QED
  BY <1>6, <1>7 DEF t, l

-----------------------------------------------------------------------------
(* What a read takes from the stream, the buffer gains.                     *)

(* A blank line that has arrived stays.                                     *)
LEMMA BlanksGrow ==
  ASSUME NEW s \in Text, NEW u \in Text
  PROVE  Blanks(s) \subseteq Blanks(s \o u)
<1> DEFINE t == s \o u
<1>1. /\ t \in Text /\ Len(t) = Len(s) + Len(u) /\ Len(s) \in Nat /\ Len(u) \in Nat
      /\ \A k \in 1 .. Len(s) : t[k] = s[k]
  BY Joined
<1> HIDE DEF t
<1>2. ASSUME NEW i \in Blanks(s) PROVE i \in Blanks(t)
  <2>1. i \in 1 .. Len(s) - 3 /\ BlankAt(s, i)
    BY DEF Blanks
  <2>2. /\ i \in Nat /\ i \in 1 .. Len(t) - 3 /\ i \in 1 .. Len(s)
        /\ i + 1 \in 1 .. Len(s) /\ i + 2 \in 1 .. Len(s) /\ i + 3 \in 1 .. Len(s)
    BY <1>1, <2>1
  <2>3. s[i] = Cr /\ s[i + 1] = Lf /\ s[i + 2] = Cr /\ s[i + 3] = Lf
    BY <2>1, Blank
  <2>4. t[i] = Cr /\ t[i + 1] = Lf /\ t[i + 2] = Cr /\ t[i + 3] = Lf
    BY <1>1, <2>2, <2>3
  <2>5. BlankAt(t, i)
    BY <1>1, <2>2, <2>4, Blank
  <2> QED
    BY <2>2, <2>5 DEF Blanks
<1> QED
  BY <1>2 DEF t

(* Three texts are joined the same way from either end.                     *)
LEMMA TextsAssociate ==
  \A s, t, u \in Text : (s \o t) \o u = s \o (t \o u)
BY ConcatAssociative DEF Text

(* The text of an answer is the buffer and the stream together, before a    *)
(* read and after it.                                                       *)
LEMMA ReadMoves ==
  ASSUME NEW s \in Text, NEW d \in Text, NEW n \in 1 .. Len(d)
  PROVE  LET got == s \o SubSeq(d, 1, n)
             rest == SubSeq(d, n + 1, Len(d))
         IN  /\ got \in Text /\ rest \in Text /\ got \o rest = s \o d
             /\ Len(got) = Len(s) + n /\ Len(rest) = Len(d) - n
             /\ SubSeq(d, 1, n) \in Text
<1> DEFINE m == Len(d)
           a == SubSeq(d, 1, n)
           b == SubSeq(d, n + 1, m)
<1>1. m \in Nat /\ n \in Nat /\ 1 <= n /\ n <= m
  BY LenProperties DEF Text
<1>2. a \in Text /\ Len(a) = n
  <2>1. 1 \in 1 .. Len(d) + 1 /\ n \in 0 .. Len(d) /\ 1 <= n + 1 /\ n - 1 + 1 = n
    BY <1>1
  <2> QED
    BY <2>1, Part
<1>3. b \in Text /\ Len(b) = m - n
  <2> DEFINE k == n + 1
  <2>1. k \in 1 .. Len(d) + 1 /\ m \in 0 .. Len(d) /\ k <= m + 1 /\ m - k + 1 = m - n
    BY <1>1
  <2> HIDE DEF k, m
  <2>2. SubSeq(d, k, m) \in Text /\ Len(SubSeq(d, k, m)) = m - k + 1
    BY <2>1, Part
  <2> QED
    BY <2>1, <2>2 DEF k
<1>4. a \o b = d
  <2>1. 1 \in 1 .. Len(d) + 1 /\ n \in 1 - 1 .. Len(d) /\ m \in n .. Len(d) /\ d \in Seq(Piece)
    BY <1>1 DEF Text
  <2>2. SubSeq(d, 1, n) \o SubSeq(d, n + 1, m) = SubSeq(d, 1, m)
    <3> HIDE DEF m
    <3> QED
      BY <2>1, ConcatAdjacentSubSeq
  <2>3. SubSeq(d, 1, Len(d)) = d
    BY <2>1, SubSeqFull
  <2> QED
    BY <2>2, <2>3
<1> HIDE DEF a, b
<1>5. (s \o a) \o b = s \o d
  BY <1>2, <1>3, <1>4, TextsAssociate
<1>6. s \o a \in Text /\ Len(s \o a) = Len(s) + n
  BY <1>2, Joined
<1> QED
  BY <1>2, <1>3, <1>5, <1>6 DEF a, b, m

(* One answer, asked for once.                                              *)
LEMMA FlattenOne ==
  ASSUME NEW x \in Text
  PROVE  FlattenSeq([i \in 1 .. 1 |-> x]) = x
<1> DEFINE seqs == [i \in 1 .. 1 |-> x]
<1>1. seqs \in [1 .. 1 -> Text] /\ seqs[1] = x
  OBVIOUS
<1>2. Len(seqs) = 1
  <2> HIDE DEF seqs
  <2>1. seqs \in Seq(Text)
    BY <1>1, SeqDef
  <2>2. Len(seqs) \in Nat /\ 1 .. Len(seqs) = 1 .. 1
    BY <1>1, <2>1, LenProperties
  <2> QED
    BY <2>2, SameLength
<1> HIDE DEF seqs
<1>3. FlattenSeq(seqs) = Flattened(seqs)[1]
  BY <1>2 DEF FlattenSeq, Flattened, Flattens
<1>4. \E g : Flattens(g, seqs)
  <2> DEFINE g == [i \in 1 .. 1 |-> x]
  <2>1. \A i \in 1 .. 1 : i = 1
    OBVIOUS
  <2>2. g = [i \in 1 .. 1 |-> IF i = 1 THEN seqs[i] ELSE g[i - 1] \o seqs[i]]
    BY <1>1, <2>1
  <2>3. Flattens(g, seqs)
    <3> HIDE DEF g
    <3> QED
      BY <1>2, <2>2 DEF Flattens
  <2> QED
    BY <2>3
<1>5. Flattens(Flattened(seqs), seqs)
  BY <1>4 DEF Flattened
<1>6. Flattened(seqs)[1] = seqs[1]
  <2>1. 1 \in 1 .. Len(seqs)
    BY <1>2
  <2> QED
    BY <1>5, <2>1 DEF Flattens
<1> QED
  BY <1>1, <1>3, <1>6 DEF seqs

-----------------------------------------------------------------------------
(* The inductive invariant, and its steps.                                  *)

(* The types of the variables, as far as the rest needs them.               *)
HttpTypes ==
  /\ open \in BOOLEAN /\ babbling \in BOOLEAN /\ clean \in BOOLEAN
  /\ down \in Text /\ received \in Text
  /\ doing = "reading" => reply \in Responses

(* The worker has asked nothing before it has a request, and a request it   *)
(* has is one head to the target.                                           *)
Begun ==
  /\ doing = "starting" => ~open /\ outcome = "none"
  /\ doing \in {"between", "reading"} => Cardinality(Blanks(request)) = 1

(* While it reads, what has been gathered was not enough; with what is      *)
(* under way it is the answer, or lines without an end; and a head that has *)
(* arrived whole was completed by the read that took it past the limit.     *)
Arriving ==
  doing = "reading" =>
    /\ Consume(received) = "NeedMore"
    /\ clean /\ ~babbling =>
         /\ received \o down = Rendered(reply)
         /\ HeadLength(reply) <= Len(received) => HeadLength(reply) <= MaxHead + Chunk
    /\ babbling =>
         /\ clean /\ Endless(received \o down)
         /\ Len(received \o down) % 3 = 0

(* The inductive invariant.                                                 *)
HttpInv == HttpTypes /\ Begun /\ Arriving /\ FramedByTheAnswer /\ KeptInStep

(* A text with nothing in it.                                               *)
LEMMA EmptyText ==
  /\ <<>> \in Text /\ Len(<<>>) = 0 /\ Blanks(<<>>) = {} /\ Consume(<<>>) = "NeedMore"
  /\ \A s \in Text : <<>> \o s = s
<1>1. <<>> \in Text /\ Len(<<>>) = 0
  BY EmptySeq DEF Text
<1>2. Blanks(<<>>) = {}
  BY <1>1 DEF Blanks
<1>3. 0 <= MaxHead
  BY SizesAssumption
<1>4. Consume(<<>>) = "NeedMore"
  BY <1>1, <1>2, <1>3, NoEndYet
<1>5. \A s \in Text : <<>> \o s = s
  BY ConcatEmptySeq DEF Text
<1> QED
  BY <1>1, <1>2, <1>4, <1>5

(* While more is needed, a buffer without a blank line is within the limit. *)
LEMMA WithinTheLimit ==
  ASSUME NEW s \in Text, Consume(s) = "NeedMore", Blanks(s) = {}
  PROVE  Len(s) <= MaxHead
<1>1. Len(s) \in Nat /\ MaxHead \in Nat
  BY SizesAssumption, LenProperties DEF Text
<1>2. ~(Len(s) > MaxHead)
  BY NoEndYet
<1> QED
  BY <1>1, <1>2

(* The invariant holds before the first request.                            *)
LEMMA HttpInvInit == HttpInit => HttpInv
<1> SUFFICES ASSUME HttpInit PROVE HttpInv
  OBVIOUS
<1>1. HttpTypes /\ Begun /\ Arriving
  BY EmptyText DEF HttpInit, HttpTypes, Begun, Arriving
<1>2. HeadBounded
  BY EmptyText, SizesAssumption DEF HttpInit, HeadBounded
<1> QED
  BY <1>1, <1>2 DEF HttpInit, HttpInv, FramedByTheAnswer, OutcomeIsTheAnswers,
                    NothingAwaitedInVain, KeptInStep

(* A request that is not refused is one request.                            *)
LEMMA ConstructStep ==
  ASSUME HttpInv, Construct PROVE HttpInv'
<1>1. doing = "starting" /\ doing' \in {"between", "refused"}
      /\ UNCHANGED <<req, open, down, babbling, received, outcome, reply, clean>>
  BY DEF Construct
<1>2. ~open /\ outcome = "none" /\ HttpTypes /\ HeadBounded
  BY <1>1 DEF HttpInv, Begun, FramedByTheAnswer
<1>3. doing' = "between" => Cardinality(Blanks(request')) = 1
  <2> SUFFICES ASSUME doing' = "between" PROVE Cardinality(Blanks(request')) = 1
    OBVIOUS
  <2>1. PICK place \in Places :
          ~Refused(place[1], place[2]) /\ request' = RequestOf(place[1], place[2])
    BY DEF Construct
  <2>2. place[1] \in Text /\ place[2] \in Text
    BY PlacesAssumption
  <2> QED
    BY <2>1, <2>2, RequestIsOne
<1>4. HttpTypes' /\ Begun' /\ Arriving'
  BY <1>1, <1>2, <1>3 DEF HttpTypes, Begun, Arriving
<1>5. HeadBounded'
  BY <1>1, <1>2 DEF HeadBounded
<1>6. OutcomeIsTheAnswers' /\ NothingAwaitedInVain' /\ KeptInStep'
  BY <1>1, <1>2 DEF OutcomeIsTheAnswers, NothingAwaitedInVain, KeptInStep
<1> QED
  BY <1>4, <1>5, <1>6 DEF HttpInv, FramedByTheAnswer

(* The target answers once, or begins a head that has no end.               *)
LEMMA AskStep ==
  ASSUME HttpInv, Ask PROVE HttpInv'
<1>1. PICK r \in Responses :
        /\ reply' = r
        /\ \/ /\ babbling' = FALSE
              /\ down' = (IF open THEN down ELSE <<>>) \o
                   FlattenSeq([i \in 1 .. Cardinality(Blanks(request)) |-> Rendered(r)])
           \/ /\ clean' /\ babbling' = TRUE
              /\ down' = <<r.status>> \o CrLf
  BY DEF Ask
<1>2. /\ doing = "between" /\ doing' = "reading" /\ open' = TRUE
      /\ received' = <<>> /\ outcome' = "none" /\ clean' = (open => down = <<>>)
      /\ request' = request
  BY DEF Ask
<1>3. Cardinality(Blanks(request)) = 1 /\ HttpTypes
  BY <1>2 DEF HttpInv, Begun
<1> DEFINE text == Rendered(r)
           left == IF open THEN down ELSE <<>>
<1>4. /\ text \in Text /\ Len(text) = HeadLength(r) + Len(r.body)
      /\ HeadLength(r) \in Nat /\ Len(r.body) \in Nat /\ HeadLength(r) >= 5
  BY RenderedBegins, ResponseTypes
<1>5. FlattenSeq([i \in 1 .. Cardinality(Blanks(request)) |-> text]) = text
  <2> HIDE DEF text
  <2> QED
    BY <1>3, <1>4, FlattenOne
<1>6. left \in Text /\ (clean' => left = <<>>)
  BY <1>2, <1>3, EmptyText DEF HttpTypes
<1>7. CASE /\ babbling' = FALSE
           /\ down' = left \o FlattenSeq([i \in 1 .. Cardinality(Blanks(request)) |-> text])
  <2>1. down' = left \o text
    BY <1>5, <1>7
  <2> HIDE DEF left, text
  <2>2. down' \in Text
    BY <1>4, <1>6, <2>1, Joined
  <2>3. clean' => received' \o down' = text
    BY <1>2, <1>4, <1>6, <2>1, EmptyText
  <2>4. clean' => down' # <<>>
    <3>1. clean' => down' = text
      BY <1>4, <1>6, <2>1, EmptyText
    <3>2. text # <<>>
      BY <1>4, EmptyText
    <3> QED
      BY <3>1, <3>2
  <2>5. ~(HeadLength(r) <= Len(received'))
    BY <1>2, <1>4, EmptyText
  <2>6. HttpTypes'
    BY <1>1, <1>2, <1>7, <2>2, EmptyText DEF HttpTypes
  <2>7. Begun'
    BY <1>2, <1>3 DEF Begun
  <2>8. Arriving'
    BY <1>1, <1>2, <1>7, <2>3, <2>5, EmptyText DEF Arriving, text
  <2>9. OutcomeIsTheAnswers' /\ NothingAwaitedInVain' /\ KeptInStep'
    BY <1>2, <2>4 DEF OutcomeIsTheAnswers, NothingAwaitedInVain, KeptInStep
  <2>10. HeadBounded'
    BY <1>2, EmptyText, SizesAssumption DEF HeadBounded
  <2> QED
    BY <2>6, <2>7, <2>8, <2>9, <2>10 DEF HttpInv, FramedByTheAnswer
<1>8. CASE clean' /\ babbling' = TRUE /\ down' = <<r.status>> \o CrLf
  <2>1. r.status \in Piece /\ r.status # Cr
    BY ResponseTypes, Kinds
  <2>2. down' \in Text
    BY <1>8, <2>1, OneLine
  <2>3. received' \o down' = <<>> \o (<<r.status>> \o CrLf)
    BY <1>2, <1>8
  <2>4. Endless(<<>>) /\ Len(<<>>) % 3 = 0 /\ <<>> \in Text
    BY EmptyText DEF Endless
  <2>5. Endless(received' \o down') /\ Len(received' \o down') % 3 = 0
    BY <2>1, <2>3, <2>4, EndlessGrows
  <2>6. HttpTypes'
    BY <1>1, <1>2, <1>8, <2>2, EmptyText DEF HttpTypes
  <2>7. Begun'
    BY <1>2, <1>3 DEF Begun
  <2>8. Arriving'
    BY <1>2, <1>8, <2>5, EmptyText DEF Arriving
  <2>9. OutcomeIsTheAnswers' /\ NothingAwaitedInVain' /\ KeptInStep'
    BY <1>2, <1>8 DEF OutcomeIsTheAnswers, NothingAwaitedInVain, KeptInStep
  <2>10. HeadBounded'
    BY <1>2, EmptyText, SizesAssumption DEF HeadBounded
  <2> QED
    BY <2>6, <2>7, <2>8, <2>9, <2>10 DEF HttpInv, FramedByTheAnswer
<1> QED
  BY <1>1, <1>7, <1>8

(* The target writes one more header line.                                  *)
LEMMA BabbleStep ==
  ASSUME HttpInv, BabbleOn PROVE HttpInv'
<1>1. /\ doing = "reading" /\ babbling /\ down' = down \o Babble
      /\ UNCHANGED <<request, req, doing, open, babbling, received, outcome, reply, clean>>
  BY DEF BabbleOn
<1> DEFINE f == Filler
<1>2. f \in Piece /\ f # Cr
  BY Kinds
<1>3. Babble = <<f>> \o CrLf
  BY DEF Babble
<1> HIDE DEF f
<1>4. Babble \in Text
  BY <1>2, <1>3, OneLine
<1>5. HttpTypes /\ Arriving /\ Begun /\ HeadBounded
  BY DEF HttpInv, FramedByTheAnswer
<1>6. down \in Text /\ received \in Text /\ down' \in Text
  BY <1>1, <1>4, <1>5, Joined DEF HttpTypes
<1>7. received \o down \in Text /\ (received \o down) \o Babble = received \o down'
  <2>1. received \o down \in Text
    BY <1>6, Joined
  <2>2. (received \o down) \o Babble = received \o (down \o Babble)
    BY <1>4, <1>6, TextsAssociate
  <2> QED
    BY <1>1, <2>1, <2>2
<1>8. Endless(received \o down) /\ Len(received \o down) % 3 = 0
  BY <1>1, <1>5 DEF Arriving
<1>9. Endless(received \o down') /\ Len(received \o down') % 3 = 0
  <2> DEFINE t == received \o down
  <2> HIDE DEF t
  <2>1. Endless(t \o (<<f>> \o CrLf)) /\ Len(t \o (<<f>> \o CrLf)) % 3 = 0
    BY <1>2, <1>7, <1>8, EndlessGrows DEF t
  <2>2. t \o (<<f>> \o CrLf) = received \o down'
    BY <1>3, <1>7 DEF t
  <2> QED
    BY <2>1, <2>2
<1>10. HttpTypes' /\ Begun' /\ HeadBounded'
  BY <1>1, <1>5, <1>6 DEF HttpTypes, Begun, HeadBounded
<1>11. Arriving'
  BY <1>1, <1>5, <1>9 DEF Arriving
<1>12. OutcomeIsTheAnswers' /\ NothingAwaitedInVain' /\ KeptInStep'
  BY <1>1 DEF OutcomeIsTheAnswers, NothingAwaitedInVain, KeptInStep
<1> QED
  BY <1>10, <1>11, <1>12 DEF HttpInv, FramedByTheAnswer

(* The end of an exchange; a connection is kept after a whole answer only.  *)
LEMMA EndKeeps ==
  ASSUME NEW result, End(result)
  PROVE  /\ doing' = "between" /\ outcome' = result /\ open' \in BOOLEAN
         /\ result \notin {"Succeeded", "Rejected"} => open' = FALSE
<1>1. /\ doing' = "between" /\ outcome' = result
      /\ open' = (result \in {"Succeeded", "Rejected"})
  BY DEF End, Usable
<1>2. CASE result \in {"Succeeded", "Rejected"}
  <2>1. (result \in {"Succeeded", "Rejected"}) = TRUE
    BY <1>2
  <2> QED
    BY <1>1, <1>2, <2>1
<1>3. CASE result \notin {"Succeeded", "Rejected"}
  <2>1. (result \in {"Succeeded", "Rejected"}) = FALSE
    BY <1>3
  <2> QED
    BY <1>1, <1>3, <2>1
<1> QED
  BY <1>2, <1>3

(* A read that fails or times out is no verdict on the answer.              *)
LEMMA ReadEndsStep ==
  ASSUME HttpInv, ReadEnds PROVE HttpInv'
<1>1. PICK result \in {"TimedOut", "ReadFailed"} : End(result)
  BY DEF ReadEnds
<1>2. /\ doing = "reading" /\ doing' = "between" /\ open' = FALSE /\ outcome' = result
      /\ UNCHANGED <<request, req, down, babbling, received, reply, clean>>
  BY <1>1, EndKeeps DEF ReadEnds
<1>3. HttpTypes' /\ Begun' /\ Arriving' /\ HeadBounded'
  BY <1>2 DEF HttpInv, HttpTypes, Begun, Arriving, FramedByTheAnswer, HeadBounded
<1>4. OutcomeIsTheAnswers' /\ NothingAwaitedInVain' /\ KeptInStep'
  BY <1>2 DEF OutcomeIsTheAnswers, NothingAwaitedInVain, KeptInStep
<1> QED
  BY <1>3, <1>4 DEF HttpInv, FramedByTheAnswer

(* A read: the buffer is still the beginning of the answer, and is judged   *)
(* as the answer deserves.                                                  *)
LEMMA ReadStep ==
  ASSUME HttpInv, ReadSome PROVE HttpInv'
<1>1. PICK n \in 1 .. Chunk :
        /\ n <= Len(down)
        /\ received' = received \o SubSeq(down, 1, n)
        /\ down' = SubSeq(down, n + 1, Len(down))
        /\ \/ Consume(received') = "NeedMore" /\ UNCHANGED <<doing, open, outcome>>
           \/ Consume(received') = "Malformed" /\ End("ProtocolError")
           \/ /\ Consume(received') = "Complete"
              /\ End(IF Succeeded(received') THEN "Succeeded" ELSE "Rejected")
  BY DEF ReadSome
<1>2. doing = "reading" /\ UNCHANGED <<request, req, babbling, reply, clean>>
  BY DEF ReadSome
<1> DEFINE got == received'
           rest == down'
           r == reply
<1>3. /\ HttpTypes /\ Begun /\ Arriving /\ received \in Text /\ down \in Text
      /\ r \in Responses
  BY <1>2 DEF HttpInv, HttpTypes
<1>4. /\ got \in Text /\ rest \in Text /\ got \o rest = received \o down
      /\ Len(got) = Len(received) + n /\ SubSeq(down, 1, n) \in Text
      /\ Len(received) \in Nat /\ n \in Nat /\ n <= Chunk
  <2>1. Len(down) \in Nat /\ Len(received) \in Nat /\ Chunk \in Nat
    BY <1>3, SizesAssumption, LenProperties DEF Text
  <2>2. n \in 1 .. Len(down) /\ n \in Nat /\ n <= Chunk
    BY <1>1, <2>1
  <2> QED
    BY <1>1, <1>3, <2>1, <2>2, ReadMoves
<1>5. Blanks(received) = {} => Len(got) <= MaxHead + Chunk
  <2>1. Consume(received) = "NeedMore"
    BY <1>2, <1>3 DEF Arriving
  <2>2. Blanks(received) = {} => Len(received) <= MaxHead
    BY <1>3, <2>1, WithinTheLimit
  <2> QED
    BY <1>4, <2>2, SizesAssumption
<1>6. Blanks(received) \subseteq Blanks(got)
  BY <1>1, <1>3, <1>4, BlanksGrow
<1> HIDE DEF got, rest
<1>7. HeadBounded'
  BY <1>5, <1>6 DEF HeadBounded, got
<1>8. CASE clean /\ ~babbling
  <2>1. /\ got \o rest = Rendered(r)
        /\ HeadLength(r) <= Len(received) => HeadLength(r) <= MaxHead + Chunk
    BY <1>2, <1>3, <1>4, <1>8 DEF Arriving, r
  <2>2. HeadLength(r) <= Len(got) => HeadLength(r) <= MaxHead + Chunk
    <3>1. HeadLength(r) \in Nat /\ Len(got) \in Nat /\ MaxHead \in Nat /\ Chunk \in Nat
      BY <1>3, <1>4, ResponseTypes, SizesAssumption
    <3>2. CASE Len(received) < HeadLength(r)
      <4>1. BeginsAs(received, r)
        <5>1. received \o down = Rendered(r)
          BY <1>4, <2>1
        <5> QED
          BY <1>3, <5>1, PrefixBegins
      <4>2. Blanks(received) = {}
        BY <1>3, <3>2, <4>1, HeadEnds
      <4>3. Len(got) <= MaxHead + Chunk
        BY <1>5, <4>2
      <4> QED
        BY <3>1, <4>3
    <3> QED
      BY <1>4, <2>1, <3>1, <3>2
  <2>3. /\ Consume(got) = "Malformed" =>
             "ProtocolError" \in Verdicts(r)
               \cup (IF HeadLength(r) > MaxHead THEN {"ProtocolError"} ELSE {})
        /\ Consume(got) = "Complete" =>
             /\ (IF Succeeded(got) THEN "Succeeded" ELSE "Rejected") \in Verdicts(r)
             /\ rest # <<>> => Promised(r) < Len(r.body)
        /\ Consume(got) = "NeedMore" /\ rest = <<>> => Verdicts(r) = {}
    BY <1>3, <1>4, <2>1, <2>2, JudgedRight
  <2>4. MayComeTo(r)' = Verdicts(r) \cup (IF HeadLength(r) > MaxHead THEN {"ProtocolError"} ELSE {})
    BY <1>2, <1>8 DEF MayComeTo, r
  <2>5. CASE Consume(got) = "NeedMore" /\ UNCHANGED <<doing, open, outcome>>
    <3>1. HttpTypes' /\ Begun'
      BY <1>2, <1>3, <1>4, <2>5 DEF HttpTypes, Begun, got, rest
    <3>2. Arriving'
      BY <1>2, <1>8, <2>1, <2>2, <2>5 DEF Arriving, got, rest, r
    <3>3. NothingAwaitedInVain'
      BY <1>2, <2>3, <2>5 DEF NothingAwaitedInVain, rest, r
    <3>4. OutcomeIsTheAnswers' /\ KeptInStep'
      BY <1>2, <2>5 DEF OutcomeIsTheAnswers, KeptInStep
    <3> QED
      BY <1>7, <3>1, <3>2, <3>3, <3>4 DEF HttpInv, FramedByTheAnswer
  <2>6. CASE Consume(got) = "Malformed" /\ End("ProtocolError")
    <3>1. doing' = "between" /\ open' = FALSE /\ outcome' = "ProtocolError"
      <4> DEFINE bad == "ProtocolError"
      <4>1. End(bad)
        BY <2>6
      <4> HIDE DEF bad
      <4>2. /\ doing' = "between" /\ outcome' = bad
            /\ bad \notin {"Succeeded", "Rejected"} => open' = FALSE
        BY <4>1, EndKeeps
      <4> QED
        BY <4>2 DEF bad
    <3>2. HttpTypes' /\ Begun' /\ Arriving'
      BY <1>2, <1>3, <1>4, <3>1 DEF HttpTypes, Begun, Arriving, got, rest
    <3>3. OutcomeIsTheAnswers'
      <4>1. outcome' \in MayComeTo(r)'
        BY <2>3, <2>4, <2>6, <3>1
      <4> QED
        BY <1>2, <4>1 DEF OutcomeIsTheAnswers, r
    <3>4. NothingAwaitedInVain' /\ KeptInStep'
      BY <3>1 DEF NothingAwaitedInVain, KeptInStep
    <3> QED
      BY <1>7, <3>2, <3>3, <3>4 DEF HttpInv, FramedByTheAnswer
  <2>7. CASE /\ Consume(got) = "Complete"
             /\ End(IF Succeeded(got) THEN "Succeeded" ELSE "Rejected")
    <3>1. /\ doing' = "between" /\ open' \in BOOLEAN
          /\ outcome' = IF Succeeded(got) THEN "Succeeded" ELSE "Rejected"
      <4> DEFINE come == IF Succeeded(got) THEN "Succeeded" ELSE "Rejected"
      <4>1. End(come)
        BY <2>7
      <4> HIDE DEF come
      <4>2. doing' = "between" /\ open' \in BOOLEAN /\ outcome' = come
        BY <4>1, EndKeeps
      <4> QED
        BY <4>2 DEF come
    <3>2. HttpTypes' /\ Begun' /\ Arriving'
      BY <1>2, <1>3, <1>4, <3>1 DEF HttpTypes, Begun, Arriving, got, rest
    <3>3. OutcomeIsTheAnswers'
      <4>1. outcome' \in MayComeTo(r)'
        BY <2>3, <2>4, <2>7, <3>1
      <4> QED
        BY <1>2, <4>1 DEF OutcomeIsTheAnswers, r
    <3>4. KeptInStep'
      BY <1>2, <2>3, <2>7 DEF KeptInStep, rest, r
    <3>5. NothingAwaitedInVain'
      BY <3>1 DEF NothingAwaitedInVain
    <3> QED
      BY <1>7, <3>2, <3>3, <3>4, <3>5 DEF HttpInv, FramedByTheAnswer
  <2> QED
    BY <1>1, <2>5, <2>6, <2>7 DEF got
<1>9. CASE babbling
  <2>1. clean /\ Endless(got \o rest) /\ Len(got \o rest) % 3 = 0
    BY <1>2, <1>3, <1>4, <1>9 DEF Arriving
  <2>2. Blanks(got) = {}
    BY <1>4, <2>1, EndlessHasNoEnd
  <2>3. Consume(got) # "Complete"
    <3>1. Len(got) \in Nat /\ MaxHead \in Nat
      BY <1>4, SizesAssumption
    <3> QED
      BY <1>4, <2>2, <3>1, NoEndYet
  <2>4. CASE Consume(got) = "NeedMore" /\ UNCHANGED <<doing, open, outcome>>
    <3>1. HttpTypes' /\ Begun'
      BY <1>2, <1>3, <1>4, <2>4 DEF HttpTypes, Begun, got, rest
    <3>2. Arriving'
      BY <1>2, <1>9, <2>1, <2>4 DEF Arriving, got, rest
    <3>3. OutcomeIsTheAnswers' /\ KeptInStep' /\ NothingAwaitedInVain'
      BY <1>2, <1>9, <2>4 DEF OutcomeIsTheAnswers, KeptInStep, NothingAwaitedInVain
    <3> QED
      BY <1>7, <3>1, <3>2, <3>3 DEF HttpInv, FramedByTheAnswer
  <2>5. CASE Consume(got) = "Malformed" /\ End("ProtocolError")
    <3>1. doing' = "between" /\ open' = FALSE /\ outcome' = "ProtocolError"
      <4> DEFINE bad == "ProtocolError"
      <4>1. End(bad)
        BY <2>5
      <4> HIDE DEF bad
      <4>2. /\ doing' = "between" /\ outcome' = bad
            /\ bad \notin {"Succeeded", "Rejected"} => open' = FALSE
        BY <4>1, EndKeeps
      <4> QED
        BY <4>2 DEF bad
    <3>2. HttpTypes' /\ Begun' /\ Arriving'
      BY <1>2, <1>3, <1>4, <3>1 DEF HttpTypes, Begun, Arriving, got, rest
    <3>3. OutcomeIsTheAnswers'
      BY <1>2, <1>9, <3>1 DEF OutcomeIsTheAnswers, MayComeTo
    <3>4. NothingAwaitedInVain' /\ KeptInStep'
      BY <3>1 DEF NothingAwaitedInVain, KeptInStep
    <3> QED
      BY <1>7, <3>2, <3>3, <3>4 DEF HttpInv, FramedByTheAnswer
  <2> QED
    BY <1>1, <2>3, <2>4, <2>5 DEF got
<1>10. CASE ~clean /\ ~babbling
  <2>1. CASE Consume(got) = "NeedMore" /\ UNCHANGED <<doing, open, outcome>>
    <3>1. HttpTypes' /\ Begun' /\ Arriving'
      BY <1>2, <1>3, <1>4, <1>10, <2>1 DEF HttpTypes, Begun, Arriving, got, rest
    <3>2. OutcomeIsTheAnswers' /\ KeptInStep' /\ NothingAwaitedInVain'
      BY <1>2, <1>10 DEF OutcomeIsTheAnswers, KeptInStep, NothingAwaitedInVain
    <3> QED
      BY <1>7, <3>1, <3>2 DEF HttpInv, FramedByTheAnswer
  <2>2. ASSUME NEW result, End(result), result \in {"ProtocolError", "Succeeded", "Rejected"}
        PROVE  HttpInv'
    <3>1. doing' = "between" /\ open' \in BOOLEAN
      BY <2>2, EndKeeps
    <3>2. HttpTypes' /\ Begun' /\ Arriving'
      BY <1>2, <1>3, <1>4, <3>1 DEF HttpTypes, Begun, Arriving, got, rest
    <3>3. OutcomeIsTheAnswers' /\ KeptInStep' /\ NothingAwaitedInVain'
      BY <1>2, <1>10 DEF OutcomeIsTheAnswers, KeptInStep, NothingAwaitedInVain
    <3> QED
      BY <1>7, <3>2, <3>3 DEF HttpInv, FramedByTheAnswer
  <2> QED
    BY <1>1, <2>1, <2>2 DEF got
<1> QED
  BY <1>8, <1>9, <1>10

(* Every step preserves the invariant.                                      *)
LEMMA HttpInvStep ==
  ASSUME HttpInv, [HttpNext]_httpVars PROVE HttpInv'
<1>1. CASE UNCHANGED httpVars
  BY <1>1 DEF httpVars, HttpInv, HttpTypes, Begun, Arriving, FramedByTheAnswer, KeptInStep,
              OutcomeIsTheAnswers, NothingAwaitedInVain, HeadBounded, MayComeTo
<1> QED
  BY <1>1, ConstructStep, AskStep, ReadStep, ReadEndsStep, BabbleStep
  DEF HttpNext, WorkerStep

(* Whatever a target answers and however it is cut into reads, an exchange  *)
(* comes to what the answer deserves and to nothing else; an answer that is *)
(* whole is not waited for; and a target that writes headers for ever grows *)
(* the buffer by no more than a read past the limit (http11_get.cpp:31-72). *)
THEOREM HttpIsFramed == HttpSpec => []FramedByTheAnswer
<1>1. HttpInv => FramedByTheAnswer
  BY DEF HttpInv
<1> QED
  BY <1>1, HttpInvInit, HttpInvStep, PTL DEF HttpSpec

(* A connection is carried on with something left in it only if the target  *)
(* sent more than it promised, for every host and path that build_get lets  *)
(* through (http11_get.hpp:19-22, http.cpp:11-19).                          *)
THEOREM HttpKeepsInStep == HttpSpec => []KeptInStep
<1>1. HttpInv => KeptInStep
  BY DEF HttpInv
<1> QED
  BY <1>1, HttpInvInit, HttpInvStep, PTL DEF HttpSpec

=============================================================================
