------------------------- MODULE Descriptors_proofs -------------------------
(***************************************************************************)
(* Theorems about Descriptors, for every number of threads, addresses and  *)
(* descriptors, every timeout, and whatever calls fail.                    *)
(***************************************************************************)
EXTENDS Descriptors, TLAPS

States == {"closed", "fresh", "connecting", "connected", "refused"}
Entries == [by : Threads, state : States, blocking : BOOLEAN]
Connecting == {"nonblock", "connect", "await", "poll", "error", "block", "return"}
Holding == Connecting \cup {"bind", "accepted"}
Labels == Holding \cup {"create", "top", "bound", "threw", "done", "accept", "gone"}

Shape ==
  /\ table \in [Fds -> Entries] /\ pc \in [Threads -> Labels]
  /\ local \in [Threads -> Fds \cup {None}] /\ kept \in [Threads -> Fds \cup {None}]
  /\ clients \subseteq Fds

(* Where a thread is says what it holds.                                    *)
Stage ==
  \A t \in Threads :
    /\ local[t] # None <=> pc[t] \in Holding
    /\ pc[t] \in Connecting \cup {"create", "bind"} => kept[t] = None
    /\ pc[t] \in {"accept", "accepted", "bind"} => t = Acceptor

IOwner == Shape /\ Stage /\ OneOwner

USE ThreadsAssumption DEF Fds, None, Threads

(* At the beginning nothing is open and nobody owns anything.               *)
LEMMA InitOwner == Init => IOwner
  BY DEF Init, IOwner, Shape, Stage, OneOwner, Closed, Object, Entries, States,
         Open, Owned, Labels, Holding, Connecting

(* A Socket is destroyed: the local one, or the one that was kept.  The     *)
(* thread may own none.                                                     *)
LEMMA LocalClosed ==
  \A t \in Threads :
    /\ IOwner
    /\ table' = AfterClose(local[t]) /\ local' = At(local, t, None)
    /\ UNCHANGED <<kept, clients>>
    => /\ table' \in [Fds -> Entries] /\ local' \in [Threads -> Fds \cup {None}]
       /\ \A u \in Threads : local'[u] = IF u = t THEN None ELSE local[u]
       /\ OneOwner'
<1> SUFFICES ASSUME NEW t \in Threads, IOwner, table' = AfterClose(local[t]),
                    local' = At(local, t, None), UNCHANGED <<kept, clients>>
             PROVE  /\ table' \in [Fds -> Entries] /\ local' \in [Threads -> Fds \cup {None}]
                    /\ \A u \in Threads : local'[u] = IF u = t THEN None ELSE local[u]
                    /\ OneOwner'
  OBVIOUS
<1> USE DEF IOwner, Shape, At
<1>1. Closed \in Entries /\ Closed.state = "closed"
  BY DEF Closed, Object, Entries, States
<1>2. /\ table' \in [Fds -> Entries]
      /\ \A f \in Fds : table'[f] = IF f = local[t] THEN Closed ELSE table[f]
  BY <1>1 DEF AfterClose
<1>3. /\ local' \in [Threads -> Fds \cup {None}]
      /\ \A u \in Threads : local'[u] = IF u = t THEN None ELSE local[u]
  OBVIOUS
<1>4. \A f \in Fds : Open(f)' <=> Open(f) /\ f # local[t]
  BY <1>1, <1>2 DEF Open
<1>5. OneOwner'
  <2>1. \A f \in Fds : (f \in clients \/ \E u \in Threads : f \in Owned(u))' <=>
          /\ f \in clients \/ \E u \in Threads : f \in Owned(u)
          /\ f # local[t]
    BY <1>3 DEF OneOwner, Owned
  <2>2. \A u \in Threads : /\ \A f \in Owned(u)' : table'[f].by = u /\ f \notin clients'
                           /\ local'[u] = kept'[u] => local'[u] = None
    BY <1>2, <1>3 DEF OneOwner, Owned
  <2> QED
    BY <1>4, <2>1, <2>2 DEF OneOwner
<1> QED
  BY <1>2, <1>3, <1>5

(* The same of the Socket that is kept.                                     *)
LEMMA KeptClosed ==
  \A t \in Threads :
    /\ IOwner
    /\ table' = AfterClose(kept[t]) /\ kept' = At(kept, t, None)
    /\ UNCHANGED <<local, clients>>
    => /\ table' \in [Fds -> Entries] /\ kept' \in [Threads -> Fds \cup {None}]
       /\ \A u \in Threads : kept'[u] = IF u = t THEN None ELSE kept[u]
       /\ OneOwner'
<1> SUFFICES ASSUME NEW t \in Threads, IOwner, table' = AfterClose(kept[t]),
                    kept' = At(kept, t, None), UNCHANGED <<local, clients>>
             PROVE  /\ table' \in [Fds -> Entries] /\ kept' \in [Threads -> Fds \cup {None}]
                    /\ \A u \in Threads : kept'[u] = IF u = t THEN None ELSE kept[u]
                    /\ OneOwner'
  OBVIOUS
<1> USE DEF IOwner, Shape, At
<1>1. Closed \in Entries /\ Closed.state = "closed"
  BY DEF Closed, Object, Entries, States
<1>2. /\ table' \in [Fds -> Entries]
      /\ \A f \in Fds : table'[f] = IF f = kept[t] THEN Closed ELSE table[f]
  BY <1>1 DEF AfterClose
<1>3. /\ kept' \in [Threads -> Fds \cup {None}]
      /\ \A u \in Threads : kept'[u] = IF u = t THEN None ELSE kept[u]
  OBVIOUS
<1>4. \A f \in Fds : Open(f)' <=> Open(f) /\ f # kept[t]
  BY <1>1, <1>2 DEF Open
<1>5. OneOwner'
  <2>1. \A f \in Fds : (f \in clients \/ \E u \in Threads : f \in Owned(u))' <=>
          /\ f \in clients \/ \E u \in Threads : f \in Owned(u)
          /\ f # kept[t]
    BY <1>3 DEF OneOwner, Owned
  <2>2. \A u \in Threads : /\ \A f \in Owned(u)' : table'[f].by = u /\ f \notin clients'
                           /\ local'[u] = kept'[u] => local'[u] = None
    BY <1>2, <1>3 DEF OneOwner, Owned
  <2> QED
    BY <1>4, <2>1, <2>2 DEF OneOwner
<1> QED
  BY <1>2, <1>3, <1>5

(* A call returns a new descriptor to a thread that has no local one.       *)
LEMMA DescriptorOpened ==
  \A t \in Threads, f \in Fds, state \in States \ {"closed"} :
    /\ IOwner /\ Lowest(f) /\ local[t] = None
    /\ table' = At(table, f, Object(t, state, TRUE)) /\ local' = At(local, t, f)
    /\ UNCHANGED <<kept, clients>>
    => /\ table' \in [Fds -> Entries] /\ local' \in [Threads -> Fds \cup {None}]
       /\ \A u \in Threads : local'[u] = IF u = t THEN f ELSE local[u]
       /\ OneOwner'
<1> SUFFICES ASSUME NEW t \in Threads, NEW f \in Fds, NEW state \in States \ {"closed"},
                    IOwner, Lowest(f), local[t] = None,
                    table' = At(table, f, Object(t, state, TRUE)), local' = At(local, t, f),
                    UNCHANGED <<kept, clients>>
             PROVE  /\ table' \in [Fds -> Entries] /\ local' \in [Threads -> Fds \cup {None}]
                    /\ \A u \in Threads : local'[u] = IF u = t THEN f ELSE local[u]
                    /\ OneOwner'
  OBVIOUS
<1> USE DEF IOwner, Shape, At
<1> DEFINE new == Object(t, state, TRUE)
<1>1. new \in Entries /\ new.by = t /\ new.state # "closed"
  BY DEF Object, Entries
<1> HIDE DEF new
<1>2. /\ table' \in [Fds -> Entries]
      /\ \A g \in Fds : table'[g] = IF g = f THEN new ELSE table[g]
  BY <1>1 DEF new
<1>3. /\ local' \in [Threads -> Fds \cup {None}]
      /\ \A u \in Threads : local'[u] = IF u = t THEN f ELSE local[u]
  OBVIOUS
<1>4. \A g \in Fds : Open(g)' <=> Open(g) \/ g = f
  BY <1>1, <1>2 DEF Open
<1>5. f \notin clients /\ \A u \in Threads : f \notin Owned(u)
  BY DEF Lowest, OneOwner
<1>6. Owned(t)' = Owned(t) \cup {f} /\ \A u \in Threads : u # t => Owned(u)' = Owned(u)
  BY <1>3 DEF Owned
<1>7. \A g \in Fds : Open(g)' <=> g \in clients' \/ \E u \in Threads : g \in Owned(u)'
  <2> SUFFICES ASSUME NEW g \in Fds
               PROVE  Open(g)' <=> g \in clients' \/ \E u \in Threads : g \in Owned(u)'
    OBVIOUS
  <2>1. (\E u \in Threads : g \in Owned(u)') <=> g = f \/ \E u \in Threads : g \in Owned(u)
    BY <1>6
  <2>2. Open(g) <=> g \in clients \/ \E u \in Threads : g \in Owned(u)
    BY DEF OneOwner
  <2> QED
    BY <1>4, <2>1, <2>2
<1>8. \A u \in Threads : /\ \A g \in Owned(u)' : table'[g].by = u /\ g \notin clients'
                         /\ local'[u] = kept'[u] => local'[u] = None
  <2>1. \A u \in Threads : Owned(u) \subseteq Fds
    BY DEF Owned
  <2>2. \A u \in Threads : \A g \in Owned(u)' : table'[g].by = u /\ g \notin clients'
    <3> SUFFICES ASSUME NEW u \in Threads, NEW g \in Owned(u)'
                 PROVE  table'[g].by = u /\ g \notin clients
      OBVIOUS
    <3>1. CASE g \in Owned(u)
      <4>1. g # f /\ g \in Fds
        BY <1>5, <2>1, <3>1
      <4> QED
        BY <1>2, <3>1, <4>1 DEF OneOwner
    <3>2. CASE g = f /\ u = t
      BY <1>1, <1>2, <1>5, <3>2
    <3> QED
      BY <1>6, <3>1, <3>2
  <2>3. \A u \in Threads : local'[u] = kept'[u] => local'[u] = None
    BY <1>3, <1>5 DEF OneOwner, Owned
  <2> QED
    BY <2>2, <2>3
<1> QED
  BY <1>2, <1>3, <1>7, <1>8 DEF OneOwner

(* What a thread has under its own descriptor changes, and is still open.   *)
LEMMA EntryRewritten ==
  \A f \in Fds, e \in Entries :
    /\ IOwner /\ Open(f) /\ e.by = table[f].by /\ e.state # "closed"
    /\ table' = At(table, f, e) /\ UNCHANGED <<local, kept, clients>>
    => table' \in [Fds -> Entries] /\ OneOwner'
<1> SUFFICES ASSUME NEW f \in Fds, NEW e \in Entries,
                    IOwner, Open(f), e.by = table[f].by, e.state # "closed",
                    table' = At(table, f, e), UNCHANGED <<local, kept, clients>>
             PROVE  table' \in [Fds -> Entries] /\ OneOwner'
  OBVIOUS
<1>1. /\ table' \in [Fds -> Entries]
      /\ \A g \in Fds : table'[g] = IF g = f THEN e ELSE table[g]
  BY DEF IOwner, Shape, At
<1>2. \A g \in Fds : (Open(g)' <=> Open(g)) /\ table'[g].by = table[g].by
  BY <1>1 DEF Open
<1>3. \A u \in Threads : Owned(u)' = Owned(u) /\ Owned(u) \subseteq Fds
  BY DEF Owned, IOwner, Shape
<1> QED
  BY <1>1, <1>2, <1>3 DEF IOwner, OneOwner

(* The local Socket is moved into one that holds nothing.                   *)
LEMMA SocketKept ==
  \A t \in Threads :
    /\ IOwner /\ kept[t] = None
    /\ kept' = At(kept, t, local[t]) /\ local' = At(local, t, MovedFrom(local[t]))
    /\ UNCHANGED <<table, clients>>
    => /\ local' \in [Threads -> Fds \cup {None}] /\ kept' \in [Threads -> Fds \cup {None}]
       /\ \A u \in Threads : /\ local'[u] = IF u = t THEN None ELSE local[u]
                             /\ kept'[u] = IF u = t THEN local[t] ELSE kept[u]
       /\ OneOwner'
<1> SUFFICES ASSUME NEW t \in Threads, IOwner, kept[t] = None,
                    kept' = At(kept, t, local[t]), local' = At(local, t, None),
                    UNCHANGED <<table, clients>>
             PROVE  /\ local' \in [Threads -> Fds \cup {None}]
                    /\ kept' \in [Threads -> Fds \cup {None}]
                    /\ \A u \in Threads : /\ local'[u] = IF u = t THEN None ELSE local[u]
                                          /\ kept'[u] = IF u = t THEN local[t] ELSE kept[u]
                    /\ OneOwner'
  BY DEF MovedFrom
<1>1. /\ local' \in [Threads -> Fds \cup {None}] /\ kept' \in [Threads -> Fds \cup {None}]
      /\ \A u \in Threads : /\ local'[u] = IF u = t THEN None ELSE local[u]
                            /\ kept'[u] = IF u = t THEN local[t] ELSE kept[u]
  BY DEF IOwner, Shape, At
<1>2. \A u \in Threads : Owned(u)' = Owned(u)
  BY <1>1 DEF Owned
<1>3. \A u \in Threads : local'[u] = kept'[u] => local'[u] = None
  BY <1>1 DEF IOwner, OneOwner
<1> QED
  BY <1>1, <1>2, <1>3 DEF IOwner, OneOwner, Open

(* An attempt that throws leaves nothing open behind it.                    *)
LEMMA AttemptEnds ==
  \A t \in Workers, e \in {"IoError", "TimedOut"} :
    IOwner /\ AttemptFails(t, e) /\ pc[t] \in Connecting \cup {"create"} => IOwner'
<1> SUFFICES ASSUME NEW t \in Workers, NEW e \in {"IoError", "TimedOut"},
                    IOwner, AttemptFails(t, e), pc[t] \in Connecting \cup {"create"}
             PROVE  IOwner'
  OBVIOUS
<1>1. /\ table' \in [Fds -> Entries] /\ local' \in [Threads -> Fds \cup {None}]
      /\ \A u \in Threads : local'[u] = IF u = t THEN None ELSE local[u]
      /\ OneOwner'
  BY LocalClosed DEF AttemptFails
<1>2. /\ pc' \in [Threads -> Labels] /\ pc'[t] \in {"create", "threw"}
      /\ \A u \in Threads : u # t => pc'[u] = pc[u]
  BY DEF AttemptFails, Goto, At, IOwner, Shape, Labels
<1>3. UNCHANGED <<kept, clients>>
  BY DEF AttemptFails
<1>4. Stage'
  BY <1>1, <1>2, <1>3 DEF IOwner, Stage, Holding, Connecting
<1> QED
  BY <1>1, <1>2, <1>3, <1>4 DEF IOwner, Shape

(* Making a descriptor blocking, or not, changes no owner.                  *)
LEMMA SettingOwner ==
  \A t \in Workers, from, to \in Connecting : \A blocking \in BOOLEAN :
    IOwner /\ Setting(t, from, blocking, to) => IOwner'
<1> SUFFICES ASSUME NEW t \in Workers, NEW from \in Connecting, NEW to \in Connecting,
                    NEW blocking \in BOOLEAN, IOwner, Setting(t, from, blocking, to)
             PROVE  IOwner'
  OBVIOUS
<1> DEFINE f == local[t]
           e == Object(t, table[f].state, blocking)
<1>1. pc[t] \in Connecting /\ f \in Fds /\ UNCHANGED <<local, kept, clients>>
  BY DEF Setting, IOwner, Shape, Stage, Holding
<1>2. f \in Owned(t) /\ Open(f) /\ table[f].by = t /\ table[f] \in Entries
  BY <1>1 DEF IOwner, Shape, OneOwner, Owned
<1>3. e \in Entries /\ e.by = table[f].by /\ e.state # "closed"
  BY <1>2 DEF Entries, Object, Open
<1>4. table' = At(table, f, e)
  BY DEF Setting
<1>5. table' \in [Fds -> Entries] /\ OneOwner'
  <2> HIDE DEF f, e
  <2> QED
    BY <1>1, <1>2, <1>3, <1>4, EntryRewritten
<1>6. Stage' /\ pc' \in [Threads -> Labels]
  BY <1>1 DEF Setting, Goto, At, IOwner, Shape, Stage, Holding, Connecting, Labels
<1> QED
  BY <1>1, <1>5, <1>6 DEF IOwner, Shape

(* Every step keeps the owners right.                                       *)
LEMMA StepOwner == IOwner /\ [Next]_vars => IOwner'
<1> SUFFICES ASSUME IOwner, [Next]_vars PROVE IOwner'
  OBVIOUS
<1> USE DEF IOwner, Shape, Stage, OneOwner, Entries, States, Open, Owned, Labels,
            Holding, Connecting, At, Goto, Object
<1>1. ASSUME NEW t \in Threads, Create(t) PROVE IOwner'
  <2>1. PICK f \in Fds : /\ Lowest(f) /\ table' = At(table, f, Object(t, "fresh", TRUE))
                         /\ local' = At(local, t, f)
    BY <1>1 DEF Create
  <2>2. local[t] = None /\ UNCHANGED <<kept, clients>>
    BY <1>1 DEF Create
  <2>3. "fresh" \in States \ {"closed"}
    OBVIOUS
  <2>4. /\ table' \in [Fds -> Entries] /\ local' \in [Threads -> Fds \cup {None}]
        /\ \A u \in Threads : local'[u] = IF u = t THEN f ELSE local[u]
        /\ OneOwner'
    BY <2>1, <2>2, <2>3, DescriptorOpened
  <2>5. Stage' /\ pc' \in [Threads -> Labels]
    BY <1>1, <2>4, <2>2 DEF Create
  <2> QED
    BY <2>2, <2>4, <2>5
<1>2. ASSUME NEW t \in Workers, StartConnect(t) PROVE IOwner'
  BY <1>2 DEF StartConnect
<1>3. ASSUME NEW t \in Workers, Unblock(t) PROVE IOwner'
  BY <1>3, SettingOwner DEF Unblock
<1>4. ASSUME NEW t \in Workers, Block(t) PROVE IOwner'
  BY <1>4, SettingOwner DEF Block
<1>5. ASSUME NEW t \in Workers, Connect(t) PROVE IOwner'
  BY <1>5 DEF Connect
<1>6. ASSUME NEW f \in Fds, Resolve(f) PROVE IOwner'
  BY <1>6 DEF Resolve
<1>7. ASSUME NEW t \in Workers, Return(t) PROVE IOwner'
  <2>1. /\ local' \in [Threads -> Fds \cup {None}] /\ kept' \in [Threads -> Fds \cup {None}]
        /\ \A u \in Threads : /\ local'[u] = IF u = t THEN None ELSE local[u]
                              /\ kept'[u] = IF u = t THEN local[t] ELSE kept[u]
        /\ OneOwner'
    BY <1>7, SocketKept DEF Return
  <2>2. Stage' /\ pc' \in [Threads -> Labels] /\ UNCHANGED <<table, clients>>
    BY <1>7, <2>1 DEF Return
  <2> QED
    BY <2>1, <2>2
<1>8. ASSUME NEW t \in Workers, CheckError(t) PROVE IOwner'
  <2>1. CASE AttemptFails(t, "IoError")
    BY <1>8, <2>1, AttemptEnds DEF CheckError
  <2>2. CASE UNCHANGED <<table, local, kept, clients>> /\ Goto(t, "block")
    BY <1>8, <2>2 DEF CheckError
  <2> QED
    BY <1>8, <2>1, <2>2 DEF CheckError
<1>9. ASSUME NEW t \in Workers, CallFails(t) PROVE IOwner'
  BY <1>9, AttemptEnds DEF CallFails
<1>10. ASSUME NEW t \in Workers, Await(t) PROVE IOwner'
  <2>1. CASE AttemptFails(t, "TimedOut")
    BY <1>10, <2>1, AttemptEnds DEF Await
  <2>2. CASE UNCHANGED <<table, local, kept, clients>> /\ Goto(t, "poll")
    BY <1>10, <2>2 DEF Await
  <2> QED
    BY <1>10, <2>1, <2>2 DEF Await
<1>11. ASSUME NEW t \in Workers, PollReturns(t) PROVE IOwner'
  <2>1. CASE AttemptFails(t, "TimedOut")
    BY <1>11, <2>1, AttemptEnds DEF PollReturns
  <2>2. CASE /\ UNCHANGED <<table, local, kept, clients>>
             /\ Goto(t, "error") \/ Goto(t, "await")
    BY <1>11, <2>2 DEF PollReturns
  <2> QED
    BY <1>11, <2>1, <2>2 DEF PollReturns, Writable
<1>12. ASSUME NEW t \in Workers, SetTimeouts(t) PROVE IOwner'
  BY <1>12 DEF SetTimeouts, AfterClose
<1>13. ASSUME NEW t \in Workers, Unpause(t) PROVE IOwner'
  BY <1>13 DEF Unpause
<1>14. ASSUME NEW t \in Workers, Drop(t) \/ Finish(t) PROVE IOwner'
  <2>1. /\ table' \in [Fds -> Entries] /\ kept' \in [Threads -> Fds \cup {None}]
        /\ \A u \in Threads : kept'[u] = IF u = t THEN None ELSE kept[u]
        /\ OneOwner'
    BY <1>14, KeptClosed DEF Drop, Finish
  <2>2. Stage' /\ pc' \in [Threads -> Labels] /\ UNCHANGED <<local, clients>>
    BY <1>14, <2>1, SMTT(60) DEF Drop, Finish
  <2> QED
    BY <2>1, <2>2
<1>15. CASE Bind
  <2>1. /\ local' \in [Threads -> Fds \cup {None}] /\ kept' \in [Threads -> Fds \cup {None}]
        /\ \A u \in Threads : /\ local'[u] = IF u = Acceptor THEN None ELSE local[u]
                              /\ kept'[u] = IF u = Acceptor THEN local[Acceptor] ELSE kept[u]
        /\ OneOwner'
    BY <1>15, SocketKept DEF Bind
  <2>2. Stage' /\ pc' \in [Threads -> Labels] /\ UNCHANGED <<table, clients>>
    BY <1>15, <2>1 DEF Bind
  <2> QED
    BY <2>1, <2>2
<1>16. CASE Die
  BY <1>16 DEF Die, Closed
<1>17. CASE BindFails
  <2>1. CASE ~Die
    <3>1. /\ table' \in [Fds -> Entries] /\ local' \in [Threads -> Fds \cup {None}]
          /\ \A u \in Threads : local'[u] = IF u = Acceptor THEN None ELSE local[u]
          /\ OneOwner'
      BY <1>17, <2>1, LocalClosed DEF BindFails
    <3>2. Stage' /\ pc' \in [Threads -> Labels] /\ UNCHANGED <<kept, clients>>
      BY <1>17, <2>1, <3>1 DEF BindFails
    <3> QED
      BY <3>1, <3>2
  <2> QED
    BY <1>16, <2>1
<1>18. CASE Accept
  <2>1. PICK f \in Fds :
          /\ Lowest(f) /\ table' = At(table, f, Object(Acceptor, "connected", TRUE))
          /\ local' = At(local, Acceptor, f)
    BY <1>18 DEF Accept
  <2>2. local[Acceptor] = None /\ UNCHANGED <<kept, clients>>
    BY <1>18 DEF Accept
  <2>3. "connected" \in States \ {"closed"} /\ Acceptor \in Threads
    OBVIOUS
  <2>4. /\ table' \in [Fds -> Entries] /\ local' \in [Threads -> Fds \cup {None}]
        /\ \A u \in Threads : local'[u] = IF u = Acceptor THEN f ELSE local[u]
        /\ OneOwner'
    BY <2>1, <2>2, <2>3, DescriptorOpened
  <2>5. Stage' /\ pc' \in [Threads -> Labels]
    BY <1>18, <2>4, <2>2 DEF Accept
  <2> QED
    BY <2>2, <2>4, <2>5
<1>19. CASE Serve
  <2>1. /\ clients' = clients \cup {local[Acceptor]} /\ local[Acceptor] \in Fds
        /\ local' \in [Threads -> Fds \cup {None}] /\ UNCHANGED <<table, kept>>
        /\ \A u \in Threads : local'[u] = IF u = Acceptor THEN None ELSE local[u]
    BY <1>19 DEF Serve, MovedFrom
  <2>2. Stage' /\ pc' \in [Threads -> Labels]
    BY <1>19, <2>1 DEF Serve
  <2>3. \A f \in Fds : (f \in clients \/ \E u \in Threads : f \in Owned(u))' <=>
                       f \in clients \/ \E u \in Threads : f \in Owned(u)
    BY <2>1
  <2>4. \A u \in Threads : /\ \A f \in Owned(u)' : table'[f].by = u /\ f \notin clients'
                           /\ local'[u] = kept'[u] => local'[u] = None
    BY <2>1
  <2> QED
    BY <2>1, <2>2, <2>3, <2>4
<1>20. CASE AcceptFails
  BY <1>16, <1>20 DEF AcceptFails
<1>21. ASSUME NEW f \in Fds, ServeEnds(f) PROVE IOwner'
  BY <1>21 DEF ServeEnds, AfterClose, Closed
<1>22. CASE Tick
  BY <1>22 DEF Tick
<1>23. CASE UNCHANGED vars
  BY <1>23 DEF vars
<1> QED
  BY <1>1, <1>2, <1>3, <1>4, <1>5, <1>6, <1>7, <1>8, <1>9, <1>10, <1>11, <1>12,
     <1>13, <1>14, <1>15, <1>17, <1>18, <1>19, <1>20, <1>21, <1>22, <1>23
     DEF Next, WorkerStep, ListenStep

(* Whatever fails and whoever is given the number next, every open          *)
(* descriptor has one owner and every owner a descriptor of its own.        *)
THEOREM OwnedOnce == Spec => []OneOwner
<1>1. Init => IOwner
  BY InitOwner
<1>2. IOwner /\ [Next]_vars => IOwner'
  BY StepOwner
<1>3. IOwner => OneOwner
  BY DEF IOwner
<1> QED
  BY <1>1, <1>2, <1>3, PTL DEF Spec

-----------------------------------------------------------------------------
(* What a worker keeps.                                                     *)

(* A descriptor on its way to being kept, and one that is.                  *)
Well(t) ==
  /\ kept[t] # None => table[kept[t]].state = "connected" /\ table[kept[t]].blocking
  /\ pc[t] \in {"block", "return"} => table[local[t]].state = "connected"
  /\ pc[t] = "return" => table[local[t]].blocking

IKept == IOwner /\ \A t \in Workers : Well(t)

(* A step of t leaves the others with what they have.                       *)
Frame(t) ==
  \A u \in Threads \ {t} :
    /\ local'[u] = local[u] /\ kept'[u] = kept[u] /\ pc'[u] = pc[u]
    /\ \A f \in Owned(u) : table'[f] = table[f]

(* What one thread owns is open, and no other thread's.                     *)
LEMMA Apart ==
  IOwner => \A t, u \in Threads :
              t # u => \A f \in Owned(u) : f \in Fds /\ f \notin Owned(t) /\ Open(f)
  BY DEF IOwner, Shape, OneOwner, Owned

(* What is true of the descriptors of the others stays true.                *)
LEMMA OthersWell ==
  \A t \in Threads :
    IKept /\ Frame(t) => \A u \in Workers \ {t} : Well(u)'
<1> SUFFICES ASSUME NEW t \in Threads, IKept, Frame(t), NEW u \in Workers \ {t}
             PROVE  Well(u)'
  OBVIOUS
<1>1. /\ local'[u] = local[u] /\ kept'[u] = kept[u] /\ pc'[u] = pc[u]
      /\ \A f \in {local[u], kept[u]} \ {None} : table'[f] = table[f]
  BY DEF Frame, Owned
<1>2. pc[u] \in {"block", "return"} => local[u] # None
  BY DEF IKept, IOwner, Stage, Holding, Connecting
<1> QED
  BY <1>1, <1>2 DEF IKept, Well

(* An attempt that throws is such a step, and keeps nothing.                *)
LEMMA FailsFrame ==
  \A t \in Workers, e \in {"IoError", "TimedOut"} :
    IKept /\ AttemptFails(t, e) => Frame(t) /\ (kept[t] = None => Well(t)')
<1> SUFFICES ASSUME NEW t \in Workers, NEW e \in {"IoError", "TimedOut"},
                    IKept, AttemptFails(t, e)
             PROVE  Frame(t) /\ (kept[t] = None => Well(t)')
  OBVIOUS
<1>1. \A f \in Fds : f # local[t] => table'[f] = table[f]
  BY DEF AttemptFails, AfterClose, At, IKept, IOwner, Shape
<1>2. \A u \in Threads \ {t} : local'[u] = local[u] /\ kept'[u] = kept[u] /\ pc'[u] = pc[u]
  BY DEF AttemptFails, At, Goto, IKept, IOwner, Shape
<1>3. \A u \in Threads \ {t} : \A f \in Owned(u) : f \in Fds /\ f # local[t]
  BY Apart DEF IKept, Owned
<1>4. kept' = kept /\ pc'[t] \in {"create", "threw"}
  BY DEF AttemptFails, At, Goto, IKept, IOwner, Shape
<1> QED
  BY <1>1, <1>2, <1>3, <1>4 DEF Frame, Well

(* Every step keeps the invariant of what is kept.                          *)
LEMMA StepKept == IKept /\ [Next]_vars => IKept'
<1> SUFFICES ASSUME IKept, [Next]_vars PROVE IKept'
  OBVIOUS
<1>0. IOwner' /\ IOwner
  BY StepOwner DEF IKept
<1>a. \A t \in Threads : Frame(t) /\ (t \in Workers => Well(t)') => IKept'
  BY <1>0, OthersWell DEF IKept
<1>b. \A t, u \in Threads :
        t # u => \A f \in Owned(u) : f \in Fds /\ f \notin Owned(t) /\ Open(f)
  BY <1>0, Apart
<1> USE DEF IOwner, Shape, Stage, Open, Owned, Holding, Connecting, At, Goto, Object,
            Frame, Well
<1>1. ASSUME NEW t \in Threads, Create(t) PROVE IKept'
  BY <1>0, <1>1, <1>a, <1>b DEF Create, Lowest, IKept
<1>2. ASSUME NEW t \in Workers, StartConnect(t) PROVE IKept'
  BY <1>0, <1>2, <1>a DEF StartConnect, IKept
<1>3. ASSUME NEW t \in Workers, Unblock(t) PROVE IKept'
  BY <1>0, <1>3, <1>a, <1>b DEF Unblock, Setting, IKept
<1>4. ASSUME NEW t \in Workers, Block(t) PROVE IKept'
  BY <1>0, <1>4, <1>a, <1>b DEF Block, Setting, IKept
<1>5. ASSUME NEW t \in Workers, Connect(t) PROVE IKept'
  BY <1>0, <1>5, <1>a, <1>b DEF Connect, IKept
<1>6. ASSUME NEW f \in Fds, Resolve(f) PROVE IKept'
  BY <1>0, <1>6 DEF Resolve, IKept
<1>7. ASSUME NEW t \in Workers, Return(t) PROVE IKept'
  BY <1>0, <1>7, <1>a DEF Return, MovedFrom, IKept
<1>8. ASSUME NEW t \in Workers, CheckError(t) PROVE IKept'
  <2>1. CASE AttemptFails(t, "IoError")
    BY <1>0, <1>8, <1>a, <2>1, FailsFrame DEF CheckError
  <2>2. CASE /\ UNCHANGED <<table, local, kept>> /\ Goto(t, "block")
             /\ table[local[t]].state = "connected"
    BY <1>0, <1>8, <1>a, <2>2 DEF CheckError, IKept
  <2> QED
    BY <1>8, <2>1, <2>2 DEF CheckError
<1>9. ASSUME NEW t \in Workers, CallFails(t) PROVE IKept'
  BY <1>0, <1>9, <1>a, FailsFrame DEF CallFails
<1>10. ASSUME NEW t \in Workers, Await(t) PROVE IKept'
  <2>1. CASE AttemptFails(t, "TimedOut")
    BY <1>0, <1>10, <1>a, <2>1, FailsFrame DEF Await
  <2>2. CASE UNCHANGED <<table, local, kept>> /\ Goto(t, "poll")
    BY <1>0, <1>10, <1>a, <2>2 DEF Await, IKept
  <2> QED
    BY <1>10, <2>1, <2>2 DEF Await
<1>11. ASSUME NEW t \in Workers, PollReturns(t) PROVE IKept'
  <2>1. CASE AttemptFails(t, "TimedOut")
    BY <1>0, <1>11, <1>a, <2>1, FailsFrame DEF PollReturns
  <2>2. CASE UNCHANGED <<table, local, kept>> /\ (Goto(t, "error") \/ Goto(t, "await"))
    BY <1>0, <1>11, <1>a, <2>2 DEF PollReturns, IKept
  <2> QED
    BY <1>11, <2>1, <2>2 DEF PollReturns, Writable
<1>12. ASSUME NEW t \in Workers, SetTimeouts(t) PROVE IKept'
  BY <1>0, <1>12, <1>a DEF SetTimeouts, AfterClose, IKept
<1>13. ASSUME NEW t \in Workers, Unpause(t) PROVE IKept'
  BY <1>0, <1>13, <1>a DEF Unpause, IKept
<1>14. ASSUME NEW t \in Workers, Drop(t) \/ Finish(t) PROVE IKept'
  <2>1. \A f \in Fds : f # kept[t] => table'[f] = table[f]
    BY <1>0, <1>14 DEF Drop, Finish, AfterClose
  <2>2. Frame(t)
    BY <1>0, <1>14, <1>b, <2>1 DEF Drop, Finish
  <2>3. Well(t)'
    BY <1>0, <1>14 DEF Drop, Finish
  <2> QED
    BY <1>a, <2>2, <2>3
<1>15. CASE Bind
  BY <1>0, <1>15, <1>a DEF Bind, MovedFrom
<1>16. CASE Die
  BY <1>0, <1>16 DEF Die, IKept
<1>17. CASE BindFails
  <2>1. CASE ~Die
    <3>1. \A f \in Fds : f # local[Acceptor] => table'[f] = table[f]
      BY <1>0, <1>17, <2>1 DEF BindFails, AfterClose
    <3>2. Frame(Acceptor)
      BY <1>0, <1>17, <1>b, <2>1, <3>1 DEF BindFails
    <3> QED
      BY <1>a, <3>2
  <2> QED
    BY <1>16, <2>1
<1>18. CASE Accept
  BY <1>0, <1>18, <1>a, <1>b DEF Accept, Lowest
<1>19. CASE Serve
  BY <1>0, <1>19, <1>a DEF Serve, MovedFrom
<1>20. CASE AcceptFails
  BY <1>16, <1>20 DEF AcceptFails
<1>21. ASSUME NEW f \in Fds, ServeEnds(f) PROVE IKept'
  <2>1. \A u \in Threads : f \notin Owned(u)
    BY <1>0, <1>21 DEF ServeEnds, OneOwner
  <2>2. \A g \in Fds : g # f => table'[g] = table[g]
    BY <1>0, <1>21 DEF ServeEnds, AfterClose
  <2> QED
    BY <1>0, <1>21, <2>1, <2>2 DEF ServeEnds, IKept
<1>22. CASE Tick
  BY <1>0, <1>22 DEF Tick, IKept
<1>23. CASE UNCHANGED vars
  BY <1>0, <1>23 DEF vars, IKept
<1> QED
  BY <1>1, <1>2, <1>3, <1>4, <1>5, <1>6, <1>7, <1>8, <1>9, <1>10, <1>11, <1>12,
     <1>13, <1>14, <1>15, <1>17, <1>18, <1>19, <1>20, <1>21, <1>22, <1>23
     DEF Next, WorkerStep, ListenStep

(* What a worker keeps is connected and blocking, always.                   *)
LEMMA KeptHolds == Spec => []KeptIsConnected
<1>1. Init => IKept
  BY InitOwner DEF Init, IKept, Well
<1>2. IKept /\ [Next]_vars => IKept'
  BY StepKept
<1>3. IKept => KeptIsConnected
  BY DEF IKept, Well, KeptIsConnected
<1> QED
  BY <1>1, <1>2, <1>3, PTL DEF Spec

-----------------------------------------------------------------------------
(* What connect_any says when it throws.                                    *)

(* After n attempts, each of which is on record.                            *)
Tried(t, n) ==
  Len(failures[t]) = n /\ (every[t] <=> "IoError" \notin ToSet(failures[t]))

(* Where a worker is says how many addresses it has tried.                  *)
Told(t) ==
  /\ pc[t] \in {"top", "bound", "done", "gone"} =>
       address[t] = 1 /\ every[t] = TRUE /\ failures[t] = <<>>
  /\ pc[t] \in Connecting \cup {"create"} =>
       address[t] \in 1 .. Addresses /\ Tried(t, address[t] - 1)
  /\ pc[t] = "threw" /\ kept[t] = None => Tried(t, Addresses)
  /\ pc[t] = "bound" => kept[t] # None

Causes == {"IoError", "TimedOut"}

ITold ==
  /\ IOwner
  /\ address \in [Threads -> Nat] /\ every \in [Workers -> BOOLEAN]
  /\ failures \in [Workers -> Seq(Causes)]
  /\ \A t \in Workers : Told(t)

(* One more failure on the record.                                          *)
LEMMA OneMore ==
  \A s \in Seq(Causes), e \in Causes :
    /\ Append(s, e) \in Seq(Causes) /\ Len(Append(s, e)) = Len(s) + 1
    /\ "IoError" \notin ToSet(Append(s, e)) <=> "IoError" \notin ToSet(s) /\ e = "TimedOut"
<1> SUFFICES ASSUME NEW s \in Seq(Causes), NEW e \in Causes
             PROVE  /\ Append(s, e) \in Seq(Causes) /\ Len(Append(s, e)) = Len(s) + 1
                    /\ "IoError" \notin ToSet(Append(s, e)) <=>
                         "IoError" \notin ToSet(s) /\ e = "TimedOut"
  OBVIOUS
<1>1. Append(s, e) \in Seq(Causes) /\ Len(Append(s, e)) = Len(s) + 1
  OBVIOUS
<1>2. \A i \in DOMAIN Append(s, e) :
        Append(s, e)[i] = IF i \in DOMAIN s THEN s[i] ELSE e
  OBVIOUS
<1>3. DOMAIN s \subseteq DOMAIN Append(s, e) /\ Len(s) + 1 \in DOMAIN Append(s, e) \ DOMAIN s
  OBVIOUS
<1>4. ToSet(Append(s, e)) = ToSet(s) \cup {e}
  BY <1>2, <1>3 DEF ToSet
<1> QED
  BY <1>1, <1>4 DEF Causes

(* An attempt that throws goes on the record, the last one as the others.   *)
LEMMA FailsTold ==
  \A t \in Workers, e \in Causes :
    ITold /\ AttemptFails(t, e) /\ pc[t] \in Connecting \cup {"create"} => ITold'
<1> SUFFICES ASSUME NEW t \in Workers, NEW e \in Causes, ITold, AttemptFails(t, e),
                    pc[t] \in Connecting \cup {"create"}
             PROVE  ITold'
  OBVIOUS
<1>1. IOwner /\ IOwner'
  BY AttemptEnds DEF ITold, Causes
<1>2. /\ failures[t] \in Seq(Causes) /\ address[t] \in 1 .. Addresses
      /\ every[t] \in BOOLEAN /\ Tried(t, address[t] - 1)
  BY DEF ITold, Told
<1>3. /\ failures' \in [Workers -> Seq(Causes)] /\ failures'[t] = Append(failures[t], e)
      /\ every' \in [Workers -> BOOLEAN] /\ every'[t] = (every[t] /\ e = "TimedOut")
      /\ \A u \in Workers \ {t} : failures'[u] = failures[u] /\ every'[u] = every[u]
  BY <1>2, OneMore DEF AttemptFails, ITold, At, Verdict
<1>4. /\ Len(failures'[t]) = address[t]
      /\ every'[t] <=> "IoError" \notin ToSet(failures'[t])
  BY <1>2, <1>3, OneMore DEF Tried
<1>5. /\ kept' = kept
      /\ \A u \in Workers \ {t} : address'[u] = address[u] /\ pc'[u] = pc[u]
      /\ address' \in [Threads -> Nat]
      /\ \/ address[t] < Addresses /\ pc'[t] = "create" /\ address'[t] = address[t] + 1
         \/ address[t] = Addresses /\ pc'[t] = "threw"
  <2>1. pc \in [Threads -> Labels] /\ address \in [Threads -> Nat] /\ t \in Threads
    BY DEF ITold, IOwner, Shape
  <2> QED
    BY <1>2, <2>1 DEF AttemptFails, Goto, At
<1>6. Told(t)'
  <2>1. CASE address[t] < Addresses /\ pc'[t] = "create" /\ address'[t] = address[t] + 1
    <3>1. address'[t] \in 1 .. Addresses /\ address'[t] - 1 = address[t]
      BY <1>2, <2>1, AddressesAssumption
    <3>2. Tried(t, address[t] - 1)'
      BY <1>4, <3>1 DEF Tried
    <3> QED
      BY <2>1, <3>1, <3>2 DEF Told, Connecting
  <2>2. CASE address[t] = Addresses /\ pc'[t] = "threw"
    <3>1. Tried(t, Addresses)'
      BY <1>4, <2>2 DEF Tried
    <3> QED
      BY <2>2, <3>1 DEF Told, Connecting
  <2> QED
    BY <1>5, <2>1, <2>2
<1>7. \A u \in Workers \ {t} : Told(u)'
  <2> SUFFICES ASSUME NEW u \in Workers \ {t} PROVE Told(u)'
    OBVIOUS
  <2> QED
    BY <1>3, <1>5, ZenonT(60) DEF ITold, Told, Tried
<1> QED
  BY <1>1, <1>3, <1>5, <1>6, <1>7 DEF ITold

(* A step that tells nobody anything.                                       *)
LEMMA NothingTold ==
  ASSUME ITold, IOwner', UNCHANGED <<every, failures>>, address' \in [Threads -> Nat],
         \A u \in Workers :
           /\ address'[u] = address[u]
           /\ \/ pc'[u] = pc[u] /\ (kept'[u] = kept[u] \/ pc[u] = "top")
              \/ pc[u] \in Connecting \cup {"create"} /\ pc'[u] \in Connecting
              \/ pc[u] = "top" /\ pc'[u] \in {"create", "done"}
              \/ pc[u] = "bound" /\ pc'[u] = "top"
              \/ pc[u] = "bound" /\ pc'[u] = "threw" /\ kept'[u] = kept[u]
  PROVE  ITold'
<1> SUFFICES ASSUME NEW u \in Workers PROVE Told(u)'
  BY DEF ITold
<1>1. /\ Told(u) /\ address'[u] = address[u] /\ every'[u] = every[u]
      /\ failures'[u] = failures[u]
  BY DEF ITold
<1>2. CASE pc'[u] = pc[u] /\ (kept'[u] = kept[u] \/ pc[u] = "top")
  BY <1>1, <1>2 DEF Told, Tried
<1>3. CASE pc[u] \in Connecting \cup {"create"} /\ pc'[u] \in Connecting
  BY <1>1, <1>3 DEF Told, Tried, Connecting
<1>4. CASE pc[u] = "top" /\ pc'[u] \in {"create", "done"}
  <2>1. address[u] \in 1 .. Addresses /\ Tried(u, address[u] - 1)
    BY <1>1, <1>4, AddressesAssumption DEF Told, Tried, ToSet
  <2> QED
    BY <1>1, <1>4, <2>1 DEF Told, Tried, Connecting
<1>5. CASE pc[u] = "bound"
  BY <1>1, <1>5 DEF Told, Tried, Connecting
<1> QED
  BY <1>2, <1>3, <1>4, <1>5

(* A step after which t begins anew, or has a connection.                   *)
Anew(t) ==
  /\ address' \in [Threads -> Nat] /\ every' \in [Workers -> BOOLEAN]
  /\ failures' \in [Workers -> Seq(Causes)]
  /\ address'[t] = 1 /\ every'[t] = TRUE /\ failures'[t] = <<>>
  /\ \A u \in Workers \ {t} :
       /\ address'[u] = address[u] /\ every'[u] = every[u] /\ failures'[u] = failures[u]
       /\ pc'[u] = pc[u] /\ kept'[u] = kept[u]
  /\ pc'[t] = "top" \/ (pc'[t] = "bound" /\ kept'[t] # None)

(* Such a step keeps the record right.                                      *)
LEMMA ToldAnew ==
  \A t \in Workers : ITold /\ IOwner' /\ Anew(t) => ITold'
<1> SUFFICES ASSUME NEW t \in Workers, ITold, IOwner', Anew(t) PROVE ITold'
  OBVIOUS
<1>1. Told(t)'
  BY DEF Anew, Told, Connecting
<1>2. \A u \in Workers \ {t} : Told(u)'
  <2> SUFFICES ASSUME NEW u \in Workers \ {t} PROVE Told(u)'
    OBVIOUS
  <2>1. /\ Told(u) /\ address'[u] = address[u] /\ every'[u] = every[u]
        /\ failures'[u] = failures[u] /\ pc'[u] = pc[u] /\ kept'[u] = kept[u]
    BY DEF ITold, Anew
  <2> QED
    BY <2>1 DEF Told, Tried
<1> QED
  BY <1>1, <1>2 DEF ITold, Anew

(* Every step keeps the record right.                                       *)
LEMMA StepTold == ITold /\ [Next]_vars => ITold'
<1> SUFFICES ASSUME ITold, [Next]_vars PROVE ITold'
  OBVIOUS
<1>0. IOwner /\ IOwner'
  BY StepOwner DEF ITold
<1> USE DEF IOwner, Shape, Stage, At, Goto, Causes
<1>1. ASSUME NEW t \in Threads, Create(t) PROVE ITold'
  BY <1>0, <1>1, NothingTold DEF Create, ITold, Connecting
<1>2. ASSUME NEW t \in Workers, StartConnect(t) PROVE ITold'
  BY <1>0, <1>2, NothingTold DEF StartConnect, ITold
<1>3. ASSUME NEW t \in Workers, Unblock(t) \/ Block(t) \/ Connect(t) PROVE ITold'
  BY <1>0, <1>3, NothingTold DEF ITold, Unblock, Block, Setting, Connect, Connecting
<1>4. ASSUME NEW f \in Fds, Resolve(f) \/ ServeEnds(f) PROVE ITold'
  BY <1>0, <1>4, NothingTold DEF ITold, Resolve, ServeEnds
<1>5. ASSUME NEW t \in Workers, Return(t) PROVE ITold'
  <2>1. Anew(t)
    BY <1>0, <1>5 DEF Return, ITold, Anew, Holding, Connecting
  <2> QED
    BY <1>0, <2>1, ToldAnew
<1>6. ASSUME NEW t \in Workers, Unpause(t) PROVE ITold'
  <2>1. Anew(t)
    BY <1>0, <1>6 DEF Unpause, ITold, Anew
  <2> QED
    BY <1>0, <2>1, ToldAnew
<1>7. ASSUME NEW t \in Workers, CallFails(t) PROVE ITold'
  BY <1>7, FailsTold DEF CallFails, Connecting
<1>8. ASSUME NEW t \in Workers, Await(t) PROVE ITold'
  <2>1. CASE AttemptFails(t, "TimedOut")
    BY <1>8, <2>1, FailsTold DEF Await, Connecting
  <2>2. CASE ~AttemptFails(t, "TimedOut")
    BY <1>0, <1>8, <2>2, NothingTold DEF ITold, Await, Connecting
  <2> QED
    BY <2>1, <2>2
<1>9. ASSUME NEW t \in Workers, PollReturns(t) PROVE ITold'
  <2>1. CASE AttemptFails(t, "TimedOut")
    BY <1>9, <2>1, FailsTold DEF PollReturns, Connecting
  <2>2. CASE ~AttemptFails(t, "TimedOut")
    BY <1>0, <1>9, <2>2, NothingTold DEF ITold, PollReturns, Writable, Connecting
  <2> QED
    BY <2>1, <2>2
<1>10. ASSUME NEW t \in Workers, CheckError(t) PROVE ITold'
  <2>1. CASE AttemptFails(t, "IoError")
    BY <1>10, <2>1, FailsTold DEF CheckError, Connecting
  <2>2. CASE ~AttemptFails(t, "IoError")
    BY <1>0, <1>10, <2>2, NothingTold DEF ITold, CheckError, Connecting
  <2> QED
    BY <2>1, <2>2
<1>11. ASSUME NEW t \in Workers, SetTimeouts(t) PROVE ITold'
  BY <1>0, <1>11, NothingTold DEF SetTimeouts, ITold
<1>12. ASSUME NEW t \in Workers, Drop(t) \/ Finish(t) PROVE ITold'
  BY <1>0, <1>12, NothingTold DEF Drop, Finish, ITold
<1>13. ASSUME Bind \/ Accept \/ Serve PROVE ITold'
  <2>1. /\ UNCHANGED <<every, failures>> /\ address' \in [Threads -> Nat]
        /\ \A u \in Workers : address'[u] = address[u] /\ pc'[u] = pc[u] /\ kept'[u] = kept[u]
    <3>1. CASE Bind
      BY <1>0, <3>1 DEF Bind, ITold
    <3>2. CASE Accept
      BY <1>0, <3>2 DEF Accept, ITold
    <3>3. CASE Serve
      BY <1>0, <3>3 DEF Serve, ITold
    <3> QED
      BY <1>13, <3>1, <3>2, <3>3
  <2> QED
    BY <1>0, <2>1, NothingTold
<1>14. CASE Die
  <2>1. /\ address' \in [Threads -> Nat] /\ every' \in [Workers -> BOOLEAN]
        /\ failures' \in [Workers -> Seq(Causes)]
    BY <1>14 DEF Die
  <2>2. \A u \in Workers : /\ pc'[u] = "gone" /\ address'[u] = 1 /\ every'[u] = TRUE
                           /\ failures'[u] = <<>>
    BY <1>14 DEF Die
  <2> QED
    BY <1>0, <2>1, <2>2 DEF ITold, Told, Connecting
<1>15. CASE BindFails
  <2>1. CASE ~Die
    BY <1>0, <1>15, <2>1, NothingTold DEF BindFails, ITold
  <2> QED
    BY <1>14, <2>1
<1>16. CASE AcceptFails
  BY <1>14, <1>16 DEF AcceptFails
<1>17. CASE Tick \/ UNCHANGED vars
  BY <1>0, <1>17, NothingTold DEF ITold, Tick, vars
<1> QED
  BY <1>1, <1>2, <1>3, <1>4, <1>5, <1>6, <1>7, <1>8, <1>9, <1>10, <1>11, <1>12,
     <1>13, <1>14, <1>15, <1>16, <1>17
     DEF Next, WorkerStep, ListenStep

(* The record is empty at the beginning.                                    *)
LEMMA ToldInit == Init => ITold
  BY InitOwner, AddressesAssumption DEF Init, ITold, Told, Causes, Connecting

(* What connect_any says of a name is so: what it returns is connected and  *)
(* blocking; when it throws, every address has been tried, and it throws    *)
(* TimedOut just if every one of them timed out.                            *)
THEOREM WordIsKept == Spec => []ConnectKeepsItsWord
<1>1. Init => ITold
  BY ToldInit
<1>2. ITold /\ [Next]_vars => ITold'
  BY StepTold
<1>3. ITold => ThrowTellsAll
  BY DEF ITold, Told, Tried, ThrowTellsAll
<1>4. KeptIsConnected /\ ThrowTellsAll => ConnectKeepsItsWord
  BY DEF ConnectKeepsItsWord
<1> QED
  BY <1>1, <1>2, <1>3, <1>4, KeptHolds, PTL DEF Spec

-----------------------------------------------------------------------------
(* How long a connect waits.                                                *)

(* What rounding down to whole milliseconds leaves out is less than one.    *)
LEMMA RoundedDown ==
  \A x \in Nat, y \in Nat \ {0} :
    /\ (x \div y) * y \in Nat
    /\ (x \div y) * y <= x /\ x - y < (x \div y) * y
  OBVIOUS

(* A timeout is a whole number of ticks.                                    *)
LEMMA TotalNat == Total \in Nat /\ TicksPerMs \in Nat /\ TicksPerMs > 0
  BY TimeAssumption DEF Total

(* A poll is asked to last to within a millisecond of the deadline.         *)
Clocked(t) ==
  /\ waited[t] <= Total /\ until[t] <= Total
  /\ pc[t] = "poll" => until[t] > Total - TicksPerMs

ITimed ==
  /\ pc \in [Threads -> Labels]
  /\ waited \in [Workers -> Nat] /\ until \in [Workers -> Nat]
  /\ \A t \in Workers : Clocked(t)

(* A step of t that is not the beginning of a poll.                         *)
LEMMA NotPolling ==
  \A t \in Threads :
    /\ ITimed /\ pc' \in [Threads -> Labels]
    /\ waited' \in [Workers -> Nat] /\ until' \in [Workers -> Nat]
    /\ \A u \in Workers : u # t => /\ waited'[u] = waited[u] /\ until'[u] = until[u]
                                   /\ pc'[u] = pc[u]
    /\ t \in Workers => /\ waited'[t] \in {0, waited[t]} /\ until'[t] \in {0, until[t]}
                        /\ pc'[t] # "poll"
    => ITimed'
  BY TotalNat DEF ITimed, Clocked

(* After an attempt that throws nobody waits for it.                        *)
LEMMA FailsTimed ==
  \A t \in Workers, e \in Causes : ITimed /\ AttemptFails(t, e) => ITimed'
<1> SUFFICES ASSUME NEW t \in Workers, NEW e \in Causes, ITimed, AttemptFails(t, e)
             PROVE  ITimed'
  OBVIOUS
<1>1. /\ waited' = [waited EXCEPT ![t] = 0] /\ until' = [until EXCEPT ![t] = 0]
      /\ pc' = [pc EXCEPT ![t] = "create"] \/ pc' = [pc EXCEPT ![t] = "threw"]
  BY DEF AttemptFails, Goto, At
<1>2. /\ pc' \in [Threads -> Labels] /\ pc'[t] # "poll"
      /\ waited' \in [Workers -> Nat] /\ until' \in [Workers -> Nat]
      /\ waited'[t] = 0 /\ until'[t] = 0
      /\ \A u \in Workers : u # t => /\ waited'[u] = waited[u] /\ until'[u] = until[u]
                                     /\ pc'[u] = pc[u]
  BY <1>1 DEF ITimed, Labels
<1> QED
  BY <1>2, NotPolling

(* Every step keeps the clocks right.                                       *)
LEMMA StepTimed == ITimed /\ [Next]_vars => ITimed'
<1> SUFFICES ASSUME ITimed, [Next]_vars PROVE ITimed'
  OBVIOUS
<1> USE DEF At, Goto, Causes
<1>1. ASSUME NEW t \in Workers, CallFails(t) PROVE ITimed'
  BY <1>1, FailsTimed DEF CallFails
<1>2. ASSUME NEW t \in Workers,
             \/ Create(t) \/ StartConnect(t) \/ Unblock(t) \/ Block(t) \/ Connect(t)
             \/ Return(t) \/ SetTimeouts(t) \/ Unpause(t) \/ Drop(t) \/ Finish(t)
      PROVE  ITimed'
  <2>1. waited' = waited /\ until' = until
    BY <1>2 DEF Create, StartConnect, Unblock, Block, Setting, Connect, Return,
       SetTimeouts, Unpause, Drop, Finish
  <2>2. \E label \in Labels \ {"poll"} :
          pc' = [pc EXCEPT ![t] = label] \/ (pc' = pc /\ pc[t] = "top")
    BY <1>2 DEF Create, StartConnect, Unblock, Block, Setting, Connect, Return,
       SetTimeouts, Unpause, Drop, Finish, Labels, Holding, Connecting
  <2>3. pc' \in [Threads -> Labels] /\ pc'[t] # "poll"
    BY <2>2 DEF ITimed
  <2>4. \A u \in Workers : u # t => pc'[u] = pc[u]
    BY <2>2 DEF ITimed
  <2> QED
    BY <2>1, <2>3, <2>4, TotalNat DEF ITimed, Clocked
<1>3. ASSUME NEW t \in Workers, Await(t) PROVE ITimed'
  <2>1. CASE AttemptFails(t, "TimedOut")
    BY <2>1, FailsTimed
  <2>2. CASE ~AttemptFails(t, "TimedOut")
    <3> DEFINE later == waited[t] + (Left(t) \div TicksPerMs) * TicksPerMs
    <3>1. /\ Left(t) > 0 /\ until' = [until EXCEPT ![t] = later] /\ waited' = waited
          /\ pc' = [pc EXCEPT ![t] = "poll"]
      BY <1>3, <2>2 DEF Await
    <3>2. Left(t) \in Nat /\ Left(t) = Total - waited[t] /\ waited[t] \in Nat
      BY <3>1, TotalNat DEF ITimed, Left
    <3>3. later \in Nat /\ later <= Total /\ later > Total - TicksPerMs
      <4> DEFINE part == (Left(t) \div TicksPerMs) * TicksPerMs
      <4>1. part \in Nat /\ part <= Left(t) /\ Left(t) - TicksPerMs < part
        BY <3>2, TimeAssumption, RoundedDown
      <4> HIDE DEF part
      <4>2. later = waited[t] + part
        BY DEF part
      <4> QED
        BY <3>2, <4>1, <4>2, TotalNat
    <3> HIDE DEF later
    <3>4. pc' \in [Threads -> Labels] /\ until' \in [Workers -> Nat] /\ until'[t] = later
      BY <3>1, <3>3 DEF ITimed, Labels, Holding, Connecting
    <3>5. \A u \in Workers \ {t} : until'[u] = until[u] /\ pc'[u] = pc[u]
      BY <3>1 DEF ITimed
    <3> QED
      BY <3>1, <3>3, <3>4, <3>5 DEF ITimed, Clocked
  <2> QED
    BY <2>1, <2>2
<1>4. ASSUME NEW t \in Workers, PollReturns(t) PROVE ITimed'
  <2>1. CASE AttemptFails(t, "TimedOut")
    BY <2>1, FailsTimed
  <2>2. CASE ~AttemptFails(t, "TimedOut")
    BY <1>4, <2>2, NotPolling
       DEF ITimed, Labels, Holding, Connecting, PollReturns, Writable
  <2> QED
    BY <2>1, <2>2
<1>5. ASSUME NEW t \in Workers, CheckError(t) PROVE ITimed'
  <2>1. CASE AttemptFails(t, "IoError")
    BY <2>1, FailsTimed
  <2>2. CASE ~AttemptFails(t, "IoError")
    BY <1>5, <2>2, NotPolling DEF ITimed, Labels, Holding, Connecting, CheckError
  <2> QED
    BY <2>1, <2>2
<1>6. CASE Create(Acceptor) \/ Bind \/ Accept \/ Serve
  BY <1>6, NotPolling DEF ITimed, Labels, Holding, Connecting, Create, Bind, Accept, Serve
<1>7. CASE Die
  BY <1>7, TotalNat DEF Die, ITimed, Clocked, Labels
<1>8. CASE BindFails \/ AcceptFails
  <2>1. CASE ~Die
    BY <1>8, <2>1, NotPolling DEF BindFails, AcceptFails, ITimed, Labels
  <2> QED
    BY <1>7, <2>1
<1>9. ASSUME NEW f \in Fds, Resolve(f) \/ ServeEnds(f) PROVE ITimed'
  BY <1>9 DEF Resolve, ServeEnds, ITimed, Clocked
<1>10. CASE Tick
  <2>1. /\ pc' = pc /\ until' = until
        /\ waited' = [t \in Workers |-> IF Timed(t) THEN waited[t] + 1 ELSE waited[t]]
        /\ \A t \in Workers : Timed(t) => waited[t] < Total
    BY <1>10 DEF Tick
  <2> QED
    BY <2>1, TotalNat DEF ITimed, Clocked
<1>11. CASE UNCHANGED vars
  BY <1>11 DEF vars, ITimed, Clocked
<1> QED
  BY <1>1, <1>2, <1>3, <1>4, <1>5, <1>6, <1>8, <1>9, <1>10, <1>11
     DEF Next, WorkerStep, ListenStep

(* What a step adds to the failures of a connect.                           *)
Added(t) ==
  \/ failures'[t] \in {failures[t], <<>>, Append(failures[t], "IoError")}
  \/ /\ failures'[t] = Append(failures[t], "TimedOut")
     /\ (pc[t] = "poll" /\ waited[t] >= until[t]) \/ (pc[t] = "await" /\ Left(t) <= 0)

(* A step adds no TimedOut before the poll or the deadline is over.         *)
LEMMA StepAdds == ITold /\ [Next]_vars => \A u \in Workers : Added(u)
<1> SUFFICES ASSUME ITold, [Next]_vars, NEW u \in Workers PROVE Added(u)
  OBVIOUS
<1>0. failures \in [Workers -> Seq(Causes)]
  BY DEF ITold
<1> USE DEF At, Added
<1>1. ASSUME NEW t \in Workers, AttemptFails(t, "IoError") PROVE Added(u)
  BY <1>0, <1>1 DEF AttemptFails
<1>2. ASSUME NEW t \in Workers, AttemptFails(t, "TimedOut"),
             (pc[t] = "poll" /\ waited[t] >= until[t]) \/ (pc[t] = "await" /\ Left(t) <= 0)
      PROVE  Added(u)
  BY <1>0, <1>2 DEF AttemptFails
<1>3. ASSUME NEW t \in Workers,
             failures' = failures \/ failures' = [failures EXCEPT ![t] = <<>>]
      PROVE  Added(u)
  BY <1>0, <1>3
<1>4. ASSUME NEW t \in Workers, WorkerStep(t) PROVE Added(u)
  <2>1. CASE Await(t)
    BY <1>2, <1>3, <2>1 DEF Await
  <2>2. CASE PollReturns(t)
    BY <1>2, <1>3, <2>2 DEF PollReturns
  <2>3. CASE CheckError(t) \/ CallFails(t)
    BY <1>1, <1>3, <2>3 DEF CheckError, CallFails
  <2>4. CASE \/ StartConnect(t) \/ Create(t) \/ Unblock(t) \/ Block(t) \/ Connect(t)
             \/ Return(t) \/ SetTimeouts(t) \/ Unpause(t) \/ Drop(t) \/ Finish(t)
    BY <1>3, <2>4 DEF StartConnect, Create, Unblock, Block, Setting, Connect, Return,
       SetTimeouts, Unpause, Drop, Finish
  <2> QED
    BY <1>4, <2>1, <2>2, <2>3, <2>4 DEF WorkerStep
<1>5. CASE Die
  BY <1>5 DEF Die
<1>6. CASE ~Die /\ ListenStep
  BY <1>3, <1>6 DEF ListenStep, Create, Bind, BindFails, Accept, Serve, AcceptFails
<1>7. CASE (\E f \in Fds : Resolve(f) \/ ServeEnds(f)) \/ Tick \/ UNCHANGED vars
  BY <1>3, <1>7 DEF Resolve, ServeEnds, Tick, vars
<1>8. ListenStep => Added(u)
  BY <1>5, <1>6 DEF ListenStep
<1> QED
  BY <1>4, <1>7, <1>8 DEF Next

(* What was added last is last.                                             *)
LEMMA LastOfMore ==
  \A s \in Seq(Causes), e \in Causes :
    /\ Len(Append(s, e)) = Len(s) + 1 /\ Len(s) \in Nat /\ Len(<<>>) = 0
    /\ Last(Append(s, e)) = e
  BY DEF Last

(* A connect is given its time: no poll is asked to last past the deadline, *)
(* and none is given up a millisecond or more before it.                    *)
THEOREM TimeoutIsWaited == Spec => WaitsItsTimeout
<1> DEFINE Waits == \A t \in Workers :
             /\ until'[t] <= Total
             /\ Len(failures'[t]) > Len(failures[t]) /\ Last(failures'[t]) = "TimedOut" =>
                  waited[t] > Total - TicksPerMs
<1>1. Init => ITold /\ ITimed
  BY ToldInit, TotalNat DEF Init, ITimed, Clocked, Labels
<1>2. ITold /\ ITimed /\ [Next]_vars => ITold' /\ ITimed'
  BY StepTold, StepTimed
<1>3. ITold /\ ITimed /\ ITimed' /\ [Next]_vars => Waits
  <2> SUFFICES ASSUME ITold, ITimed, ITimed', [Next]_vars, NEW t \in Workers
               PROVE  /\ until'[t] <= Total
                      /\ /\ Len(failures'[t]) > Len(failures[t])
                         /\ Last(failures'[t]) = "TimedOut"
                         => waited[t] > Total - TicksPerMs
    OBVIOUS
  <2>1. until'[t] <= Total
    BY DEF ITimed, Clocked
  <2>2. failures[t] \in Seq(Causes) /\ Added(t) /\ "IoError" \in Causes /\ "TimedOut" \in Causes
    BY StepAdds DEF ITold, Causes
  <2>3. ASSUME Len(failures'[t]) > Len(failures[t]), Last(failures'[t]) = "TimedOut"
        PROVE  waited[t] > Total - TicksPerMs
    <3>1. failures'[t] # failures[t] /\ failures'[t] # <<>>
      BY <2>2, <2>3, LastOfMore
    <3>2. failures'[t] # Append(failures[t], "IoError")
      BY <2>2, <2>3, LastOfMore
    <3>3. (pc[t] = "poll" /\ waited[t] >= until[t]) \/ Left(t) <= 0
      BY <2>2, <3>1, <3>2 DEF Added
    <3> QED
      BY <3>3, TotalNat DEF ITimed, Clocked, Left
  <2> QED
    BY <2>1, <2>3
<1>4. ITold /\ ITimed /\ ITimed' /\ [Next]_vars => [Waits]_vars
  BY <1>3
<1> QED
  BY <1>1, <1>2, <1>4, PTL DEF Spec, WaitsItsTimeout
=============================================================================
