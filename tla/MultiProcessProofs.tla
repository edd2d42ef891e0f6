------------------------- MODULE MultiProcessProofs -------------------------
(***************************************************************************)
(* Theorems about MultiProcess, for any number of connections, any size of *)
(* the process table and any errors of accept.                             *)
(***************************************************************************)
EXTENDS MultiProcess, SequenceTheorems, TLAPS

\* The parent holds a connection between accept and Close, and only then.
HoldsConn == IF parent \in {"fork", "close"} THEN connfd \in Conns ELSE connfd = NoConn

TypeInv == TypeOK /\ HoldsConn

LEMMA InitType == Init => TypeInv
<1> SUFFICES ASSUME Init
             PROVE  TypeInv
  OBVIOUS
<1>1. up \in [Conns -> BOOLEAN] /\ down \in [Conns -> BOOLEAN]
  BY Zenon DEF Init
<1>2. /\ child \in [Conns -> Children] /\ lines \in [Conns -> Nat]
      /\ cl \in [Conns -> {"idle", "ready", "waiting", "gone"}]
  BY DEF Init, Children
<1>3. queue \in Seq(Conns)
  BY DEF Init
<1>4. /\ parent \in Parents /\ errno \in Errnos
      /\ connfd \in Conns \cup {NoConn} /\ sigchld \in BOOLEAN
      /\ HoldsConn
  BY DEF Init, HoldsConn, Parents, Errnos
<1> QED
  BY <1>1, <1>2, <1>3, <1>4 DEF TypeInv, TypeOK

LEMMA ReleasedType ==
    ASSUME TypeInv, Released
    PROVE  queue' \in Seq(Conns) /\ up' \in [Conns -> BOOLEAN]
<1>1. up' \in [Conns -> BOOLEAN]
  <2>1. \A c \in Conns : (up[c] /\ ~HungUp(c)') \in BOOLEAN
    BY Zenon DEF HungUp, TypeInv, TypeOK
  <2> QED
    BY <2>1, Zenon DEF Released
<1>2. queue' = queue \/ queue' = <<>>
  BY DEF Released
<1>3. queue \in Seq(Conns) /\ <<>> \in Seq(Conns)
  BY DEF TypeInv, TypeOK
<1> QED
  BY <1>1, <1>2, <1>3

LEMMA ExitType ==
    ASSUME TypeInv, ParentExits
    PROVE  /\ parent' = "exited" /\ connfd' = NoConn /\ sigchld' = FALSE
           /\ child' \in [Conns -> Children]
           /\ queue' \in Seq(Conns) /\ up' \in [Conns -> BOOLEAN]
  BY ReleasedType DEF ParentExits, TypeInv, TypeOK, Children

LEMMA ParentType ==
    ASSUME TypeInv, ParentStep
    PROVE  TypeInv'
<1>1. CASE Accept
  <2>1. Head(queue) \in Conns /\ Tail(queue) \in Seq(Conns)
    BY <1>1 DEF Accept, TypeInv, TypeOK
  <2> QED
    BY <1>1, <2>1 DEF Accept, TypeInv, TypeOK, HoldsConn, Parents
<1>2. CASE AcceptBlocks
  BY <1>2 DEF AcceptBlocks, TypeInv, TypeOK, HoldsConn, Parents
<1>3. CASE AcceptFails
  BY <1>3, ErrorAssumption DEF AcceptFails, TypeInv, TypeOK, HoldsConn, Parents, Errnos
<1>4. CASE TestErrno
  BY <1>4, ExitType DEF TestErrno, OnError, TypeInv, TypeOK, HoldsConn, Parents
<1>5. CASE Fork
  <2>1. CASE ParentExits
    BY <1>5, <2>1, ExitType DEF Fork, TypeInv, TypeOK, HoldsConn, Parents
  <2>2. CASE ~ParentExits
    <3>1. /\ child' = [child EXCEPT ![connfd] = "started"]
          /\ parent' = "close"
          /\ UNCHANGED <<errno, connfd, queue, sigchld, cl, lines, up, down>>
          /\ connfd \in Conns
      BY <1>5, <2>2 DEF Fork, AfterFork, TypeInv, HoldsConn
    <3> QED
      BY <3>1 DEF TypeInv, TypeOK, HoldsConn, Parents, Children
  <2> QED
    BY <2>1, <2>2
<1>6. CASE CloseConnfd
  BY <1>6, ReleasedType DEF CloseConnfd, TypeInv, TypeOK, HoldsConn, Parents
<1> QED
  BY <1>1, <1>2, <1>3, <1>4, <1>5, <1>6 DEF ParentStep

LEMMA HandlerType ==
    ASSUME TypeInv, Handler
    PROVE  TypeInv'
  BY DEF Handler, TypeInv, TypeOK, HoldsConn, Parents, Children, Errnos

LEMMA EndsType ==
    ASSUME TypeInv, NEW c \in Conns, ChildEnds(c)
    PROVE  TypeInv'
  BY ReleasedType DEF ChildEnds, TypeInv, TypeOK, HoldsConn, Children

LEMMA ChildType ==
    ASSUME TypeInv, NEW c \in Conns, ChildStep(c) \/ Kill(c)
    PROVE  TypeInv'
<1>1. CASE CloseListenfd(c)
  BY <1>1, ReleasedType DEF CloseListenfd, TypeInv, TypeOK, HoldsConn, Children
<1>2. CASE Read(c)
  BY <1>2 DEF Read, AfterRead, TypeInv, TypeOK, HoldsConn, Children
<1>3. CASE Write(c)
  BY <1>3 DEF Write, TypeInv, TypeOK, HoldsConn, Children
<1>4. CASE ReadEof(c) \/ Kill(c)
  BY <1>4, EndsType DEF ReadEof, Kill
<1> QED
  BY <1>1, <1>2, <1>3, <1>4 DEF ChildStep

LEMMA ClientType ==
    ASSUME TypeInv, NEW c \in Conns, ClientStep(c)
    PROVE  TypeInv'
<1>1. CASE Connect(c)
  <2>1. queue' \in Seq(Conns)
    <3>1. queue' = Append(queue, c) \/ queue' = queue
      BY <1>1 DEF Connect
    <3>2. queue \in Seq(Conns)
      BY DEF TypeInv, TypeOK
    <3>3. Append(queue, c) \in Seq(Conns)
      BY <3>2
    <3> QED
      BY <3>1, <3>2, <3>3
  <2>2. cl' \in [Conns -> {"idle", "ready", "waiting", "gone"}]
    <3>1. cl' = [cl EXCEPT ![c] = "ready"] \/ cl' = [cl EXCEPT ![c] = "gone"]
      BY <1>1 DEF Connect
    <3> QED
      BY <3>1 DEF TypeInv, TypeOK
  <2> QED
    BY <1>1, <2>1, <2>2 DEF Connect, TypeInv, TypeOK, HoldsConn
<1>2. CASE Send(c)
  <2>1. up' \in [Conns -> BOOLEAN]
    <3>1. up' = [up EXCEPT ![c] = TRUE] \/ up' = [up EXCEPT ![c] = FALSE]
      BY <1>2, Zenon DEF Send, HungUp
    <3> QED
      BY <3>1 DEF TypeInv, TypeOK
  <2> QED
    BY <1>2, <2>1 DEF Send, TypeInv, TypeOK, HoldsConn
<1>3. CASE Receive(c)
  BY <1>3 DEF Receive, TypeInv, TypeOK, HoldsConn
<1>4. CASE Leave(c) \/ Told(c)
  BY <1>4 DEF Leave, Told, TypeInv, TypeOK, HoldsConn
<1> QED
  BY <1>1, <1>2, <1>3, <1>4 DEF ClientStep

LEMMA NextType == TypeInv /\ [Next]_vars => TypeInv'
<1>1. ASSUME TypeInv, UNCHANGED vars
      PROVE  TypeInv'
  BY <1>1 DEF vars, TypeInv, TypeOK, HoldsConn
<1> QED
  BY <1>1, ParentType, HandlerType, ChildType, ClientType DEF Next

\* Every variable keeps its type; above all, the parent never forks with
\* anything but a connection in connfd (socket-comm.c:55-67): an accept that
\* fails ends the parent or leaves it where it is.
THEOREM TypeCorrect == Spec => []TypeOK
<1>1. TypeInv => TypeOK
  BY DEF TypeInv
<1> QED
  BY InitType, NextType, <1>1, PTL DEF Spec

-----------------------------------------------------------------------------
LEMMA InitZombie == Init => ZombieIsSignalled
  BY DEF Init, ZombieIsSignalled, Zombies

LEMMA ChildZombie ==
    ASSUME TypeInv, ZombieIsSignalled, NEW c \in Conns, ChildStep(c) \/ Kill(c)
    PROVE  ZombieIsSignalled'
<1>1. CASE ReadEof(c) \/ Kill(c)
  BY <1>1 DEF ReadEof, Kill, ChildEnds, ZombieIsSignalled
<1>2. CASE ~(ReadEof(c) \/ Kill(c))
  <2>1. /\ parent' = parent /\ sigchld' = sigchld
        /\ child'[c] # "zombie" /\ \A d \in Conns \ {c} : child'[d] = child[d]
    BY <1>2 DEF ChildStep, CloseListenfd, Read, AfterRead, Write, TypeInv, TypeOK
  <2>2. Zombies' \subseteq Zombies
    BY <2>1 DEF Zombies
  <2> QED
    BY <2>1, <2>2 DEF ZombieIsSignalled
<1> QED
  BY <1>1, <1>2

LEMMA ParentZombie ==
    ASSUME TypeInv, ZombieIsSignalled, ParentStep
    PROVE  ZombieIsSignalled'
<1>1. CASE ParentExits
  BY <1>1 DEF ParentExits, ZombieIsSignalled
<1>2. CASE ~ParentExits
  <2>1. sigchld' = sigchld /\ (parent' # "exited" => parent # "exited")
    BY <1>2 DEF ParentStep, Accept, AcceptBlocks, AcceptFails, TestErrno, OnError,
       Fork, CloseConnfd
  <2>2. child' = child \/ child' = [child EXCEPT ![connfd] = "started"]
    BY <1>2 DEF ParentStep, Accept, AcceptBlocks, AcceptFails, TestErrno, OnError,
       Fork, CloseConnfd
  <2>3. Zombies' \subseteq Zombies
    BY <2>2 DEF Zombies, TypeInv, TypeOK
  <2> QED
    BY <2>1, <2>3 DEF ZombieIsSignalled
<1> QED
  BY <1>1, <1>2

LEMMA NextZombie == TypeInv /\ ZombieIsSignalled /\ [Next]_vars => ZombieIsSignalled'
<1> SUFFICES ASSUME TypeInv, ZombieIsSignalled, [Next]_vars
             PROVE  ZombieIsSignalled'
  OBVIOUS
<1>1. CASE Handler
  BY <1>1 DEF Handler, Reapable, Zombies, ZombieIsSignalled, TypeInv, TypeOK
<1>2. ASSUME UNCHANGED <<parent, child, sigchld>>
      PROVE  ZombieIsSignalled'
  BY <1>2 DEF ZombieIsSignalled, Zombies
<1>3. ASSUME NEW c \in Conns, ClientStep(c)
      PROVE  ZombieIsSignalled'
  BY <1>2, <1>3 DEF ClientStep, Connect, Send, Receive, Told, Leave
<1> QED
  BY <1>1, <1>2, <1>3, ParentZombie, ChildZombie DEF Next, vars

\* A child that has ended and is not reaped has its SIGCHLD still to come,
\* however many children end between two runs of do_child_sign and wherever
\* it interrupts the parent (multiprocess-server.c:22-26).
THEOREM ZombieIsSignalledCorrect == Spec => []ZombieIsSignalled
  BY InitType, NextType, InitZombie, NextZombie, PTL DEF Spec

-----------------------------------------------------------------------------
(* Where a connection is: in the queue, with the parent or with a child.   *)

Has(q, x) == \E k \in 1 .. Len(q) : q[k] = x
Once(q)   == \A j, k \in 1 .. Len(q) : q[j] = q[k] => j = k

\* A connection in the queue, or that the parent is about to fork for, has no
\* child yet; one that no client has made is nowhere, and one that a client
\* has is with the server until the parent ends.
PlaceInv(c) ==
    /\ Has(queue, c) => child[c] = "none" /\ connfd # c
    /\ connfd = c => (child[c] = "none" <=> parent = "fork")
    /\ cl[c] = "idle" => child[c] = "none" /\ ~Has(queue, c) /\ connfd # c
    /\ cl[c] \in {"ready", "waiting"} /\ child[c] = "none" =>
          Has(queue, c) \/ connfd = c \/ parent = "exited"

\* LineIsSomewhere, and that nothing is left of the line before.
LineInv(c) ==
    /\ up[c] => ~HungUp(c)
    /\ child[c] = "write" => ~up[c]
    /\ cl[c] \in {"idle", "ready"} => ~up[c] /\ ~down[c] /\ child[c] # "write"
    /\ cl[c] = "waiting" =>
          /\ \/ up[c] \/ down[c] \/ child[c] = "write"
             \/ child[c] \in {"zombie", "reaped"}
             \/ child[c] = "none" /\ parent = "exited" /\ HungUp(c)
          /\ ~(up[c] /\ down[c])
          /\ child[c] = "write" => ~up[c] /\ ~down[c]

ConnInv == Once(queue) /\ \A c \in Conns : PlaceInv(c) /\ LineInv(c)

\* HungUp in terms of Has, in both states of a step.
LEMMA HungUpHas ==
    \A c : /\ HungUp(c) <=> connfd # c /\ ~Alive(c) /\ ~Has(queue, c)
           /\ HungUp(c)' <=> connfd' # c /\ ~Alive(c)' /\ ~Has(queue', c)
BY Zenon DEF HungUp, Has

LEMMA HasNone == \A x : ~Has(<<>>, x)
BY DEF Has

LEMMA TailHas ==
    ASSUME NEW S, NEW q \in Seq(S), q # <<>>, Once(q)
    PROVE  /\ Once(Tail(q)) /\ Has(q, Head(q))
           /\ \A x : Has(Tail(q), x) <=> Has(q, x) /\ x # Head(q)
<1>1. /\ Len(Tail(q)) = Len(q) - 1 /\ Len(q) \in Nat \ {0}
      /\ \A k \in 1 .. Len(q) - 1 : Tail(q)[k] = q[k + 1]
  BY HeadTailProperties, EmptySeq
<1>2. Head(q) = q[1] /\ 1 \in 1 .. Len(q)
  BY <1>1
<1>3. Once(Tail(q))
  BY <1>1 DEF Once
<1>4. ASSUME NEW x, Has(Tail(q), x)
      PROVE  Has(q, x) /\ x # Head(q)
  <2>1. PICK k \in 1 .. Len(q) - 1 : q[k + 1] = x
    BY <1>1, <1>4 DEF Has
  <2>2. k + 1 \in 1 .. Len(q) /\ k + 1 # 1
    BY <1>1
  <2> QED  BY <1>2, <2>1, <2>2 DEF Has, Once
<1>5. ASSUME NEW x, Has(q, x), x # Head(q)
      PROVE  Has(Tail(q), x)
  <2>1. PICK k \in 1 .. Len(q) : q[k] = x
    BY <1>5 DEF Has
  <2>2. k - 1 \in 1 .. Len(q) - 1 /\ k = (k - 1) + 1
    BY <1>1, <1>2, <1>5, <2>1
  <2> QED  BY <1>1, <2>1, <2>2 DEF Has
<1> QED  BY <1>2, <1>3, <1>4, <1>5 DEF Has

LEMMA AppendHas ==
    ASSUME NEW S, NEW q \in Seq(S), NEW c \in S, ~Has(q, c), Once(q)
    PROVE  /\ Once(Append(q, c))
           /\ \A x : Has(Append(q, c), x) <=> Has(q, x) \/ x = c
<1>1. /\ Len(q) \in Nat /\ Len(Append(q, c)) = Len(q) + 1
      /\ Append(q, c)[Len(q) + 1] = c
      /\ \A k \in 1 .. Len(q) : Append(q, c)[k] = q[k]
  BY AppendProperties
<1>2. \A k \in 1 .. Len(q) + 1 : k \in 1 .. Len(q) \/ k = Len(q) + 1
  BY <1>1
<1>3. Once(Append(q, c))
  BY <1>1, <1>2 DEF Once, Has
<1>4. \A x : Has(Append(q, c), x) <=> Has(q, x) \/ x = c
  BY <1>1, <1>2 DEF Has
<1> QED  BY <1>3, <1>4

\* A step that leaves every connection with the one that has it.
LEMMA StayInv ==
    ASSUME TypeInv, ConnInv, UNCHANGED <<cl, up, down, queue, connfd>>,
           parent' = "fork" <=> parent = "fork",
           parent' = "exited" <=> parent = "exited",
           \A c \in Conns : child'[c] = child[c]
                            \/ {child[c], child'[c]} \subseteq {"zombie", "reaped"}
    PROVE  ConnInv'
<1>1. \A c \in Conns : Alive(c)' <=> Alive(c)
  BY DEF Alive
<1>2. \A c \in Conns : HungUp(c)' <=> HungUp(c)
  BY <1>1, HungUpHas
<1>3. ASSUME NEW c \in Conns  PROVE PlaceInv(c)'
  BY DEF ConnInv, PlaceInv
<1>4. ASSUME NEW c \in Conns  PROVE LineInv(c)'
  BY <1>2 DEF ConnInv, LineInv
<1>5. Once(queue')
  BY DEF ConnInv
<1> QED  BY <1>3, <1>4, <1>5 DEF ConnInv

\* A step of a process that closes a descriptor or ends.
LEMMA ReleasedInv ==
    ASSUME TypeInv, ConnInv, Released, UNCHANGED <<cl, down>>,
           parent = "exited" => parent' = "exited",
           connfd' = NoConn \/ (connfd' = connfd /\ parent' = parent),
           connfd' # connfd => parent = "close" \/ parent' = "exited",
           \A c \in Conns : /\ child'[c] = "none" <=> child[c] = "none"
                            /\ child'[c] = "write" => child[c] = "write"
                            /\ child[c] = "write" => child'[c] \in {"write", "zombie", "reaped"}
                            /\ child[c] \in {"zombie", "reaped"}
                                  => child'[c] \in {"zombie", "reaped"}
                            /\ Alive(c) => Alive(c)' \/ child'[c] \in {"zombie", "reaped"}
    PROVE  ConnInv'
<1>1. /\ queue' = queue \/ (queue' = <<>> /\ parent' = "exited")
      /\ \A c \in Conns : up'[c] <=> up[c] /\ ~HungUp(c)'
  BY DEF Released, Listening
<1>2. Once(queue') /\ \A x : Has(queue', x) => Has(queue, x)
  BY <1>1, HasNone DEF ConnInv, Once
<1>3. ASSUME NEW c \in Conns  PROVE PlaceInv(c)'
  <2>1. PlaceInv(c) /\ c # NoConn
    BY ConnsAssumption DEF ConnInv
  <2> QED  BY <1>1, <1>2, <2>1 DEF PlaceInv, TypeInv, HoldsConn
<1>4. ASSUME NEW c \in Conns  PROVE LineInv(c)'
  <2>1. PlaceInv(c) /\ LineInv(c)
    BY DEF ConnInv
  \* A line that goes with its connection: nobody has it, and the parent has
  \* ended or the child.
  <2>2. ASSUME up[c], ~up'[c]
        PROVE  \/ child'[c] \in {"zombie", "reaped"}
               \/ child'[c] = "none" /\ parent' = "exited" /\ HungUp(c)'
    <3>1. HungUp(c)' /\ ~HungUp(c)
      BY <1>1, <2>1, <2>2 DEF LineInv
    <3>2. CASE Alive(c)
      BY <3>1, <3>2, HungUpHas
    <3>3. CASE ~Alive(c) /\ connfd = c
      BY <2>1, <3>1, <3>3, HungUpHas DEF PlaceInv, Alive, TypeInv, TypeOK, Children
    <3>4. CASE ~Alive(c) /\ Has(queue, c)
      BY <1>1, <2>1, <3>1, <3>4, HungUpHas DEF PlaceInv
    <3> QED  BY <3>1, <3>2, <3>3, <3>4, HungUpHas
  <2>3. ASSUME HungUp(c), child[c] = "none"
        PROVE  HungUp(c)'
    <3>1. ~Alive(c)'
      BY <2>3 DEF Alive
    <3> QED  BY <1>2, <2>3, <3>1, HungUpHas, ConnsAssumption
  <2> QED  BY <1>1, <2>1, <2>2, <2>3 DEF LineInv
<1> QED  BY <1>2, <1>3, <1>4 DEF ConnInv

LEMMA ExitConn ==
    ASSUME TypeInv, ConnInv, ParentExits, UNCHANGED <<cl, down>>
    PROVE  ConnInv'
<1>1. \A c \in Conns :
         child'[c] = IF child[c] = "zombie" THEN "reaped" ELSE child[c]
  BY DEF ParentExits
<1>2. /\ Released /\ parent' = "exited" /\ connfd' = NoConn
  BY DEF ParentExits
<1>3. \A c \in Conns : Alive(c) => Alive(c)'
  BY <1>1 DEF Alive
<1>4. \A c \in Conns : /\ child'[c] = "none" <=> child[c] = "none"
                       /\ child'[c] = "write" <=> child[c] = "write"
                       /\ child[c] \in {"zombie", "reaped"}
                             => child'[c] \in {"zombie", "reaped"}
  BY <1>1
<1> QED  BY <1>2, <1>3, <1>4, ReleasedInv

LEMMA ParentConn == ASSUME TypeInv, ConnInv, ParentStep  PROVE ConnInv'
<1>1. CASE Accept
  <2>1. /\ queue \in Seq(Conns) /\ queue # <<>> /\ Once(queue)
        /\ queue' = Tail(queue) /\ connfd' = Head(queue) /\ parent' = "fork"
        /\ UNCHANGED <<child, cl, up, down>>
        /\ connfd = NoConn /\ parent # "exited"
    BY <1>1 DEF Accept, TypeInv, TypeOK, HoldsConn, ConnInv
  <2>2. /\ Once(queue') /\ Has(queue, connfd')
        /\ \A x : Has(queue', x) <=> Has(queue, x) /\ x # connfd'
    BY <2>1, TailHas
  <2>3. ASSUME NEW c \in Conns  PROVE PlaceInv(c)'
    <3>1. PlaceInv(c) /\ child'[c] = child[c] /\ cl'[c] = cl[c]
      BY <2>1 DEF ConnInv
    <3>2. CASE c = connfd'
      BY <2>1, <2>2, <3>1, <3>2 DEF PlaceInv
    <3>3. CASE c # connfd'
      BY <2>1, <2>2, <3>1, <3>3, ConnsAssumption DEF PlaceInv
    <3> QED  BY <3>2, <3>3
  <2>4. \A c \in Conns : HungUp(c)' => HungUp(c)
    BY <2>1, <2>2, HungUpHas, ConnsAssumption DEF Alive
  <2>5. ASSUME NEW c \in Conns  PROVE LineInv(c)'
    BY <2>1, <2>4 DEF ConnInv, LineInv
  <2> QED  BY <2>2, <2>3, <2>5 DEF ConnInv
<1>2. CASE AcceptBlocks \/ AcceptFails
  BY <1>2, StayInv DEF AcceptBlocks, AcceptFails
<1>3. CASE TestErrno
  BY <1>3, ExitConn DEF TestErrno, OnError
<1>4. CASE Fork /\ ParentExits
  BY <1>4, ExitConn DEF Fork
<1>5. CASE Fork /\ ~ParentExits
  <2>1. /\ child' = [child EXCEPT ![connfd] = "started"] /\ connfd \in Conns
        /\ parent = "fork" /\ parent' = "close"
        /\ UNCHANGED <<connfd, queue, cl, up, down>>
    BY <1>5 DEF Fork, AfterFork, TypeInv, HoldsConn
  <2>2. \A c \in Conns : child'[c] = IF c = connfd THEN "started" ELSE child[c]
    BY <2>1 DEF TypeInv, TypeOK
  <2>3. child[connfd] = "none" /\ ~Has(queue, connfd)
    BY <2>1 DEF ConnInv, PlaceInv
  <2>4. ASSUME NEW c \in Conns  PROVE PlaceInv(c)'
    BY <2>1, <2>2, <2>3 DEF ConnInv, PlaceInv
  <2>5. \A c \in Conns : HungUp(c)' => HungUp(c)
    BY <2>1, <2>2, HungUpHas DEF Alive
  <2>6. ASSUME NEW c \in Conns  PROVE LineInv(c)'
    BY <2>1, <2>2, <2>3, <2>5 DEF ConnInv, LineInv
  <2> QED  BY <2>1, <2>4, <2>6 DEF ConnInv
<1>6. CASE CloseConnfd
  <2>1. \A c \in Conns : Alive(c)' <=> Alive(c)
    BY <1>6 DEF CloseConnfd, Alive
  <2> QED  BY <1>6, <2>1, ReleasedInv DEF CloseConnfd
<1> QED  BY <1>1, <1>2, <1>3, <1>4, <1>5, <1>6 DEF ParentStep

LEMMA HandlerConn == ASSUME TypeInv, ConnInv, Handler  PROVE ConnInv'
<1>1. \A c \in Conns : child'[c] = child[c]
                       \/ (child[c] = "zombie" /\ child'[c] = "reaped")
  BY DEF Handler, Reapable, Zombies
<1>2. /\ parent' = "fork" <=> parent = "fork"
      /\ parent' = "exited" <=> parent = "exited"
      /\ UNCHANGED <<cl, up, down, queue, connfd>>
  BY DEF Handler
<1> QED  BY <1>1, <1>2, StayInv

\* What a child closes, or leaves when it ends.
LEMMA ChildReleases ==
    ASSUME TypeInv, ConnInv, NEW c \in Conns,
           CloseListenfd(c) \/ ReadEof(c) \/ Kill(c)
    PROVE  ConnInv'
<1>1. /\ Released /\ UNCHANGED <<parent, connfd, cl, down>>
      /\ \A d \in Conns \ {c} : child'[d] = child[d]
      /\ Alive(c)
      /\ \/ child[c] = "started" /\ child'[c] = "read"
         \/ child'[c] \in {"zombie", "reaped"}
  BY DEF CloseListenfd, ReadEof, Kill, ChildEnds, Alive, TypeInv, TypeOK
<1>2. \A d \in Conns \ {c} : Alive(d)' <=> Alive(d)
  BY <1>1 DEF Alive
<1>3. Alive(c)' \/ child'[c] \in {"zombie", "reaped"}
  BY <1>1 DEF Alive
<1>4. \A d \in Conns : /\ child'[d] = "none" <=> child[d] = "none"
                       /\ child'[d] = "write" => child[d] = "write"
                       /\ child[d] = "write" => child'[d] \in {"write", "zombie", "reaped"}
                       /\ child[d] \in {"zombie", "reaped"}
                             => child'[d] \in {"zombie", "reaped"}
  BY <1>1 DEF Alive
<1> QED  BY <1>1, <1>2, <1>3, <1>4, ReleasedInv

LEMMA ChildConn ==
    ASSUME TypeInv, ConnInv, NEW c \in Conns, ChildStep(c) \/ Kill(c)
    PROVE  ConnInv'
<1>1. CASE CloseListenfd(c) \/ ReadEof(c) \/ Kill(c)
  BY <1>1, ChildReleases
<1>2. CASE Read(c) \/ Write(c)
  <2>1. /\ child[c] \in {"read", "write"} /\ child'[c] \in {"read", "write"}
        /\ \A d \in Conns \ {c} : /\ child'[d] = child[d]
                                  /\ up'[d] = up[d] /\ down'[d] = down[d]
        /\ UNCHANGED <<parent, connfd, queue, cl>>
        /\ \/ up[c] /\ ~up'[c] /\ down' = down /\ child'[c] = "write"
           \/ cl[c] = "gone" /\ ~up'[c] /\ up' = up /\ child[c] = "write"
           \/ child[c] = "write" /\ child'[c] = "read" /\ up' = up /\ down'[c]
    <3>1. CASE Read(c)
      BY <3>1 DEF Read, AfterRead, TypeInv, TypeOK
    <3>2. CASE Write(c)
      BY <3>2 DEF Write, TypeInv, TypeOK, ConnInv, LineInv
    <3> QED  BY <1>2, <3>1, <3>2
  <2>2. \A d \in Conns : Alive(d)' <=> Alive(d)
    BY <2>1 DEF Alive
  <2>3. \A d \in Conns : HungUp(d)' <=> HungUp(d)
    BY <2>1, <2>2, HungUpHas
  <2>4. ASSUME NEW d \in Conns  PROVE PlaceInv(d)'
    BY <2>1 DEF ConnInv, PlaceInv
  <2>5. ASSUME NEW d \in Conns  PROVE LineInv(d)'
    <3>1. CASE d = c
      BY <2>1, <2>3, <3>1 DEF ConnInv, LineInv
    <3>2. CASE d # c
      BY <2>1, <2>3, <3>2 DEF ConnInv, LineInv
    <3> QED  BY <3>1, <3>2
  <2> QED  BY <2>1, <2>4, <2>5 DEF ConnInv
<1> QED  BY <1>1, <1>2 DEF ChildStep

LEMMA ClientConn ==
    ASSUME TypeInv, ConnInv, NEW c \in Conns, ClientStep(c)
    PROVE  ConnInv'
<1>1. /\ cl'[c] # "idle" /\ \A d \in Conns \ {c} : cl'[d] = cl[d]
      /\ UNCHANGED <<parent, connfd, child>>
      /\ cl'[c] \in {"ready", "waiting"} =>
            cl[c] \in {"ready", "waiting"} \/ Listening
  BY DEF ClientStep, Connect, Send, Receive, Told, Leave, TypeInv, TypeOK
<1>2. /\ Once(queue')
      /\ \A x : Has(queue', x) <=> \/ Has(queue, x)
                                   \/ x = c /\ cl[c] = "idle" /\ cl'[c] = "ready"
  <2>1. CASE ~Connect(c)
    <3>1. queue' = queue /\ cl[c] # "idle"
      BY <2>1 DEF ClientStep, Send, Receive, Told, Leave
    <3> QED  BY <3>1 DEF ConnInv
  <2>2. CASE Connect(c) /\ ~Listening
    <3>1. queue' = queue /\ cl'[c] = "gone"
      BY <2>2 DEF Connect, TypeInv, TypeOK
    <3> QED  BY <3>1 DEF ConnInv
  <2>3. CASE Connect(c) /\ Listening
    <3>1. queue' = Append(queue, c) /\ cl[c] = "idle" /\ queue \in Seq(Conns)
          /\ cl'[c] = "ready"
      BY <2>3 DEF Connect, TypeInv, TypeOK
    <3>2. ~Has(queue, c) /\ Once(queue)
      BY <3>1 DEF ConnInv, PlaceInv
    <3> QED  BY <3>1, <3>2, AppendHas
  <2> QED  BY <2>1, <2>2, <2>3
<1>3. ASSUME NEW d \in Conns  PROVE PlaceInv(d)'
  <2>1. CASE d = c /\ cl[c] = "idle"
    <3>1. Connect(c)
      BY <2>1 DEF ClientStep, Connect, Send, Receive, Told, Leave
    <3>2. cl'[c] \in {"ready", "gone"}
      BY <3>1 DEF Connect, TypeInv, TypeOK
    <3> QED  BY <1>1, <1>2, <2>1, <3>2 DEF ConnInv, PlaceInv
  <2>2. CASE d = c /\ cl[c] # "idle"
    <3>1. cl'[c] \in {"ready", "waiting"} => cl[c] \in {"ready", "waiting"}
      BY <2>2 DEF ClientStep, Connect, Send, Receive, Told, Leave, TypeInv, TypeOK
    <3> QED  BY <1>1, <1>2, <2>2, <3>1 DEF ConnInv, PlaceInv
  <2>3. CASE d # c
    BY <1>1, <1>2, <2>3 DEF ConnInv, PlaceInv
  <2> QED  BY <2>1, <2>2, <2>3
<1>4. \A d \in Conns : /\ HungUp(d)' => HungUp(d)
                       /\ d # c \/ cl[c] # "idle" => (HungUp(d) => HungUp(d)')
  BY <1>1, <1>2, HungUpHas DEF Alive
<1>5. /\ \A d \in Conns \ {c} : up'[d] = up[d] /\ down'[d] = down[d]
      /\ \/ UNCHANGED <<up, down>>
            /\ (cl'[c] = "gone" \/ (cl[c] = "idle" /\ cl'[c] = "ready"))
         \/ /\ cl[c] = "ready" /\ cl'[c] = "waiting" /\ down' = down
            /\ up'[c] <=> ~HungUp(c)
         \/ cl[c] = "waiting" /\ cl'[c] = "ready" /\ up' = up /\ down[c] /\ ~down'[c]
  <2>1. CASE Connect(c)
    <3>1. cl[c] = "idle" /\ cl'[c] \in {"ready", "gone"} /\ UNCHANGED <<up, down>>
      BY <2>1 DEF Connect, TypeInv, TypeOK
    <3> QED  BY <3>1
  <2>4. CASE Leave(c) \/ Told(c)
    <3>1. cl'[c] = "gone" /\ UNCHANGED <<up, down>>
      BY <2>4 DEF Leave, Told, TypeInv, TypeOK
    <3> QED  BY <3>1
  <2>2. CASE Send(c)
    BY <2>2 DEF Send, TypeInv, TypeOK
  <2>3. CASE Receive(c)
    BY <2>3 DEF Receive, TypeInv, TypeOK
  <2> QED  BY <2>1, <2>2, <2>3, <2>4 DEF ClientStep
<1>6. ASSUME cl[c] = "ready", HungUp(c)
      PROVE  \/ child[c] \in {"zombie", "reaped"}
             \/ child[c] = "none" /\ parent = "exited"
  BY <1>6, HungUpHas DEF ConnInv, PlaceInv, Alive, TypeInv, TypeOK, Children
<1>7. ASSUME NEW d \in Conns  PROVE LineInv(d)'
  <2>1. CASE d = c
    BY <1>1, <1>4, <1>5, <1>6, <2>1 DEF ConnInv, LineInv
  <2>2. CASE d # c
    BY <1>1, <1>4, <1>5, <2>2 DEF ConnInv, LineInv
  <2> QED  BY <2>1, <2>2
<1> QED  BY <1>2, <1>3, <1>7 DEF ConnInv

LEMMA NextConn == TypeInv /\ ConnInv /\ [Next]_vars => ConnInv'
<1>1. ASSUME TypeInv, ConnInv, UNCHANGED vars  PROVE ConnInv'
  BY <1>1, StayInv DEF vars
<1> QED  BY <1>1, ParentConn, HandlerConn, ChildConn, ClientConn DEF Next

LEMMA InitConn == Init => ConnInv
<1> SUFFICES ASSUME Init PROVE ConnInv
  OBVIOUS
<1>1. Once(queue) /\ \A x : ~Has(queue, x)
  BY HasNone DEF Init, Once
<1>2. ASSUME NEW c \in Conns  PROVE PlaceInv(c) /\ LineInv(c)
  BY <1>1, ConnsAssumption DEF Init, PlaceInv, LineInv
<1> QED  BY <1>1, <1>2 DEF ConnInv

\* The line of a client that waits is in one place, or it was lost with the
\* child that was to answer it, or with the connection when the parent ended:
\* neither the parent's second descriptor of the connection nor another child
\* takes it away or answers it again.
THEOREM LineIsSomewhereCorrect == Spec => []LineIsSomewhere
<1>1. ConnInv => LineIsSomewhere
  BY DEF ConnInv, LineInv, LineIsSomewhere
<1> QED  BY InitType, NextType, InitConn, NextConn, <1>1, PTL DEF Spec

-----------------------------------------------------------------------------
(* The server implements EchoService: a line is owed while its client     *)
(* waits and no answer is on its way, also when the line is lost with a    *)
(* child; what is on its way to a client that has ended is no answer.      *)
owed   == [c \in Conns |-> cl[c] = "waiting" /\ ~down[c]]
answer == [c \in Conns |-> down[c] /\ cl[c] # "gone"]

Service == INSTANCE EchoService WITH state <- cl

LEMMA InitServes == Init => Service!Init
  BY DEF Init, Service!Init, owed, answer

\* What a step does not touch of a connection stays as it is in the mapping.
LEMMA SameMapped ==
    ASSUME UNCHANGED <<cl, down>>
    PROVE  UNCHANGED <<cl, owed, answer>>
  BY Zenon DEF owed, answer

LEMMA ChildServes ==
    ASSUME TypeInv, ConnInv, NEW c \in Conns, ChildStep(c) \/ Kill(c)
    PROVE  Service!Next \/ UNCHANGED <<cl, owed, answer>>
<1>1. CASE CloseListenfd(c) \/ Read(c) \/ ReadEof(c) \/ Kill(c)
  BY <1>1, SameMapped DEF CloseListenfd, Read, ReadEof, Kill, ChildEnds
<1>2. CASE Write(c)
  <2>1. /\ child[c] = "write" /\ cl' = cl
        /\ cl[c] = "gone" \/ (cl[c] = "waiting" /\ ~down[c])
        /\ \A d \in Conns : down'[d] <=> IF d = c THEN cl[c] # "gone" ELSE down[d]
    BY <1>2 DEF Write, TypeInv, TypeOK, ConnInv, LineInv
  <2>2. owed' = [owed EXCEPT ![c] = FALSE]
    <3>1. \A d \in Conns : (cl'[d] = "waiting" /\ ~down'[d])
                              <=> (d # c /\ cl[d] = "waiting" /\ ~down[d])
      BY <2>1
    <3> QED  BY <3>1, Zenon DEF owed
  <2>3. answer' = [answer EXCEPT ![c] = (cl[c] # "gone")]
    <3>1. \A d \in Conns : (down'[d] /\ cl'[d] # "gone")
                              <=> (IF d = c THEN cl[c] # "gone"
                                            ELSE down[d] /\ cl[d] # "gone")
      BY <2>1
    <3> QED  BY <3>1, Zenon DEF answer
  <2>4. CASE cl[c] = "waiting"
    <3>1. owed[c]
      BY <2>1, <2>4 DEF owed
    <3> QED  BY <2>1, <2>2, <2>3, <3>1 DEF Service!Reply, Service!Next
  <2>5. CASE cl[c] = "gone"
    <3>1. \A d \in Conns : (cl'[d] = "waiting" /\ ~down'[d])
                              <=> (cl[d] = "waiting" /\ ~down[d])
      BY <2>1, <2>5
    <3>2. \A d \in Conns : (down'[d] /\ cl'[d] # "gone") <=> (down[d] /\ cl[d] # "gone")
      BY <2>1, <2>5
    <3> QED  BY <2>1, <3>1, <3>2, Zenon DEF owed, answer
  <2> QED  BY <2>1, <2>4, <2>5
<1> QED  BY <1>1, <1>2 DEF ChildStep

LEMMA ClientServes ==
    ASSUME TypeInv, ConnInv, NEW c \in Conns, ClientStep(c)
    PROVE  Service!Next
<1>1. ASSUME UNCHANGED down, cl[c] # "gone", cl' = [cl EXCEPT ![c] = "gone"]
      PROVE  Service!Leave(c)
  <2>1. owed' = [owed EXCEPT ![c] = FALSE]
    <3>1. \A d \in Conns : (cl'[d] = "waiting" /\ ~down'[d])
                              <=> (d # c /\ cl[d] = "waiting" /\ ~down[d])
      BY <1>1 DEF TypeInv, TypeOK
    <3> QED  BY <3>1, Zenon DEF owed
  <2>2. answer' = [answer EXCEPT ![c] = FALSE]
    <3>1. \A d \in Conns : (down'[d] /\ cl'[d] # "gone")
                              <=> (d # c /\ down[d] /\ cl[d] # "gone")
      BY <1>1 DEF TypeInv, TypeOK
    <3> QED  BY <3>1, Zenon DEF answer
  <2> QED  BY <1>1, <2>1, <2>2 DEF Service!Leave
<1>2. CASE Connect(c) /\ cl' = [cl EXCEPT ![c] = "ready"]
  <2>1. cl[c] = "idle" /\ UNCHANGED down
    BY <1>2 DEF Connect
  <2>2. /\ \A d \in Conns : cl'[d] # "gone" <=> cl[d] # "gone"
        /\ \A d \in Conns : cl'[d] = "waiting" <=> cl[d] = "waiting"
    BY <1>2, <2>1 DEF TypeInv, TypeOK
  <2>3. owed' = owed /\ answer' = answer
    BY <2>1, <2>2, Zenon DEF owed, answer
  <2> QED  BY <1>2, <2>1, <2>3 DEF Service!Connect, Service!Next
<1>3. CASE Send(c)
  <2>1. /\ cl[c] = "ready" /\ cl' = [cl EXCEPT ![c] = "waiting"]
        /\ down' = down /\ ~down[c]
    BY <1>3 DEF Send, ConnInv, LineInv
  <2>2. owed' = [owed EXCEPT ![c] = TRUE]
    <3>1. \A d \in Conns : (cl'[d] = "waiting" /\ ~down'[d])
                              <=> (d = c \/ (cl[d] = "waiting" /\ ~down[d]))
      BY <2>1 DEF TypeInv, TypeOK
    <3> QED  BY <3>1, Zenon DEF owed
  <2>3. answer' = answer
    <3>1. \A d \in Conns : cl'[d] # "gone" <=> cl[d] # "gone"
      BY <2>1 DEF TypeInv, TypeOK
    <3> QED  BY <2>1, <3>1, Zenon DEF answer
  <2> QED  BY <2>1, <2>2, <2>3 DEF Service!Ask, Service!Next
<1>4. CASE Receive(c)
  <2>1. /\ cl[c] = "waiting" /\ cl' = [cl EXCEPT ![c] = "ready"] /\ down[c]
        /\ down' = [down EXCEPT ![c] = FALSE]
    BY <1>4 DEF Receive
  <2>2. answer[c]
    BY <2>1 DEF answer
  <2>3. owed' = owed
    <3>1. \A d \in Conns : (cl'[d] = "waiting" /\ ~down'[d])
                              <=> (cl[d] = "waiting" /\ ~down[d])
      BY <2>1 DEF TypeInv, TypeOK
    <3> QED  BY <3>1, Zenon DEF owed
  <2>4. answer' = [answer EXCEPT ![c] = FALSE]
    <3>1. \A d \in Conns : (down'[d] /\ cl'[d] # "gone")
                              <=> (d # c /\ down[d] /\ cl[d] # "gone")
      BY <2>1 DEF TypeInv, TypeOK
    <3> QED  BY <3>1, Zenon DEF answer
  <2> QED  BY <2>1, <2>2, <2>3, <2>4 DEF Service!Take, Service!Next
<1>5. CASE Leave(c) \/ Told(c)
  BY <1>1, <1>5 DEF Leave, Told, Service!Next
<1>6. CASE Connect(c) /\ cl' = [cl EXCEPT ![c] = "gone"]
  BY <1>1, <1>6 DEF Connect, Service!Next
<1> QED  BY <1>2, <1>3, <1>4, <1>5, <1>6 DEF ClientStep, Connect

LEMMA NextServes ==
    TypeInv /\ ConnInv /\ [Next]_vars => [Service!Next]_<<cl, owed, answer>>
<1> SUFFICES ASSUME TypeInv, ConnInv, [Next]_vars
             PROVE  Service!Next \/ UNCHANGED <<cl, owed, answer>>
  OBVIOUS
<1>1. CASE ParentStep
  BY <1>1, SameMapped
     DEF ParentStep, Accept, AcceptBlocks, AcceptFails, TestErrno, Fork, CloseConnfd
<1>2. CASE Handler
  BY <1>2, SameMapped DEF Handler
<1>3. CASE UNCHANGED vars
  BY <1>3, SameMapped DEF vars
<1> QED  BY <1>1, <1>2, <1>3, ChildServes, ClientServes DEF Next

\* A line is answered at most once, to the client that has sent it, whatever
\* becomes of the parent, of the children and of the queue: no answer is made
\* up, repeated or sent to another (lines 65-92).
THEOREM ImplementsEcho == Spec => Service!Spec
<1>1. TypeInv /\ ConnInv /\ [Next]_vars => [Service!Next]_(Service!abstract)
  BY NextServes DEF Service!abstract
<1> QED
  BY InitType, NextType, InitConn, NextConn, InitServes, <1>1, PTL
     DEF Spec, Service!Spec
=============================================================================
