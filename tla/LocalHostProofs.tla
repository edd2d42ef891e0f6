--------------------------- MODULE LocalHostProofs ---------------------------
(***************************************************************************)
(* Theorems about the three programs whose ends share one host: the local  *)
(* socket and the UDP echo of course four, and the TCP echo of course      *)
(* three.  They hold for any number of server and client processes, any    *)
(* numbering of them, any ports, buffers and lengths of lines; one of them *)
(* says itself that it is about lines a reader can take.                   *)
(*                                                                         *)
(* The module extends LocalSocket, and has the other two as instances      *)
(* under their own names of constants and variables.  Each theorem is      *)
(* about the specification of one program.                                 *)
(***************************************************************************)
EXTENDS LocalSocket, SequenceTheorems, FiniteSetTheorems, TLAPS

\* What UdpEcho and GoEcho declare and LocalSocket does not.
CONSTANTS Server, ServPort, Ports, Nobody, NoPort, MaxStarts, BufCap,
          Lengths, BufLen, ReaderLen, ClientLen

VARIABLES starts, got, asked, port, at, buf, former, shown, long

Udp == INSTANCE UdpEcho
Go  == INSTANCE GoEcho

-----------------------------------------------------------------------------
(* The local socket.                                                       *)

ServerStates == {"off", "bind", "listen", "accept", "stat", "unlink",
                 "read", "write", "done"}
ClientStates == {"off", "bind", "connect", "ready", "waiting",
                 "gone", "never", "refused"}

TypeOK ==
    /\ srv \in [Servers -> ServerStates]
    /\ name \in Servers \cup {NoOne}
    /\ queue \in [Servers -> Seq(Clients)]
    /\ conn \in [Servers -> Clients \cup {NoOne}]
    /\ cl \in [Clients -> ClientStates]
    /\ to \in [Clients -> Servers \cup {NoOne}]
    /\ file \in [Pids -> Clients \cup {NoOne}]
    /\ past \in [Servers -> SUBSET Servers]
    /\ admitted \in SUBSET Clients

\* A server that had come past its bind when s removed the name neither
\* binds again nor has the name.
PastIsPast ==
    \A s \in Servers : srv[s] = "bind" =>
        \A t \in past[s] : srv[t] \notin {"off", "bind"} /\ name # t

\* A server about a client has one, and the others have none.
ConnOf(s) == srv[s] \in {"stat", "unlink", "read", "write"} <=> conn[s] # NoOne

InQueue(s, c) == \E k \in 1 .. Len(queue[s]) : queue[s][k] = c

\* A client that has entered a queue is there once, or has been accepted by
\* that server, and its file is removed after that.
Connected(c) == cl[c] \in {"ready", "waiting", "gone"}

OncePerQueue(s) ==
    \A j, k \in 1 .. Len(queue[s]) : queue[s][j] = queue[s][k] => j = k

QueuedIn(s) ==
    \A c \in Clients : InQueue(s, c) =>
        Connected(c) /\ to[c] = s /\ c \notin admitted /\ conn[s] # c

AcceptedBy(s) ==
    conn[s] # NoOne => /\ Connected(conn[s]) /\ to[conn[s]] = s
                       /\ srv[s] \in {"stat", "unlink"} => conn[s] \notin admitted

ServerInv(s) == ConnOf(s) /\ OncePerQueue(s) /\ QueuedIn(s) /\ AcceptedBy(s)

AdmittedConnected == \A c \in admitted : Connected(c)

IInv == /\ TypeOK /\ PastIsPast /\ AdmittedConnected /\ FileIffUntaken
        /\ \A s \in Servers : ServerInv(s)

\* Stat finds the file of the client it has accepted, unless another process
\* has had the number of that client (domain-server.c, 76).
StatFinds ==
    \A s \in Servers :
        srv[s] = "stat" /\ OwnPid(conn[s]) => file[PidOf[conn[s]]] = conn[s]

-----------------------------------------------------------------------------
LEMMA InitInv == Init => IInv
<1> SUFFICES ASSUME Init
             PROVE  IInv
  OBVIOUS
<1>1. TypeOK
  BY DEF Init, TypeOK, ServerStates, ClientStates
<1>2. PastIsPast /\ AdmittedConnected
  BY DEF Init, PastIsPast, AdmittedConnected
<1>3. FileIffUntaken
  BY PidsAssumption, ProcsAssumption DEF Init, FileIffUntaken
<1>4. ASSUME NEW s \in Servers
      PROVE  ServerInv(s)
  <2>1. \A c : ~InQueue(s, c)
    BY DEF Init, InQueue
  <2> QED
    BY <2>1 DEF Init, ServerInv, ConnOf, OncePerQueue, QueuedIn, AcceptedBy
<1> QED
  BY <1>1, <1>2, <1>3, <1>4 DEF IInv

\* The end of a server, at whatever point.
LEMMA EndInv ==
    ASSUME IInv, NEW s \in Servers, End(s),
           UNCHANGED <<name, cl, to, file, past, admitted>>
    PROVE  IInv'
<1>1. /\ \A t \in Servers : /\ srv'[t] = IF t = s THEN "done" ELSE srv[t]
                            /\ conn'[t] = IF t = s THEN NoOne ELSE conn[t]
                            /\ queue'[t] = IF t = s THEN <<>> ELSE queue[t]
      /\ TypeOK'
  BY DEF IInv, TypeOK, End, ServerStates
<1>2. PastIsPast'
  BY <1>1 DEF IInv, TypeOK, PastIsPast
<1>3. AdmittedConnected' /\ FileIffUntaken'
  BY DEF IInv, AdmittedConnected, Connected, FileIffUntaken
<1>4. ASSUME NEW t \in Servers
      PROVE  ServerInv(t)'
  <2>1. ServerInv(t)
    BY DEF IInv
  <2>2. CASE t = s
    <3>1. \A c : ~InQueue(t, c)'
      BY <2>2, <1>1 DEF InQueue
    <3>2. OncePerQueue(t)'
      BY <2>2, <1>1 DEF OncePerQueue
    <3> QED
      BY <3>1, <3>2, <2>2, <1>1 DEF ServerInv, ConnOf, QueuedIn, AcceptedBy
  <2>3. CASE t # s
    BY <2>1, <2>3, <1>1 DEF ServerInv, ConnOf, OncePerQueue, QueuedIn,
                            AcceptedBy, InQueue, Connected
  <2> QED
    BY <2>2, <2>3
<1> QED
  BY <1>1, <1>2, <1>3, <1>4 DEF IInv

\* A server's step that only takes it further, with the client it has.
LEMMA MoveInv ==
    ASSUME IInv, NEW s \in Servers, NEW x \in ServerStates,
           srv' = [srv EXCEPT ![s] = x],
           UNCHANGED <<name, queue, conn, cl, to, file, past, admitted>>,
           x \notin {"off", "bind"},
           x \in {"stat", "unlink", "read", "write"}
                <=> srv[s] \in {"stat", "unlink", "read", "write"},
           x \in {"stat", "unlink"} => srv[s] = "stat"
    PROVE  IInv'
<1>1. \A t \in Servers : srv'[t] = IF t = s THEN x ELSE srv[t]
  BY DEF IInv, TypeOK
<1>2. TypeOK'
  BY DEF IInv, TypeOK
<1>3. PastIsPast'
  BY <1>1 DEF IInv, TypeOK, PastIsPast
<1>4. AdmittedConnected' /\ FileIffUntaken'
  BY DEF IInv, AdmittedConnected, Connected, FileIffUntaken
<1>5. ASSUME NEW t \in Servers
      PROVE  ServerInv(t)'
  <2>1. ServerInv(t)
    BY DEF IInv
  <2>2. ConnOf(t)' /\ AcceptedBy(t)'
    BY <2>1, <1>1 DEF ServerInv, ConnOf, AcceptedBy, Connected
  <2>3. OncePerQueue(t)' /\ QueuedIn(t)'
    BY <2>1 DEF ServerInv, OncePerQueue, QueuedIn, InQueue, Connected
  <2> QED
    BY <2>2, <2>3 DEF ServerInv
<1> QED
  BY <1>2, <1>3, <1>4, <1>5 DEF IInv

\* What is left of a queue when its head is taken.
LEMMA QueueTail ==
    ASSUME TypeOK, NEW s \in Servers, OncePerQueue(s), queue[s] # <<>>,
           queue' = [queue EXCEPT ![s] = Tail(queue[s])]
    PROVE  /\ Head(queue[s]) \in Clients
           /\ InQueue(s, Head(queue[s]))
           /\ queue' \in [Servers -> Seq(Clients)]
           /\ OncePerQueue(s)'
           /\ \A c : InQueue(s, c)' => InQueue(s, c) /\ c # Head(queue[s])
<1> DEFINE q == queue[s]
<1>1. q \in Seq(Clients) /\ queue'[s] = Tail(q)
  BY DEF TypeOK
<1>2. /\ Head(q) \in Clients /\ Tail(q) \in Seq(Clients)
      /\ Len(q) \in Nat \ {0} /\ Len(Tail(q)) = Len(q) - 1
      /\ \A k \in 1 .. Len(Tail(q)) : Tail(q)[k] = q[k + 1]
  BY <1>1, HeadTailProperties, EmptySeq
<1>3. Head(q) = q[1]
  BY <1>1
<1>4. queue' \in [Servers -> Seq(Clients)]
  BY <1>2 DEF TypeOK
<1>5. OncePerQueue(s)'
  BY <1>1, <1>2 DEF OncePerQueue
<1>6. ASSUME NEW c, InQueue(s, c)'
      PROVE  InQueue(s, c) /\ c # Head(q)
  <2>1. PICK k \in 1 .. Len(q) - 1 : q[k + 1] = c
    BY <1>1, <1>2, <1>6 DEF InQueue
  <2>2. k + 1 \in 1 .. Len(q) /\ 1 \in 1 .. Len(q) /\ k + 1 # 1
    BY <1>2
  <2> QED
    BY <2>1, <2>2, <1>3 DEF InQueue, OncePerQueue
<1>7. InQueue(s, Head(q))
  BY <1>2, <1>3 DEF InQueue
<1> QED
  BY <1>2, <1>4, <1>5, <1>6, <1>7

LEMMA QueueAppend ==
    ASSUME TypeOK, NEW s \in Servers, OncePerQueue(s),
           NEW c \in Clients, ~InQueue(s, c),
           queue' = [queue EXCEPT ![s] = Append(queue[s], c)]
    PROVE  /\ queue' \in [Servers -> Seq(Clients)]
           /\ OncePerQueue(s)'
           /\ \A d : InQueue(s, d)' => InQueue(s, d) \/ d = c
<1> DEFINE q == queue[s]
<1>1. q \in Seq(Clients) /\ queue'[s] = Append(q, c)
  BY DEF TypeOK
<1>2. /\ Append(q, c) \in Seq(Clients) /\ Len(q) \in Nat
      /\ Len(Append(q, c)) = Len(q) + 1
      /\ \A k \in 1 .. Len(q) : Append(q, c)[k] = q[k]
      /\ Append(q, c)[Len(q) + 1] = c
  BY <1>1
<1>3. \A k \in 1 .. Len(q) + 1 : k \in 1 .. Len(q) \/ k = Len(q) + 1
  BY <1>2
<1>4. queue' \in [Servers -> Seq(Clients)]
  BY <1>2 DEF TypeOK
<1>5. OncePerQueue(s)'
  BY <1>1, <1>2, <1>3 DEF OncePerQueue, InQueue
<1>6. \A d : InQueue(s, d)' => InQueue(s, d) \/ d = c
  BY <1>1, <1>2, <1>3 DEF InQueue
<1> QED
  BY <1>4, <1>5, <1>6

LEMMA StartupInv ==
    ASSUME IInv, NEW s \in Servers, Startup(s)
    PROVE  IInv'
<1>0. \A x : [srv EXCEPT ![s] = x][s] = x
             /\ \A t \in Servers \ {s} : [srv EXCEPT ![s] = x][t] = srv[t]
  BY DEF IInv, TypeOK
<1>1. CASE UnlinkName(s)
  <2>1. /\ srv[s] = "off" /\ srv' = [srv EXCEPT ![s] = "bind"] /\ name' = NoOne
        /\ past' = [past EXCEPT ![s] = {t \in Servers : srv[t] \notin {"off", "bind"}}]
        /\ UNCHANGED <<queue, conn, cl, to, file, admitted>>
    BY <1>1 DEF UnlinkName, FreedName
  <2>2. TypeOK'
    BY <2>1 DEF IInv, TypeOK, ServerStates
  <2>3. PastIsPast'
    <3> SUFFICES ASSUME NEW t \in Servers, srv'[t] = "bind", NEW u \in past'[t]
                 PROVE  srv'[u] \notin {"off", "bind"} /\ name' # u
      BY DEF PastIsPast
    <3>1. u \in Servers /\ srv[u] \notin {"off", "bind"}
      BY <2>1, <1>0 DEF IInv, TypeOK, PastIsPast
    <3> QED
      BY <3>1, <2>1, <1>0, ProcsAssumption
  <2>4. AdmittedConnected' /\ FileIffUntaken'
    BY <2>1 DEF IInv, AdmittedConnected, Connected, FileIffUntaken
  <2>5. ASSUME NEW t \in Servers
        PROVE  ServerInv(t)'
    <3>1. ServerInv(t)
      BY DEF IInv
    <3>2. ConnOf(t)' /\ AcceptedBy(t)'
      BY <3>1, <2>1, <1>0 DEF ServerInv, ConnOf, AcceptedBy, Connected
    <3>3. OncePerQueue(t)' /\ QueuedIn(t)'
      BY <3>1, <2>1 DEF ServerInv, OncePerQueue, QueuedIn, InQueue, Connected
    <3> QED
      BY <3>2, <3>3 DEF ServerInv
  <2> QED
    BY <2>2, <2>3, <2>4, <2>5 DEF IInv
<1>2. CASE BindName(s) /\ name = NoOne
  <2>1. /\ srv[s] = "bind" /\ srv' = [srv EXCEPT ![s] = "listen"] /\ name' = s
        /\ UNCHANGED <<queue, conn, cl, to, file, past, admitted>>
    BY <1>2 DEF BindName
  <2>2. TypeOK'
    BY <2>1 DEF IInv, TypeOK, ServerStates
  <2>3. PastIsPast'
    <3> SUFFICES ASSUME NEW t \in Servers, srv'[t] = "bind", NEW u \in past[t]
                 PROVE  srv'[u] \notin {"off", "bind"} /\ s # u
      BY <2>1 DEF PastIsPast
    <3>1. u \in Servers /\ srv[u] \notin {"off", "bind"}
      BY <2>1, <1>0 DEF IInv, TypeOK, PastIsPast
    <3> QED
      BY <3>1, <2>1, <1>0
  <2>4. AdmittedConnected' /\ FileIffUntaken'
    BY <2>1 DEF IInv, AdmittedConnected, Connected, FileIffUntaken
  <2>5. ASSUME NEW t \in Servers
        PROVE  ServerInv(t)'
    <3>1. ServerInv(t)
      BY DEF IInv
    <3>2. ConnOf(t)' /\ AcceptedBy(t)'
      BY <3>1, <2>1, <1>0 DEF ServerInv, ConnOf, AcceptedBy, Connected
    <3>3. OncePerQueue(t)' /\ QueuedIn(t)'
      BY <3>1, <2>1 DEF ServerInv, OncePerQueue, QueuedIn, InQueue, Connected
    <3> QED
      BY <3>2, <3>3 DEF ServerInv
  <2> QED
    BY <2>2, <2>3, <2>4, <2>5 DEF IInv
<1>3. CASE BindName(s) /\ name # NoOne
  BY <1>3, EndInv DEF BindName
<1>4. CASE Listen(s)
  BY <1>4, MoveInv DEF Listen, ServerStates
<1> QED
  BY <1>1, <1>2, <1>3, <1>4 DEF Startup

LEMMA AcceptInv ==
    ASSUME IInv, NEW s \in Servers, Accept(s)
    PROVE  IInv'
<1> DEFINE h == Head(queue[s])
<1>1. /\ srv[s] = "accept" /\ queue[s] # <<>>
      /\ conn' = [conn EXCEPT ![s] = h]
      /\ queue' = [queue EXCEPT ![s] = Tail(queue[s])]
      /\ srv' = [srv EXCEPT ![s] = "stat"]
      /\ UNCHANGED <<name, cl, to, file, past, admitted>>
  BY DEF Accept
<1>2. /\ h \in Clients /\ InQueue(s, h)
      /\ queue' \in [Servers -> Seq(Clients)]
      /\ OncePerQueue(s)'
      /\ \A c : InQueue(s, c)' => InQueue(s, c) /\ c # h
  BY <1>1, QueueTail DEF IInv, ServerInv
<1>3. TypeOK'
  BY <1>1, <1>2 DEF IInv, TypeOK, ServerStates
<1>4. \A t \in Servers : /\ srv'[t] = IF t = s THEN "stat" ELSE srv[t]
                         /\ conn'[t] = IF t = s THEN h ELSE conn[t]
                         /\ t # s => queue'[t] = queue[t]
  BY <1>1 DEF IInv, TypeOK
<1>5. PastIsPast'
  BY <1>1, <1>4 DEF IInv, TypeOK, PastIsPast
<1>6. AdmittedConnected' /\ FileIffUntaken'
  BY <1>1 DEF IInv, AdmittedConnected, Connected, FileIffUntaken
<1>7. ASSUME NEW t \in Servers
      PROVE  ServerInv(t)'
  <2>1. ServerInv(t) /\ ServerInv(s)
    BY DEF IInv
  <2>2. CASE t = s
    <3>1. Connected(h) /\ to[h] = s /\ h \notin admitted
      BY <2>1, <1>2 DEF ServerInv, QueuedIn
    <3>2. ConnOf(s)' /\ AcceptedBy(s)'
      BY <3>1, <1>1, <1>2, <1>4, ProcsAssumption DEF ConnOf, AcceptedBy, Connected
    <3>3. QueuedIn(s)'
      BY <2>1, <1>1, <1>2, <1>4 DEF ServerInv, QueuedIn, Connected
    <3> QED
      BY <2>2, <3>2, <3>3, <1>2 DEF ServerInv
  <2>3. CASE t # s
    BY <2>1, <2>3, <1>1, <1>4 DEF ServerInv, ConnOf, OncePerQueue, QueuedIn,
                                  AcceptedBy, InQueue, Connected
  <2> QED
    BY <2>2, <2>3
<1> QED
  BY <1>3, <1>5, <1>6, <1>7 DEF IInv

LEMMA UnlinkClientInv ==
    ASSUME IInv, NEW s \in Servers, UnlinkClient(s)
    PROVE  IInv'
<1> DEFINE c == conn[s]
<1>1. /\ srv[s] = "unlink"
      /\ file' = [file EXCEPT ![PidOf[c]] = NoOne]
      /\ admitted' = admitted \cup {c}
      /\ srv' = [srv EXCEPT ![s] = "read"]
      /\ UNCHANGED <<name, queue, conn, cl, to, past>>
  BY DEF UnlinkClient, FreedFile
<1>2. c \in Clients /\ Connected(c) /\ to[c] = s
  BY <1>1 DEF IInv, TypeOK, ServerInv, ConnOf, AcceptedBy
<1>3. TypeOK'
  BY <1>1, <1>2 DEF IInv, TypeOK, ServerStates
<1>4. \A t \in Servers : srv'[t] = IF t = s THEN "read" ELSE srv[t]
  BY <1>1 DEF IInv, TypeOK
<1>5. PastIsPast'
  BY <1>1, <1>4 DEF IInv, TypeOK, PastIsPast
<1>6. AdmittedConnected'
  BY <1>1, <1>2 DEF IInv, AdmittedConnected, Connected
<1>7. FileIffUntaken'
  <2> SUFFICES ASSUME NEW d \in Clients, OwnPid(d)
               PROVE  file'[PidOf[d]] = d <=> /\ cl[d] \notin {"off", "bind", "never"}
                                              /\ d \notin admitted'
    BY <1>1 DEF FileIffUntaken, OwnPid
  <2>1. file[PidOf[d]] = d <=> /\ cl[d] \notin {"off", "bind", "never"}
                               /\ d \notin admitted
    BY DEF IInv, FileIffUntaken
  <2>2. PidOf[d] \in Pids /\ PidOf[c] \in Pids /\ d # NoOne
    BY <1>2, PidsAssumption, ProcsAssumption
  <2>3. CASE d = c
    BY <2>2, <2>3, <1>1 DEF IInv, TypeOK
  <2>4. CASE d # c
    <3>1. PidOf[d] # PidOf[c]
      BY <2>4, <1>2 DEF OwnPid
    <3> QED
      BY <3>1, <2>1, <2>2, <2>4, <1>1 DEF IInv, TypeOK
  <2> QED
    BY <2>3, <2>4
<1>8. ASSUME NEW t \in Servers
      PROVE  ServerInv(t)'
  <2>1. ServerInv(t)
    BY DEF IInv
  <2>2. ConnOf(t)' /\ OncePerQueue(t)'
    BY <2>1, <1>1, <1>4 DEF ServerInv, ConnOf, OncePerQueue
  <2>3. QueuedIn(t)'
    BY <2>1, <1>1, <1>2 DEF ServerInv, QueuedIn, InQueue, Connected
  <2>4. AcceptedBy(t)'
    BY <2>1, <1>1, <1>2, <1>4 DEF ServerInv, AcceptedBy, Connected
  <2> QED
    BY <2>2, <2>3, <2>4 DEF ServerInv
<1> QED
  BY <1>3, <1>5, <1>6, <1>7, <1>8 DEF IInv

LEMMA ServingInv ==
    ASSUME IInv, NEW s \in Servers, Serving(s) \/ Kill(s)
    PROVE  IInv'
<1>1. CASE Accept(s)
  BY <1>1, AcceptInv
<1>2. CASE Stat(s)
  <2>1. CASE End(s)
    BY <1>2, <2>1, EndInv DEF Stat
  <2>2. CASE ~End(s)
    BY <1>2, <2>2, MoveInv DEF Stat, ServerStates
  <2> QED
    BY <2>1, <2>2
<1>3. CASE UnlinkClient(s)
  BY <1>3, UnlinkClientInv
<1>4. CASE Read(s)
  BY <1>4, MoveInv DEF Read, AfterRead, ServerStates
<1>5. CASE Write(s)
  <2>1. CASE End(s)
    BY <1>5, <2>1, EndInv DEF Write
  <2>2. CASE ~End(s)
    BY <1>5, <2>2, MoveInv DEF Write, ServerStates
  <2> QED
    BY <2>1, <2>2
<1>6. CASE ReadEof(s) \/ Kill(s)
  BY <1>6, EndInv DEF ReadEof, Kill
<1> QED
  BY <1>1, <1>2, <1>3, <1>4, <1>5, <1>6 DEF Serving

\* A step of a client that neither enters a queue nor touches a file.
LEMMA ClientMoves ==
    ASSUME IInv, NEW c \in Clients, NEW x \in ClientStates,
           cl' = [cl EXCEPT ![c] = x],
           UNCHANGED <<srv, name, queue, conn, to, file, past, admitted>>,
           Connected(c) => x \in {"ready", "waiting", "gone"},
           cl[c] \in {"off", "bind", "never"} <=> x \in {"off", "bind", "never"}
    PROVE  IInv'
<1>1. \A d \in Clients : cl'[d] = IF d = c THEN x ELSE cl[d]
  BY DEF IInv, TypeOK
<1>2. \A d \in Clients : Connected(d) => Connected(d)'
  BY <1>1 DEF Connected
<1>3. TypeOK' /\ PastIsPast'
  BY DEF IInv, TypeOK, PastIsPast
<1>4. AdmittedConnected'
  BY <1>2 DEF IInv, TypeOK, AdmittedConnected
<1>5. FileIffUntaken'
  BY <1>1 DEF IInv, FileIffUntaken
<1>6. ASSUME NEW t \in Servers
      PROVE  ServerInv(t)'
  <2>1. ServerInv(t) /\ conn[t] \in Clients \cup {NoOne}
    BY DEF IInv, TypeOK
  <2>2. ConnOf(t)' /\ OncePerQueue(t)'
    BY <2>1 DEF ServerInv, ConnOf, OncePerQueue
  <2>3. QueuedIn(t)'
    BY <2>1, <1>2 DEF ServerInv, QueuedIn, InQueue
  <2>4. AcceptedBy(t)'
    BY <2>1, <1>2 DEF ServerInv, AcceptedBy
  <2> QED
    BY <2>2, <2>3, <2>4 DEF ServerInv
<1> QED
  BY <1>3, <1>4, <1>5, <1>6 DEF IInv

\* The file of a client whose number is its own changes only with it.
LEMMA OwnFile ==
    ASSUME IInv, NEW c \in Clients, NEW x \in {"bind", "connect"},
           NEW v \in {c, NoOne},
           cl' = [cl EXCEPT ![c] = x],
           file' = [file EXCEPT ![PidOf[c]] = v],
           UNCHANGED <<srv, name, queue, conn, to, past, admitted>>,
           cl[c] \in {"off", "bind"}, v = c <=> x = "connect"
    PROVE  IInv'
<1>1. \A d \in Clients : cl'[d] = IF d = c THEN x ELSE cl[d]
  BY DEF IInv, TypeOK
<1>2. ~Connected(c) /\ c \notin admitted
  BY DEF Connected, IInv, AdmittedConnected
<1>3. \A d \in Clients : Connected(d) => Connected(d)'
  BY <1>1, <1>2 DEF Connected
<1>4. TypeOK' /\ PastIsPast'
  BY DEF IInv, TypeOK, PastIsPast, ClientStates
<1>5. AdmittedConnected'
  BY <1>3 DEF IInv, TypeOK, AdmittedConnected
<1>6. FileIffUntaken'
  <2> SUFFICES ASSUME NEW d \in Clients, OwnPid(d)
               PROVE  file'[PidOf[d]] = d <=> /\ cl'[d] \notin {"off", "bind", "never"}
                                              /\ d \notin admitted
    BY DEF FileIffUntaken, OwnPid
  <2>1. /\ PidOf[d] \in Pids /\ PidOf[c] \in Pids /\ c # NoOne
        /\ file \in [Pids -> Clients \cup {NoOne}]
    BY PidsAssumption, ProcsAssumption DEF IInv, TypeOK
  <2>2. CASE d = c
    BY <2>1, <2>2, <1>1, <1>2
  <2>3. CASE d # c
    <3>1. PidOf[d] # PidOf[c]
      BY <2>3 DEF OwnPid
    <3> QED
      BY <3>1, <2>1, <2>3, <1>1 DEF IInv, FileIffUntaken
  <2> QED
    BY <2>2, <2>3
<1>7. ASSUME NEW t \in Servers
      PROVE  ServerInv(t)'
  <2>1. ServerInv(t) /\ conn[t] \in Clients \cup {NoOne}
    BY DEF IInv, TypeOK
  <2>2. ConnOf(t)' /\ OncePerQueue(t)'
    BY <2>1 DEF ServerInv, ConnOf, OncePerQueue
  <2>3. QueuedIn(t)'
    BY <2>1, <1>3 DEF ServerInv, QueuedIn, InQueue
  <2>4. AcceptedBy(t)'
    BY <2>1, <1>3 DEF ServerInv, AcceptedBy
  <2> QED
    BY <2>2, <2>3, <2>4 DEF ServerInv
<1> QED
  BY <1>4, <1>5, <1>6, <1>7 DEF IInv

LEMMA ConnectInv ==
    ASSUME IInv, NEW c \in Clients, Connect(c)
    PROVE  IInv'
<1>1. CASE ~(name # NoOne /\ Listening(name))
  BY <1>1, ClientMoves DEF Connect, ClientStates, Connected
<1>2. CASE name # NoOne /\ Listening(name)
  <2> DEFINE s == name
  <2>1. /\ s \in Servers /\ cl[c] = "connect"
        /\ queue' = [queue EXCEPT ![s] = Append(queue[s], c)]
        /\ to' = [to EXCEPT ![c] = s]
        /\ cl' = [cl EXCEPT ![c] = "ready"]
        /\ UNCHANGED <<srv, name, conn, file, past, admitted>>
    BY <1>2 DEF Connect, IInv, TypeOK
  <2>2. ~Connected(c) /\ c \notin admitted
    BY <2>1 DEF Connected, IInv, AdmittedConnected
  <2>3. \A t \in Servers : ~InQueue(t, c) /\ conn[t] # c
    BY <2>2, ProcsAssumption DEF IInv, ServerInv, QueuedIn, AcceptedBy
  <2>4. /\ queue' \in [Servers -> Seq(Clients)]
        /\ OncePerQueue(s)'
        /\ \A d : InQueue(s, d)' => InQueue(s, d) \/ d = c
    <3>1. TypeOK /\ OncePerQueue(s) /\ ~InQueue(s, c)
      BY <2>1, <2>3 DEF IInv, ServerInv
    <3> QED
      BY <2>1, <3>1, QueueAppend
  <2>5. /\ \A d \in Clients : cl'[d] = IF d = c THEN "ready" ELSE cl[d]
        /\ \A d \in Clients : to'[d] = IF d = c THEN s ELSE to[d]
        /\ \A t \in Servers \ {s} : queue'[t] = queue[t]
    BY <2>1 DEF IInv, TypeOK
  <2>6. \A d \in Clients : Connected(d) => Connected(d)'
    BY <2>5 DEF Connected
  <2>7. TypeOK' /\ PastIsPast'
    BY <2>1, <2>4 DEF IInv, TypeOK, PastIsPast, ClientStates
  <2>8. AdmittedConnected'
    BY <2>1, <2>6 DEF IInv, TypeOK, AdmittedConnected
  <2>9. FileIffUntaken'
    BY <2>1, <2>5 DEF IInv, FileIffUntaken
  <2>10. ASSUME NEW t \in Servers
         PROVE  ServerInv(t)'
    <3>1. ServerInv(t) /\ conn[t] \in Clients \cup {NoOne} /\ conn[t] # c
      BY <2>3 DEF IInv, TypeOK
    <3>2. ConnOf(t)'
      BY <3>1, <2>1 DEF ServerInv, ConnOf
    <3>3. AcceptedBy(t)'
      BY <3>1, <2>1, <2>5, <2>6 DEF ServerInv, AcceptedBy
    <3>4. CASE t = s
      <4>1. Connected(c)' /\ to'[c] = s
        BY <2>5 DEF Connected
      <4>2. QueuedIn(s)'
        BY <4>1, <3>1, <3>4, <2>1, <2>2, <2>4, <2>5, <2>6 DEF ServerInv, QueuedIn
      <4>3. OncePerQueue(t)'
        BY <3>4, <2>1, <2>4 DEF OncePerQueue
      <4>4. QueuedIn(t)'
        BY <3>4, <2>1, <4>2 DEF QueuedIn, InQueue
      <4> QED
        BY <3>2, <3>3, <4>3, <4>4 DEF ServerInv
    <3>5. CASE t # s
      <4>1. OncePerQueue(t)' /\ \A d : InQueue(t, d)' <=> InQueue(t, d)
        BY <3>1, <3>5, <2>5 DEF ServerInv, OncePerQueue, InQueue
      <4>2. QueuedIn(t)'
        BY <4>1, <3>1, <2>1, <2>3, <2>5, <2>6 DEF ServerInv, QueuedIn
      <4> QED
        BY <3>2, <3>3, <4>1, <4>2 DEF ServerInv
    <3> QED
      BY <3>4, <3>5
  <2> QED
    BY <2>7, <2>8, <2>9, <2>10 DEF IInv
<1> QED
  BY <1>1, <1>2

LEMMA ClientInv ==
    ASSUME IInv, NEW c \in Clients, ClientStep(c)
    PROVE  IInv'
<1>1. CASE UnlinkPath(c)
  BY <1>1, OwnFile, ProcsAssumption DEF UnlinkPath
<1>2. CASE BindPath(c)
  BY <1>2, OwnFile DEF BindPath
<1>3. CASE Connect(c)
  BY <1>3, ConnectInv
<1>4. CASE Send(c)
  <2>1. PICK x \in {"gone", "waiting"} : cl' = [cl EXCEPT ![c] = x]
    BY <1>4 DEF Send
  <2> QED
    BY <1>4, <2>1, ClientMoves DEF Send, ClientStates
<1>5. CASE Receive(c)
  BY <1>5, ClientMoves DEF Receive, ClientStates
<1>6. CASE Leave(c)
  <2>1. CASE cl[c] = "bind"
    BY <1>6, <2>1, ClientMoves DEF Leave, ClientStates, Connected
  <2>2. CASE cl[c] # "bind"
    BY <1>6, <2>2, ClientMoves DEF Leave, Started, ClientStates
  <2> QED
    BY <2>1, <2>2
<1> QED
  BY <1>1, <1>2, <1>3, <1>4, <1>5, <1>6 DEF ClientStep

LEMMA NextInv == IInv /\ [Next]_vars => IInv'
<1> SUFFICES ASSUME IInv, [Next]_vars
             PROVE  IInv'
  OBVIOUS
<1>1. CASE UNCHANGED vars
  BY <1>1 DEF vars, IInv, TypeOK, PastIsPast, AdmittedConnected, Connected,
              FileIffUntaken, ServerInv, ConnOf, OncePerQueue, QueuedIn,
              AcceptedBy, InQueue
<1>2. CASE \E s \in Servers : Startup(s) \/ Serving(s) \/ Kill(s)
  BY <1>2, StartupInv, ServingInv
<1>3. CASE \E c \in Clients : ClientStep(c)
  BY <1>3, ClientInv
<1> QED
  BY <1>1, <1>2, <1>3 DEF Next

\* The socket files, the queues and the two programs' steps hold one another up
\* (domain-server.c, domain-client.c).
THEOREM Invariance == Spec => []IInv
  BY InitInv, NextInv, PTL DEF Spec

\* bind finds the name taken only by a server that bound it after this one's
\* unlink: what ended servers leave behind never stops one from starting
\* (domain-server.c, 30 and 39).
THEOREM LeftoverNeverBlocks == Spec => []BindFailsOnlyInARace
<1>1. IInv => BindFailsOnlyInARace
  BY DEF IInv, PastIsPast, BindFailsOnlyInARace
<1> QED
  BY <1>1, Invariance, PTL

\* The file of a client with a number of its own exists from its bind until
\* a server that has accepted it removes it (domain-server.c, 76 and 86).
THEOREM FileUntilTaken == Spec => []FileIffUntaken
<1>1. IInv => FileIffUntaken
  BY DEF IInv
<1> QED
  BY <1>1, Invariance, PTL

\* No server refuses, and exits with, a client whose number is its own: the
\* file that Stat looks for is there (domain-server.c, 76).
THEOREM StatSucceeds == Spec => []StatFinds
<1>1. IInv => StatFinds
  <2> SUFFICES ASSUME IInv, NEW s \in Servers, srv[s] = "stat", OwnPid(conn[s])
               PROVE  file[PidOf[conn[s]]] = conn[s]
    BY DEF StatFinds
  <2>1. conn[s] \in Clients /\ Connected(conn[s]) /\ conn[s] \notin admitted
    BY DEF IInv, TypeOK, ServerInv, ConnOf, AcceptedBy
  <2> QED
    BY <2>1 DEF IInv, FileIffUntaken, Connected
<1> QED
  BY <1>1, Invariance, PTL

-----------------------------------------------------------------------------
(* The lines and answers of the local socket.                              *)

\* A server has read the line of c and is about to answer it.
Writing(c) == \E s \in Servers : srv[s] = "write" /\ conn[s] = c

\* A line is on its way, in the server, or answered, and in one of the three
\* only.  What a client is still owed when its server ends is not answered
\* later: the client sends nothing more, for its next write ends it.
OneLineOf(c) ==
    /\ down[c] => cl[c] = "waiting" /\ ~up[c] /\ ~Writing(c)
    /\ up[c] => cl[c] \in {"ready", "waiting", "gone"} /\ ~Writing(c)
    /\ Writing(c) => cl[c] \in {"waiting", "gone"}
    /\ cl[c] = "ready" /\ up[c] => HungUp(c)
    /\ cl[c] = "waiting" => up[c] \/ Writing(c) \/ down[c] \/ HungUp(c)

\* A client that is about to type its next line has had the answer to the
\* last one, or its server has ended; one that waits has its line in exactly
\* one place, or its server has ended.
LineOnce == \A c \in Clients : OneLineOf(c)

LineInv ==
    /\ up \in [Clients -> BOOLEAN] /\ down \in [Clients -> BOOLEAN]
    /\ LineOnce
    /\ \A c \in Clients : cl[c] \in {"ready", "waiting"} => to[c] \in Servers

\* Only the server a client has connected to answers it, while it lives.
LEMMA WriterIsOwn ==
    ASSUME IInv, NEW c \in Clients
    PROVE  /\ \A s \in Servers : srv[s] = "write" /\ conn[s] = c => to[c] = s
           /\ HungUp(c) => ~Writing(c)
  BY ProcsAssumption DEF IInv, ServerInv, AcceptedBy, Writing, HungUp

LEMMA LineInit == Init => LineInv
  BY DEF Init, LineInv, LineOnce, OneLineOf, Writing

\* What neither touches a line nor makes a server read one.
LEMMA LinesKept ==
    ASSUME LineInv, UNCHANGED <<cl, to, up, down>>,
           \A c \in Clients : Writing(c)' => Writing(c),
           \A c \in Clients :
              to[c] \in Servers /\ Writing(c) => Writing(c)' \/ HungUp(c)',
           \A c \in Clients : to[c] \in Servers /\ HungUp(c) => HungUp(c)'
    PROVE  LineInv'
<1>1. ASSUME NEW c \in Clients
      PROVE  OneLineOf(c)'
  <2>1. OneLineOf(c) /\ (cl[c] \in {"ready", "waiting"} => to[c] \in Servers)
    BY DEF LineInv, LineOnce
  <2> QED
    BY <2>1 DEF OneLineOf
<1> QED
  BY <1>1 DEF LineInv, LineOnce

\* A server that ends takes with it the line it has read.
LEMMA EndLines ==
    ASSUME IInv, LineInv, NEW s \in Servers, End(s), UNCHANGED <<cl, to, up, down>>
    PROVE  LineInv'
<1>1. \A t \in Servers : /\ srv'[t] = IF t = s THEN "done" ELSE srv[t]
                         /\ conn'[t] = IF t = s THEN NoOne ELSE conn[t]
  BY DEF End, IInv, TypeOK
<1>2. ASSUME NEW c \in Clients
      PROVE  /\ Writing(c)' => Writing(c)
             /\ to[c] \in Servers /\ Writing(c) => Writing(c)' \/ HungUp(c)'
             /\ to[c] \in Servers /\ HungUp(c) => HungUp(c)'
  BY <1>1, WriterIsOwn DEF Writing, HungUp
<1> QED
  BY <1>2, LinesKept

\* A server that goes on, without reading or answering a line.
LEMMA MoveLines ==
    ASSUME IInv, LineInv, NEW s \in Servers, NEW x,
           srv' = [srv EXCEPT ![s] = x], x \notin {"write", "done"},
           srv[s] \notin {"write", "done"}, UNCHANGED <<cl, to, up, down>>,
           \A t \in Servers \ {s} : conn'[t] = conn[t]
    PROVE  LineInv'
<1>1. \A t \in Servers : srv'[t] = IF t = s THEN x ELSE srv[t]
  BY DEF IInv, TypeOK
<1>2. ASSUME NEW c \in Clients
      PROVE  /\ Writing(c)' <=> Writing(c)
             /\ to[c] \in Servers => (HungUp(c)' <=> HungUp(c))
  BY <1>1 DEF Writing, HungUp
<1> QED
  BY <1>2, LinesKept

LEMMA ReadLines ==
    ASSUME IInv, LineInv, NEW s \in Servers, Read(s)
    PROVE  LineInv'
<1>1. PICK c \in Clients : c = conn[s] /\ to[c] = s /\ up[c] /\ srv[s] = "read"
  BY DEF Read, IInv, TypeOK, ServerInv, ConnOf, AcceptedBy
<1>2. /\ up' = [up EXCEPT ![c] = FALSE] /\ srv' = [srv EXCEPT ![s] = "write"]
      /\ UNCHANGED <<conn, cl, to, down>>
  BY <1>1 DEF Read, AfterRead
<1>3. \A t \in Servers : srv'[t] = IF t = s THEN "write" ELSE srv[t]
  BY <1>2 DEF IInv, TypeOK
<1>4. \A d \in Clients : /\ to[d] \in Servers => (HungUp(d)' <=> HungUp(d))
                         /\ d # c => (Writing(d)' <=> Writing(d))
  BY <1>1, <1>2, <1>3 DEF HungUp, Writing
<1>5. Writing(c)' /\ ~HungUp(c)
  BY <1>1, <1>2, <1>3 DEF HungUp, Writing
<1>6. ASSUME NEW d \in Clients
      PROVE  OneLineOf(d)'
  <2>1. OneLineOf(d) /\ (cl[d] \in {"ready", "waiting"} => to[d] \in Servers)
    BY DEF LineInv, LineOnce
  <2>2. up'[d] = (up[d] /\ d # c)
    BY <1>2 DEF LineInv
  <2> QED
    BY <1>1, <1>2, <1>4, <1>5, <2>1, <2>2 DEF OneLineOf
<1> QED
  BY <1>2, <1>6 DEF LineInv, LineOnce

LEMMA WriteLines ==
    ASSUME IInv, LineInv, NEW s \in Servers, Write(s), cl[conn[s]] # "gone"
    PROVE  LineInv'
<1>1. PICK c \in Clients : c = conn[s] /\ to[c] = s /\ srv[s] = "write"
  BY DEF Write, IInv, TypeOK, ServerInv, ConnOf, AcceptedBy
<1>2. /\ down' = [down EXCEPT ![c] = TRUE] /\ srv' = [srv EXCEPT ![s] = "read"]
      /\ UNCHANGED <<conn, cl, to, up>>
  BY <1>1 DEF Write
<1>3. \A t \in Servers : srv'[t] = IF t = s THEN "read" ELSE srv[t]
  BY <1>2 DEF IInv, TypeOK
<1>4. \A d \in Clients : /\ to[d] \in Servers => (HungUp(d)' <=> HungUp(d))
                         /\ d # c => (Writing(d)' <=> Writing(d))
  BY <1>1, <1>2, <1>3 DEF HungUp, Writing
<1>5. Writing(c) /\ ~Writing(c)'
  BY <1>1, <1>2, <1>3, WriterIsOwn DEF Writing
<1>6. cl[c] = "waiting" /\ ~up[c]
  BY <1>1, <1>5 DEF LineInv, LineOnce, OneLineOf
<1>7. ASSUME NEW d \in Clients
      PROVE  OneLineOf(d)'
  <2>1. OneLineOf(d) /\ (cl[d] \in {"ready", "waiting"} => to[d] \in Servers)
    BY DEF LineInv, LineOnce
  <2>2. down'[d] = (down[d] \/ d = c)
    BY <1>2 DEF LineInv
  <2> QED
    BY <1>2, <1>4, <1>5, <1>6, <2>1, <2>2 DEF OneLineOf
<1> QED
  BY <1>2, <1>7 DEF LineInv, LineOnce

LEMMA ServerLines ==
    ASSUME IInv, LineInv, NEW s \in Servers, Startup(s) \/ Serving(s) \/ Kill(s)
    PROVE  LineInv'
<1>1. CASE UnlinkName(s)
  BY <1>1, MoveLines DEF UnlinkName
<1>2. CASE BindName(s)
  BY <1>2, MoveLines, EndLines DEF BindName
<1>3. CASE Listen(s)
  BY <1>3, MoveLines DEF Listen
<1>4. CASE Accept(s)
  BY <1>4, MoveLines DEF Accept, IInv, TypeOK
<1>5. CASE Stat(s)
  BY <1>5, MoveLines, EndLines DEF Stat
<1>6. CASE UnlinkClient(s)
  BY <1>6, MoveLines DEF UnlinkClient
<1>7. CASE Read(s)
  BY <1>7, ReadLines
<1>8. CASE Write(s)
  BY <1>8, WriteLines, EndLines DEF Write
<1>9. CASE ReadEof(s) \/ Kill(s)
  BY <1>9, EndLines DEF ReadEof, Kill
<1> QED
  BY <1>1, <1>2, <1>3, <1>4, <1>5, <1>6, <1>7, <1>8, <1>9 DEF Startup, Serving

LEMMA ClientLines ==
    ASSUME IInv, LineInv, NEW c \in Clients, ClientStep(c)
    PROVE  LineInv'
<1>1. UNCHANGED <<srv, conn>>
  BY DEF ClientStep, UnlinkPath, BindPath, Connect, Send, Receive, Leave
<1>2. \A d \in Clients : Writing(d)' <=> Writing(d)
  BY <1>1 DEF Writing
<1>3. /\ up \in [Clients -> BOOLEAN] /\ down \in [Clients -> BOOLEAN]
      /\ cl \in [Clients -> ClientStates] /\ to \in [Clients -> Servers \cup {NoOne}]
      /\ OneLineOf(c) /\ (cl[c] \in {"ready", "waiting"} => to[c] \in Servers)
  BY DEF LineInv, LineOnce, IInv, TypeOK
<1>4. /\ up' \in [Clients -> BOOLEAN] /\ down' \in [Clients -> BOOLEAN]
      /\ \A d \in Clients \ {c} : /\ cl'[d] = cl[d] /\ to'[d] = to[d]
                                  /\ up'[d] = up[d] /\ down'[d] = down[d]
  BY <1>3 DEF ClientStep, UnlinkPath, BindPath, Connect, Send, Receive, Leave
<1>5. ASSUME NEW d \in Clients, d # c
      PROVE  OneLineOf(d)' /\ (cl'[d] \in {"ready", "waiting"} => to'[d] \in Servers)
  <2>1. OneLineOf(d) /\ (cl[d] \in {"ready", "waiting"} => to[d] \in Servers)
    BY DEF LineInv, LineOnce
  <2>2. HungUp(d)' <=> HungUp(d)
    BY <1>1, <1>4, <1>5 DEF HungUp
  <2> QED
    BY <1>2, <1>4, <1>5, <2>1, <2>2 DEF OneLineOf
<1>6. OneLineOf(c)' /\ (cl'[c] \in {"ready", "waiting"} => to'[c] \in Servers)
  <2>1. CASE UnlinkPath(c) \/ BindPath(c)
    BY <1>2, <1>3, <2>1 DEF UnlinkPath, BindPath, OneLineOf
  <2>2. CASE Connect(c)
    <3>1. name # NoOne => name \in Servers
      BY DEF IInv, TypeOK
    <3> QED
      BY <1>2, <1>3, <2>2, <3>1 DEF Connect, OneLineOf
  <2>3. CASE Send(c)
    BY <1>2, <1>3, <2>3 DEF Send, OneLineOf
  <2>4. CASE Receive(c)
    <3>1. HungUp(c)' <=> HungUp(c)
      BY <1>1, <2>4 DEF Receive, HungUp
    <3> QED
      BY <1>2, <1>3, <2>4, <3>1, WriterIsOwn DEF Receive, OneLineOf
  <2>5. CASE Leave(c)
    BY <1>2, <1>3, <2>5 DEF Leave, Started, OneLineOf
  <2> QED
    BY <2>1, <2>2, <2>3, <2>4, <2>5 DEF ClientStep
<1> QED
  BY <1>4, <1>5, <1>6 DEF LineInv, LineOnce

\* A line that a client waits for is in exactly one place, or its server has
\* ended, and nothing is left of it when the client types the next: what a
\* client reads is never the answer to an earlier line (domain-client.c, 81).
THEOREM LocalAnswersInStep == Spec => []LineOnce
<1>1. IInv /\ LineInv /\ [Next]_vars => LineInv'
  <2> SUFFICES ASSUME IInv, LineInv, [Next]_vars
               PROVE  LineInv'
    OBVIOUS
  <2>1. CASE UNCHANGED vars
    BY <2>1 DEF vars, LineInv, LineOnce, OneLineOf, Writing, HungUp
  <2>2. CASE Next
    BY <2>2, ServerLines, ClientLines DEF Next
  <2> QED
    BY <2>1, <2>2
<1>2. LineInv => LineOnce
  BY DEF LineInv
<1> QED
  BY <1>1, <1>2, LineInit, Invariance, PTL DEF Spec

-----------------------------------------------------------------------------
(* The UDP echo.                                                           *)

UdpTypeOK ==
    /\ srv \in {"down", "recv", "send"}
    /\ got \in Udp!Datagrams \cup {Udp!Nothing}
    /\ cl \in [Clients -> {"off", "ready", "waiting", "gone"}]
    /\ asked \in [Clients -> Nat]
    /\ port \in [Clients -> Udp!AllPorts \cup {NoPort}]
    /\ at \in [Udp!AllPorts -> Udp!Procs \cup {Nobody}]
    /\ buf \in [Udp!Procs -> Seq(Udp!Datagrams)]
    /\ former \in [Udp!AllPorts -> SUBSET Clients]

\* A port has one socket, which the client or the server it belongs to knows
\* of; the server has none but ServPort, a client only while it runs.
PortsAgree ==
    /\ \A c \in Clients : port[c] # NoPort => /\ at[port[c]] = c
                                              /\ c \in former[port[c]]
    /\ \A p \in Udp!AllPorts : at[p] \in Clients => port[at[p]] = p
    /\ \A p \in Ports : at[p] # Server
    /\ \A c \in Clients : /\ cl[c] = "waiting" => port[c] # NoPort
                          /\ cl[c] \in {"off", "gone"} => port[c] = NoPort

\* A client that has sent nothing and bound nothing has left no trace.
Unknown(c) == cl[c] \in {"off", "ready"} /\ port[c] = NoPort

NoTrace(c) ==
    Unknown(c) => /\ \A p \in Udp!AllPorts : c \notin former[p]
                  /\ \A i \in 1 .. Len(buf[Server]) : buf[Server][i].who # c
                  /\ got.who # c
                  /\ buf[c] = <<>>

\* What the server gets is a line, from a port its client has had and that
\* the server itself never has.
IsLine(d) ==
    /\ d \in Udp!Datagrams /\ d = Udp!Line(d.who, d.n, d.from)
    /\ d.from \in Ports /\ d.who \in former[d.from]

OnlyLines ==
    /\ \A i \in 1 .. Len(buf[Server]) : IsLine(buf[Server][i])
    /\ srv = "send" => IsLine(got)

\* The datagram on its way for a client on a fresh port.
AnswerTo(c) == [Udp!Line(c, asked[c], ServPort) EXCEPT !.text = "upper"]

OneOnItsWay(c) ==
    Udp!FreshPort(c) =>
    /\ \A i \in 1 .. Len(buf[Server]) : buf[Server][i].who = c =>
          /\ cl[c] = "waiting" /\ buf[Server][i] = Udp!Line(c, asked[c], port[c])
          /\ got.who # c /\ buf[c] = <<>>
          /\ \A j \in 1 .. Len(buf[Server]) : buf[Server][j].who = c => j = i
    /\ got.who = c => /\ cl[c] = "waiting" /\ got = Udp!Line(c, asked[c], port[c])
                      /\ buf[c] = <<>>
    /\ buf[c] = <<>> \/ (cl[c] = "waiting" /\ buf[c] = <<AnswerTo(c)>>)

UdpInv ==
    /\ UdpTypeOK /\ PortsAgree /\ OnlyLines
    /\ \A c \in Clients : NoTrace(c) /\ OneOnItsWay(c)

-----------------------------------------------------------------------------
LEMMA UdpNames ==
    ASSUME Udp!ProcsAssumption, Udp!PortsAssumption
    PROVE  /\ Server \notin Clients /\ Nobody \notin Udp!Procs
           /\ ServPort \notin Ports /\ NoPort \notin Udp!AllPorts
           /\ Ports \subseteq Udp!AllPorts /\ ServPort \in Udp!AllPorts
           /\ Clients \subseteq Udp!Procs /\ Server \in Udp!Procs
           /\ Udp!Nothing.who \notin Clients
  BY DEF Udp!ProcsAssumption, Udp!PortsAssumption, Udp!Procs, Udp!AllPorts, Udp!Nothing

\* What Delivered does to the buffers.
LEMMA UdpDelivered ==
    ASSUME NEW d \in Udp!Datagrams, NEW p \in Udp!AllPorts,
           NEW owner \in [Udp!AllPorts -> Udp!Procs \cup {Nobody}],
           Nobody \notin Udp!Procs, buf \in [Udp!Procs -> Seq(Udp!Datagrams)]
    PROVE  /\ Udp!Delivered(d, p, owner) \in [Udp!Procs -> Seq(Udp!Datagrams)]
           /\ \A x \in Udp!Procs :
                 \/ Udp!Delivered(d, p, owner)[x] = buf[x]
                 \/ /\ x = owner[p]
                    /\ Udp!Delivered(d, p, owner)[x] = Append(buf[x], d)
<1>1. CASE owner[p] # Nobody /\ Len(buf[owner[p]]) < BufCap
  <2>1. /\ owner[p] \in Udp!Procs /\ Append(buf[owner[p]], d) \in Seq(Udp!Datagrams)
        /\ Udp!Delivered(d, p, owner)
              = [buf EXCEPT ![owner[p]] = Append(buf[owner[p]], d)]
    BY <1>1, AppendProperties DEF Udp!Delivered
  <2> QED
    BY <2>1
<1>2. CASE ~(owner[p] # Nobody /\ Len(buf[owner[p]]) < BufCap)
  BY <1>2 DEF Udp!Delivered
<1> QED
  BY <1>1, <1>2

\* A step that only takes away from what is on its way for c, or adds what is
\* not about c, and leaves its port to it.
LEMMA UdpOthers ==
    ASSUME NEW c \in Clients, OneOnItsWay(c), Udp!FreshPort(c)' => Udp!FreshPort(c),
           cl'[c] = cl[c], asked'[c] = asked[c], port'[c] = port[c],
           buf'[c] = buf[c], got'.who = c => got' = got,
           \A i \in 1 .. Len(buf'[Server]) : buf'[Server][i].who = c =>
               i \in 1 .. Len(buf[Server]) /\ buf'[Server][i] = buf[Server][i]
    PROVE  OneOnItsWay(c)'
  BY DEF OneOnItsWay, AnswerTo

LEMMA UdpInit ==
    ASSUME Udp!ProcsAssumption, Udp!PortsAssumption, Udp!Init
    PROVE  UdpInv
<1>0. <<>> \in Seq(Udp!Datagrams)
  BY EmptySeq
<1>1. UdpTypeOK
  BY <1>0 DEF Udp!Init, UdpTypeOK
<1>2. PortsAgree /\ OnlyLines
  BY UdpNames DEF Udp!Init, PortsAgree, OnlyLines
<1>3. \A c \in Clients : NoTrace(c) /\ OneOnItsWay(c)
  BY UdpNames DEF Udp!Init, NoTrace, OneOnItsWay, Udp!FreshPort
<1> QED
  BY <1>1, <1>2, <1>3 DEF UdpInv

LEMMA UdpStartServer ==
    ASSUME Udp!ProcsAssumption, Udp!PortsAssumption, UdpInv, Udp!StartServer
    PROVE  UdpInv'
<1>1. /\ UNCHANGED <<got, cl, asked, port, buf, former>> /\ srv' = "recv"
      /\ \/ at' = at
         \/ at[ServPort] = Nobody /\ at' = [at EXCEPT ![ServPort] = Server]
  BY DEF Udp!StartServer, Udp!BoundPort
<1>2. UdpTypeOK'
  BY <1>1, UdpNames DEF UdpInv, UdpTypeOK
<1>3. PortsAgree'
  <2>1. CASE at' = at
    BY <1>1, <2>1 DEF UdpInv, PortsAgree
  <2>2. CASE at[ServPort] = Nobody /\ at' = [at EXCEPT ![ServPort] = Server]
    <3>1. /\ at'[ServPort] = Server
          /\ \A p \in Udp!AllPorts \ {ServPort} : at'[p] = at[p]
      BY <2>2, UdpNames DEF UdpInv, UdpTypeOK
    <3>2. \A c \in Clients : port[c] # NoPort => /\ port[c] # ServPort
                                                 /\ port[c] \in Udp!AllPorts
      BY <2>2, UdpNames DEF UdpInv, UdpTypeOK, PortsAgree
    <3> QED
      BY <1>1, <3>1, <3>2, UdpNames DEF UdpInv, PortsAgree
  <2> QED
    BY <1>1, <2>1, <2>2
<1>4. OnlyLines'
  BY <1>1 DEF UdpInv, OnlyLines, IsLine
<1>5. ASSUME NEW c \in Clients  PROVE NoTrace(c)' /\ OneOnItsWay(c)'
  BY <1>1, UdpOthers DEF UdpInv, NoTrace, Unknown, Udp!FreshPort
<1> QED
  BY <1>2, <1>3, <1>4, <1>5 DEF UdpInv

LEMMA UdpKillServer ==
    ASSUME Udp!ProcsAssumption, Udp!PortsAssumption, UdpInv, Udp!KillServer
    PROVE  UdpInv'
<1>1. /\ UNCHANGED <<cl, asked, port, former>> /\ srv' = "down" /\ got' = Udp!Nothing
      /\ at' = [p \in Udp!AllPorts |-> IF at[p] = Server THEN Nobody ELSE at[p]]
      /\ buf' = [buf EXCEPT ![Server] = <<>>]
  BY DEF Udp!KillServer
<1>2. /\ <<>> \in Seq(Udp!Datagrams) /\ buf'[Server] = <<>> /\ Len(buf'[Server]) = 0
      /\ \A c \in Clients : buf'[c] = buf[c]
  BY <1>1, UdpNames, EmptySeq DEF UdpInv, UdpTypeOK
<1>3. UdpTypeOK'
  BY <1>1, <1>2, UdpNames DEF UdpInv, UdpTypeOK
<1>4. PortsAgree'
  BY <1>1, UdpNames DEF UdpInv, UdpTypeOK, PortsAgree
<1>5. OnlyLines'
  BY <1>1, <1>2 DEF OnlyLines
<1>6. ASSUME NEW c \in Clients  PROVE NoTrace(c)' /\ OneOnItsWay(c)'
  BY <1>1, <1>2, UdpNames, UdpOthers DEF UdpInv, NoTrace, Unknown, Udp!FreshPort
<1> QED
  BY <1>3, <1>4, <1>5, <1>6 DEF UdpInv

LEMMA UdpRecvFrom ==
    ASSUME Udp!ProcsAssumption, Udp!PortsAssumption, UdpInv, Udp!RecvFrom
    PROVE  UdpInv'
<1> DEFINE q == buf[Server]
<1>1. /\ UNCHANGED <<cl, asked, port, at, former>> /\ srv' = "send"
      /\ q \in Seq(Udp!Datagrams) /\ q # <<>> /\ got' = Head(q)
      /\ buf' = [buf EXCEPT ![Server] = Tail(q)]
  BY UdpNames DEF UdpInv, UdpTypeOK, Udp!RecvFrom
<1>2. /\ Head(q) \in Udp!Datagrams /\ Tail(q) \in Seq(Udp!Datagrams)
      /\ Len(q) \in Nat \ {0} /\ Len(Tail(q)) = Len(q) - 1 /\ Head(q) = q[1]
      /\ \A i \in 1 .. Len(q) - 1 : Tail(q)[i] = q[i + 1]
  BY <1>1, HeadTailProperties, EmptySeq
<1>3. /\ buf'[Server] = Tail(q) /\ \A c \in Clients : buf'[c] = buf[c]
      /\ 1 \in 1 .. Len(q)
      /\ \A i \in 1 .. Len(q) - 1 : i + 1 \in 1 .. Len(q) /\ i + 1 # 1
  BY <1>1, <1>2, UdpNames DEF UdpInv, UdpTypeOK
<1>4. UdpTypeOK'
  BY <1>1, <1>2 DEF UdpInv, UdpTypeOK
<1>5. PortsAgree'
  BY <1>1 DEF UdpInv, PortsAgree
<1>6. OnlyLines'
  BY <1>1, <1>2, <1>3 DEF UdpInv, OnlyLines, IsLine
<1>7. ASSUME NEW c \in Clients  PROVE NoTrace(c)'
  BY <1>1, <1>2, <1>3 DEF UdpInv, NoTrace, Unknown
<1>8. ASSUME NEW c \in Clients  PROVE OneOnItsWay(c)'
  <2> SUFFICES ASSUME Udp!FreshPort(c)'
               PROVE  OneOnItsWay(c)'
    BY DEF OneOnItsWay
  <2>1. /\ Udp!FreshPort(c) /\ OneOnItsWay(c) /\ AnswerTo(c)' = AnswerTo(c)
        /\ asked' = asked /\ port' = port /\ cl' = cl /\ buf'[c] = buf[c]
    BY <1>1, <1>3 DEF Udp!FreshPort, UdpInv, AnswerTo
  <2>2. CASE got'.who = c
    <3>1. \A i \in 1 .. Len(q) - 1 : Tail(q)[i].who # c
      BY <1>1, <1>2, <1>3, <2>1, <2>2 DEF OneOnItsWay
    <3>2. /\ q[1].who = c /\ q[1] = Udp!Line(c, asked[c], port[c])
          /\ cl[c] = "waiting" /\ buf[c] = <<>>
      BY <1>1, <1>2, <1>3, <2>1, <2>2 DEF OneOnItsWay
    <3> QED
      BY <1>1, <1>2, <1>3, <2>1, <2>2, <3>1, <3>2 DEF OneOnItsWay
  <2>3. CASE got'.who # c
    <3>1. \A i, j \in 1 .. Len(q) - 1 : i + 1 = j + 1 => i = j
      BY <1>2
    <3> QED
      BY <1>1, <1>2, <1>3, <2>1, <2>3, <3>1 DEF OneOnItsWay
  <2> QED
    BY <2>2, <2>3
<1> QED
  BY <1>4, <1>5, <1>6, <1>7, <1>8 DEF UdpInv

LEMMA UdpSendTo ==
    ASSUME Udp!ProcsAssumption, Udp!PortsAssumption, UdpInv, Udp!SendTo
    PROVE  UdpInv'
<1> DEFINE d == [got EXCEPT !.text = "upper", !.from = ServPort]
           x == at[got.from]
<1>1. /\ UNCHANGED <<cl, asked, port, at, former>> /\ srv' = "recv"
      /\ got' = Udp!Nothing /\ buf' = Udp!Delivered(d, got.from, at)
  BY DEF Udp!SendTo, Udp!ReplyPort
<1>2. /\ IsLine(got) /\ got \in Udp!Datagrams /\ got.from \in Ports
      /\ got.from \in Udp!AllPorts /\ got.who \in Clients /\ x # Server
      /\ x \in Udp!Procs \cup {Nobody} /\ d \in Udp!Datagrams
      /\ d.who = got.who /\ d.n = got.n /\ d.text = "upper" /\ d.from = ServPort
  BY UdpNames
  DEF UdpInv, UdpTypeOK, OnlyLines, IsLine, PortsAgree, Udp!SendTo, Udp!Datagrams
<1> HIDE DEF d
<1>3. /\ buf' \in [Udp!Procs -> Seq(Udp!Datagrams)]
      /\ \A y \in Udp!Procs : \/ buf'[y] = buf[y]
                              \/ y = x /\ buf'[y] = Append(buf[y], d)
  <2>1. /\ at \in [Udp!AllPorts -> Udp!Procs \cup {Nobody}]
        /\ buf \in [Udp!Procs -> Seq(Udp!Datagrams)] /\ Nobody \notin Udp!Procs
    BY UdpNames DEF UdpInv, UdpTypeOK
  <2>2. d \in Udp!Datagrams /\ got.from \in Udp!AllPorts
    BY <1>2
  <2>3. /\ Udp!Delivered(d, got.from, at) \in [Udp!Procs -> Seq(Udp!Datagrams)]
        /\ \A y \in Udp!Procs :
              \/ Udp!Delivered(d, got.from, at)[y] = buf[y]
              \/ y = x /\ Udp!Delivered(d, got.from, at)[y] = Append(buf[y], d)
    BY <2>1, <2>2, UdpDelivered
  <2> QED
    BY <1>1, <2>3
<1>4. buf'[Server] = buf[Server]
  BY <1>2, <1>3, UdpNames
<1>5. UdpTypeOK'
  BY <1>1, <1>3 DEF UdpInv, UdpTypeOK
<1>6. PortsAgree'
  BY <1>1 DEF UdpInv, PortsAgree
<1>7. OnlyLines'
  BY <1>1, <1>4 DEF UdpInv, OnlyLines, IsLine
<1>8. ASSUME NEW c \in Clients, c = x  PROVE port[c] = got.from
  BY <1>2, <1>8 DEF UdpInv, PortsAgree
<1>9. ASSUME NEW c \in Clients  PROVE NoTrace(c)'
  <2>1. Unknown(c) => c # x
    BY <1>2, <1>8, UdpNames DEF Unknown
  <2> QED
    BY <1>1, <1>3, <1>4, <2>1, UdpNames DEF UdpInv, NoTrace, Unknown
<1>10. ASSUME NEW c \in Clients  PROVE OneOnItsWay(c)'
  <2>1. CASE buf'[c] = buf[c]
    BY <1>1, <1>4, <2>1, UdpNames, UdpOthers DEF UdpInv, Udp!FreshPort
  <2>2. CASE buf'[c] # buf[c]
    <3> SUFFICES ASSUME Udp!FreshPort(c)'
                 PROVE  OneOnItsWay(c)'
      BY DEF OneOnItsWay
    <3>1. Udp!FreshPort(c) /\ c = x /\ buf'[c] = Append(buf[c], d)
      BY <1>1, <1>3, <2>2, UdpNames DEF Udp!FreshPort
    <3>2. got.who = c
      BY <1>2, <1>8, <3>1 DEF Udp!FreshPort, IsLine
    <3>3. /\ got = Udp!Line(c, asked[c], port[c]) /\ cl[c] = "waiting" /\ buf[c] = <<>>
          /\ \A i \in 1 .. Len(buf[Server]) : buf[Server][i].who # c
      BY <3>1, <3>2 DEF UdpInv, OneOnItsWay
    <3>4. d = AnswerTo(c)
      <4> DEFINE a == [who |-> c, n |-> asked[c], text |-> "upper", from |-> ServPort]
      <4>1. d = a
        BY <1>2, <3>3 DEF Udp!Line, Udp!Datagrams
      <4>2. AnswerTo(c) = a
        BY DEF AnswerTo, Udp!Line
      <4> QED
        BY <4>1, <4>2
    <3>5. buf'[c] = <<AnswerTo(c)>>
      <4>1. Append(<<>>, d) = <<d>>
        BY <1>2
      <4> QED
        BY <3>1, <3>3, <3>4, <4>1
    <3>6. AnswerTo(c)' = AnswerTo(c)
      BY <1>1 DEF AnswerTo
    <3> QED
      BY <1>1, <1>4, <3>3, <3>5, <3>6, UdpNames DEF OneOnItsWay
  <2> QED
    BY <2>1, <2>2
<1> QED
  BY <1>5, <1>6, <1>7, <1>9, <1>10 DEF UdpInv

LEMMA UdpStartClient ==
    ASSUME Udp!ProcsAssumption, Udp!PortsAssumption, UdpInv,
           NEW c \in Clients, Udp!StartClient(c)
    PROVE  UdpInv'
<1>1. /\ UNCHANGED <<srv, got, asked, buf>> /\ cl[c] = "off"
      /\ cl' = [cl EXCEPT ![c] = "ready"]
  BY DEF Udp!StartClient
<1>2. \/ /\ at[ServPort] = Nobody /\ port' = [port EXCEPT ![c] = ServPort]
         /\ at' = [at EXCEPT ![ServPort] = c]
         /\ former' = [former EXCEPT ![ServPort] = former[ServPort] \cup {c}]
      \/ port' = [port EXCEPT ![c] = NoPort] /\ at' = at /\ former' = former
  <2>1. CASE at[ServPort] = Nobody
    BY <2>1 DEF Udp!StartClient, Udp!BoundPort
  <2>2. CASE at[ServPort] # Nobody
    <3>1. Udp!BoundPort = NoPort /\ NoPort # ServPort
      BY <2>2, UdpNames DEF Udp!BoundPort
    <3> QED
      BY <3>1 DEF Udp!StartClient
  <2> QED
    BY <2>1, <2>2
<1>3. UdpTypeOK'
  <2>1. /\ srv' \in {"down", "recv", "send"}
        /\ got' \in Udp!Datagrams \cup {Udp!Nothing}
        /\ cl' \in [Clients -> {"off", "ready", "waiting", "gone"}]
        /\ asked' \in [Clients -> Nat] /\ buf' \in [Udp!Procs -> Seq(Udp!Datagrams)]
    BY <1>1 DEF UdpInv, UdpTypeOK
  <2>2. /\ port \in [Clients -> Udp!AllPorts \cup {NoPort}]
        /\ at \in [Udp!AllPorts -> Udp!Procs \cup {Nobody}]
        /\ former \in [Udp!AllPorts -> SUBSET Clients]
        /\ former[ServPort] \cup {c} \in SUBSET Clients
    BY UdpNames DEF UdpInv, UdpTypeOK
  <2>3. port' \in [Clients -> Udp!AllPorts \cup {NoPort}]
    BY <1>2, <2>2, UdpNames
  <2>4. at' \in [Udp!AllPorts -> Udp!Procs \cup {Nobody}]
    BY <1>2, <2>2, UdpNames
  <2>5. former' \in [Udp!AllPorts -> SUBSET Clients]
    BY <1>2, <2>2
  <2> QED
    BY <2>1, <2>3, <2>4, <2>5 DEF UdpTypeOK
<1>4. /\ cl'[c] = "ready"
      /\ \A d \in Clients \ {c} : port'[d] = port[d] /\ cl'[d] = cl[d]
      /\ \A p \in Udp!AllPorts \ {ServPort} : at'[p] = at[p] /\ former'[p] = former[p]
      /\ \/ /\ port'[c] = ServPort /\ at[ServPort] = Nobody /\ at'[ServPort] = c
            /\ former'[ServPort] = former[ServPort] \cup {c}
         \/ /\ port'[c] = NoPort /\ at'[ServPort] = at[ServPort]
            /\ former'[ServPort] = former[ServPort]
  BY <1>1, <1>2, UdpNames DEF UdpInv, UdpTypeOK
<1>5. PortsAgree'
  <2>1. port[c] = NoPort /\ \A p \in Udp!AllPorts : at[p] # c
    BY <1>1, UdpNames DEF UdpInv, PortsAgree
  <2>2. CASE port'[c] = ServPort
    <3>1. \A d \in Clients : port[d] # NoPort => port[d] \in Udp!AllPorts \ {ServPort}
      BY <1>4, <2>2, UdpNames DEF UdpInv, UdpTypeOK, PortsAgree
    <3> QED
      BY <1>4, <2>1, <2>2, <3>1, UdpNames DEF UdpInv, PortsAgree
  <2>3. CASE port'[c] = NoPort
    <3>1. \A d \in Clients : port'[d] = port[d]
      BY <1>4, <2>1, <2>3
    <3>2. \A p \in Udp!AllPorts : at'[p] = at[p]
      BY <1>4, <2>3, UdpNames
    <3> QED
      BY <1>4, <3>1, <3>2, UdpNames DEF UdpInv, UdpTypeOK, PortsAgree
  <2> QED
    BY <1>4, <2>2, <2>3
<1>7. OnlyLines'
  <2>1. ASSUME NEW e, IsLine(e)  PROVE IsLine(e)'
    BY <1>4, <2>1, UdpNames DEF IsLine
  <2> QED
    BY <1>1, <2>1 DEF UdpInv, OnlyLines
<1>8. ASSUME NEW d \in Clients  PROVE NoTrace(d)'
  <2>1. Unknown(d)' => /\ Unknown(d)
                       /\ \A p \in Udp!AllPorts : d \in former'[p] => d \in former[p]
    BY <1>1, <1>4, UdpNames DEF UdpInv, PortsAgree, Unknown
  <2> QED
    BY <1>1, <2>1 DEF UdpInv, NoTrace
<1>6. ASSUME NEW d \in Clients  PROVE OneOnItsWay(d)'
  <2>1. Udp!FreshPort(d)' => d # c /\ Udp!FreshPort(d)
    BY <1>4, UdpNames DEF Udp!FreshPort
  <2>2. CASE d = c
    BY <2>1, <2>2 DEF OneOnItsWay
  <2>3. CASE d # c
    <3>1. cl'[d] = cl[d] /\ port'[d] = port[d]
      BY <1>4, <2>3
    <3> QED
      BY <1>1, <2>1, <3>1, UdpOthers DEF UdpInv
  <2> QED
    BY <2>2, <2>3
<1> QED
  BY <1>3, <1>5, <1>6, <1>7, <1>8 DEF UdpInv

LEMMA UdpSend ==
    ASSUME Udp!ProcsAssumption, Udp!PortsAssumption, UdpInv,
           NEW c \in Clients, Udp!Send(c)
    PROVE  UdpInv'
<1>1. /\ UNCHANGED <<srv, got>> /\ cl[c] = "ready"
      /\ cl' = [cl EXCEPT ![c] = "waiting"]
      /\ asked' = [asked EXCEPT ![c] = asked[c] + 1]
  BY DEF Udp!Send, Udp!AfterSend
<1>2. PICK p \in Udp!AllPorts :
        /\ \/ p = port[c]
           \/ port[c] = NoPort /\ p \in Ports /\ at[p] = Nobody
        /\ port' = [port EXCEPT ![c] = p]
        /\ at' = [at EXCEPT ![p] = c]
        /\ former' = [former EXCEPT ![p] = former[p] \cup {c}]
        /\ buf' = Udp!Delivered(Udp!Line(c, asked[c] + 1, p), ServPort, at')
  BY DEF Udp!Send
<1>3. PICK m : m = Udp!Line(c, asked[c] + 1, p)
  OBVIOUS
<1>4. /\ m \in Udp!Datagrams /\ asked[c] + 1 \in Nat /\ m.who = c /\ m.from = p
      /\ m = Udp!Line(m.who, m.n, m.from)
      /\ at' \in [Udp!AllPorts -> Udp!Procs \cup {Nobody}]
  BY <1>2, <1>3, UdpNames DEF UdpInv, UdpTypeOK, Udp!Line, Udp!Datagrams
<1>5. /\ buf' \in [Udp!Procs -> Seq(Udp!Datagrams)]
      /\ \A y \in Udp!Procs : \/ buf'[y] = buf[y]
                              \/ y = at'[ServPort] /\ buf'[y] = Append(buf[y], m)
  <2>1. /\ ServPort \in Udp!AllPorts /\ Nobody \notin Udp!Procs
        /\ buf \in [Udp!Procs -> Seq(Udp!Datagrams)]
        /\ buf' = Udp!Delivered(m, ServPort, at')
    BY <1>2, <1>3, UdpNames DEF UdpInv, UdpTypeOK
  <2>2. /\ Udp!Delivered(m, ServPort, at') \in [Udp!Procs -> Seq(Udp!Datagrams)]
        /\ \A y \in Udp!Procs :
              \/ Udp!Delivered(m, ServPort, at')[y] = buf[y]
              \/ /\ y = at'[ServPort]
                 /\ Udp!Delivered(m, ServPort, at')[y] = Append(buf[y], m)
    BY <1>4, <2>1, UdpDelivered
  <2> QED
    BY <2>1, <2>2
<1>6. UdpTypeOK'
  <2>1. /\ srv' \in {"down", "recv", "send"}
        /\ got' \in Udp!Datagrams \cup {Udp!Nothing}
        /\ cl' \in [Clients -> {"off", "ready", "waiting", "gone"}]
        /\ asked' \in [Clients -> Nat]
    BY <1>1, <1>4 DEF UdpInv, UdpTypeOK
  <2>2. /\ port' \in [Clients -> Udp!AllPorts \cup {NoPort}]
        /\ former' \in [Udp!AllPorts -> SUBSET Clients]
    BY <1>2 DEF UdpInv, UdpTypeOK
  <2> QED
    BY <1>4, <1>5, <2>1, <2>2 DEF UdpTypeOK
<1>8. /\ \A r \in Udp!AllPorts : former[r] \subseteq former'[r]
      /\ c \in former'[p]
      /\ \A r \in Udp!AllPorts, d \in Clients \ {c} :
            d \in former'[r] => d \in former[r]
  BY <1>2 DEF UdpInv, UdpTypeOK
<1>7. PortsAgree'
  <2>1. /\ port'[c] = p /\ p # NoPort /\ cl'[c] = "waiting" /\ at'[p] = c
        /\ \A d \in Clients \ {c} : port'[d] = port[d] /\ cl'[d] = cl[d]
        /\ \A r \in Udp!AllPorts \ {p} : at'[r] = at[r]
    BY <1>1, <1>2, UdpNames DEF UdpInv, UdpTypeOK
  <2>2. ASSUME NEW d \in Clients \ {c}, port[d] # NoPort  PROVE port[d] # p
    BY <1>2, <2>2, UdpNames DEF UdpInv, PortsAgree
  <2>3. ASSUME NEW r \in Udp!AllPorts \ {p}, at[r] \in Clients  PROVE at[r] # c
    BY <1>2, <2>3, UdpNames DEF UdpInv, PortsAgree
  <2>4. /\ \A d \in Clients \ {c} : port'[d] # NoPort => at'[port'[d]] = d
        /\ \A r \in Udp!AllPorts \ {p} : at'[r] \in Clients => port'[at'[r]] = r
    BY <2>1, <2>2, <2>3, UdpNames DEF UdpInv, UdpTypeOK, PortsAgree
  <2>5. \A d \in Clients \ {c} : port'[d] # NoPort => d \in former'[port'[d]]
    BY <1>8, <2>1, UdpNames DEF UdpInv, UdpTypeOK, PortsAgree
  <2> QED
    BY <1>8, <2>1, <2>4, <2>5, UdpNames DEF UdpInv, PortsAgree
<1>9. \/ buf'[Server] = buf[Server]
      \/ at'[ServPort] = Server /\ buf'[Server] = Append(buf[Server], m)
  BY <1>5, UdpNames
<1>10. at'[ServPort] = Server => p \in Ports
  BY <1>2, UdpNames DEF UdpInv, UdpTypeOK, Udp!AllPorts
<1>11. /\ Len(buf[Server]) \in Nat
       /\ \A i \in 1 .. Len(buf'[Server]) :
             \/ i \in 1 .. Len(buf[Server]) /\ buf'[Server][i] = buf[Server][i]
             \/ /\ i = Len(buf[Server]) + 1 /\ buf'[Server][i] = m
                /\ at'[ServPort] = Server
  <2>1. buf[Server] \in Seq(Udp!Datagrams) /\ Len(buf[Server]) \in Nat
    BY UdpNames, LenProperties DEF UdpInv, UdpTypeOK
  <2>2. CASE buf'[Server] = buf[Server]
    BY <2>1, <2>2
  <2>3. CASE at'[ServPort] = Server /\ buf'[Server] = Append(buf[Server], m)
    <3>1. /\ Len(buf'[Server]) = Len(buf[Server]) + 1
          /\ buf'[Server][Len(buf[Server]) + 1] = m
          /\ \A i \in 1 .. Len(buf[Server]) : buf'[Server][i] = buf[Server][i]
      BY <1>4, <2>1, <2>3, AppendProperties
    <3> QED
      BY <2>1, <2>3, <3>1
  <2> QED
    BY <1>9, <2>2, <2>3
<1>12. OnlyLines'
  <2>1. ASSUME NEW e, IsLine(e)  PROVE IsLine(e)'
    BY <1>8, <2>1, UdpNames DEF IsLine
  <2>2. p \in Ports => IsLine(m)'
    BY <1>4, <1>8 DEF IsLine
  <2>4. ASSUME NEW i \in 1 .. Len(buf'[Server]), NEW e, e = buf'[Server][i]
        PROVE  IsLine(e)'
    BY <1>10, <1>11, <2>1, <2>2, <2>4 DEF UdpInv, OnlyLines
  <2>5. ASSUME NEW e, e = got, srv = "send"  PROVE IsLine(e)'
    BY <2>1, <2>5 DEF UdpInv, OnlyLines
  <2> QED
    BY <1>1, <2>4, <2>5 DEF OnlyLines, IsLine
<1>13. ASSUME NEW d \in Clients, d # c  PROVE NoTrace(d)' /\ OneOnItsWay(d)'
  <2>1. /\ cl'[d] = cl[d] /\ asked'[d] = asked[d] /\ port'[d] = port[d]
    BY <1>1, <1>2, <1>13 DEF UdpInv, UdpTypeOK
  <2>2. \A i \in 1 .. Len(buf'[Server]) : buf'[Server][i].who = d =>
            i \in 1 .. Len(buf[Server]) /\ buf'[Server][i] = buf[Server][i]
    BY <1>4, <1>11, <1>13
  <2>3. buf'[d] = buf[d] \/ port[d] = ServPort
    <3>1. at'[ServPort] = d => port[d] = ServPort
      BY <1>7, <2>1, UdpNames DEF PortsAgree
    <3>2. buf'[d] = buf[d] \/ d = at'[ServPort]
      BY <1>5, UdpNames
    <3> QED
      BY <3>1, <3>2
  <2>4. CASE Unknown(d)
    <3>1. NoTrace(d)'
      BY <1>1, <1>8, <2>1, <2>2, <2>3, <2>4, <1>13, UdpNames
      DEF UdpInv, NoTrace, Unknown
    <3> QED
      BY <2>1, <2>4, <3>1, UdpNames DEF Unknown, OneOnItsWay, Udp!FreshPort
  <2>5. CASE ~Unknown(d)
    <3>1. NoTrace(d)'
      BY <2>1, <2>5 DEF NoTrace, Unknown
    <3>2. Udp!FreshPort(d)' => Udp!FreshPort(d) /\ buf'[d] = buf[d]
      <4> SUFFICES ASSUME Udp!FreshPort(d)'
                   PROVE  Udp!FreshPort(d) /\ buf'[d] = buf[d]
        OBVIOUS
      <4>1. port[d] \in Ports /\ port[d] \in Udp!AllPorts /\ buf'[d] = buf[d]
        BY <2>1, <2>3, UdpNames DEF Udp!FreshPort
      <4>2. port[d] # p
        BY <1>2, <1>13, <4>1, UdpNames DEF UdpInv, PortsAgree
      <4> QED
        BY <1>2, <2>1, <4>1, <4>2 DEF Udp!FreshPort, UdpInv, UdpTypeOK
    <3>3. ASSUME Udp!FreshPort(d)'  PROVE OneOnItsWay(d)'
      <4>1. OneOnItsWay(d) /\ Udp!FreshPort(d) /\ buf'[d] = buf[d] /\ got' = got
        BY <1>1, <3>2, <3>3 DEF UdpInv
      <4> QED
        BY <2>1, <2>2, <4>1, UdpOthers
    <3> QED
      BY <3>1, <3>3 DEF OneOnItsWay
  <2> QED
    BY <2>4, <2>5
<1>14. NoTrace(c)'
  BY <1>1 DEF UdpInv, UdpTypeOK, NoTrace, Unknown
<1>15. OneOnItsWay(c)'
  <2> SUFFICES ASSUME Udp!FreshPort(c)'
               PROVE  OneOnItsWay(c)'
    BY DEF OneOnItsWay
  <2>1. /\ port'[c] = p /\ p \in Ports /\ cl'[c] = "waiting"
        /\ asked'[c] = asked[c] + 1
    BY <1>1, <1>2 DEF UdpInv, UdpTypeOK, Udp!FreshPort
  <2>2. /\ \A i \in 1 .. Len(buf[Server]) : buf[Server][i].who # c
        /\ got.who # c /\ buf[c] = <<>>
    <3>1. CASE port[c] = NoPort
      BY <1>1, <3>1 DEF UdpInv, NoTrace, Unknown
    <3>2. CASE port[c] # NoPort
      <4>1. p = port[c] /\ former'[p] = former[p]
        BY <1>2, <2>1, <3>2 DEF UdpInv, UdpTypeOK, PortsAgree
      <4> QED
        BY <1>1, <2>1, <4>1 DEF UdpInv, OneOnItsWay, Udp!FreshPort
    <3> QED
      BY <3>1, <3>2
  <2>3. buf'[c] = buf[c]
    <3>1. at'[ServPort] # c
      BY <1>2, <1>7, <2>1, UdpNames DEF PortsAgree
    <3> QED
      BY <1>5, <3>1, UdpNames
  <2>4. \A i \in 1 .. Len(buf'[Server]) : buf'[Server][i].who = c =>
            i = Len(buf[Server]) + 1 /\ buf'[Server][i] = m
    BY <1>11, <2>2
  <2> QED
    BY <1>1, <1>3, <2>1, <2>2, <2>3, <2>4 DEF OneOnItsWay
<1> QED
  BY <1>6, <1>7, <1>12, <1>13, <1>14, <1>15 DEF UdpInv

LEMMA UdpReceive ==
    ASSUME Udp!ProcsAssumption, Udp!PortsAssumption, UdpInv,
           NEW c \in Clients, Udp!Receive(c)
    PROVE  UdpInv'
<1>1. /\ UNCHANGED <<srv, got, asked, port, at, former>> /\ cl[c] = "waiting"
      /\ buf[c] # <<>> /\ buf[c] \in Seq(Udp!Datagrams)
      /\ buf' = [buf EXCEPT ![c] = Tail(@)] /\ cl' = [cl EXCEPT ![c] = "ready"]
  BY UdpNames DEF UdpInv, UdpTypeOK, Udp!Receive
<1>2. /\ Tail(buf[c]) \in Seq(Udp!Datagrams) /\ buf'[Server] = buf[Server]
      /\ buf'[c] = Tail(buf[c])
      /\ \A d \in Clients \ {c} : buf'[d] = buf[d] /\ cl'[d] = cl[d]
  BY <1>1, UdpNames, HeadTailProperties DEF UdpInv, UdpTypeOK
<1>3. UdpTypeOK'
  BY <1>1, <1>2 DEF UdpInv, UdpTypeOK
<1>4. PortsAgree'
  BY <1>1 DEF UdpInv, UdpTypeOK, PortsAgree
<1>5. OnlyLines'
  BY <1>1, <1>2 DEF UdpInv, OnlyLines, IsLine
<1>6. ASSUME NEW d \in Clients, d # c  PROVE NoTrace(d)' /\ OneOnItsWay(d)'
  <2>1. NoTrace(d) /\ OneOnItsWay(d) /\ cl'[d] = cl[d] /\ buf'[d] = buf[d]
    BY <1>2, <1>6 DEF UdpInv
  <2>2. NoTrace(d)'
    BY <1>1, <1>2, <2>1 DEF NoTrace, Unknown
  <2>3. Udp!FreshPort(d)' => Udp!FreshPort(d)
    BY <1>1 DEF Udp!FreshPort
  <2> QED
    BY <1>1, <1>2, <2>1, <2>2, <2>3, UdpOthers
<1>7. NoTrace(c)'
  BY <1>1 DEF UdpInv, PortsAgree, NoTrace, Unknown
<1>8. OneOnItsWay(c)'
  <2> SUFFICES ASSUME Udp!FreshPort(c)'
               PROVE  OneOnItsWay(c)'
    BY DEF OneOnItsWay
  <2>1. Udp!FreshPort(c) /\ buf[c] = <<AnswerTo(c)>>
    BY <1>1 DEF Udp!FreshPort, UdpInv, OneOnItsWay
  <2>2. buf'[c] = <<>>
    BY <1>2, <2>1
  <2> QED
    BY <1>1, <1>2, <2>1, <2>2 DEF UdpInv, OneOnItsWay
<1> QED
  BY <1>3, <1>4, <1>5, <1>6, <1>7, <1>8 DEF UdpInv

LEMMA UdpLeave ==
    ASSUME Udp!ProcsAssumption, Udp!PortsAssumption, UdpInv,
           NEW c \in Clients, Udp!Leave(c)
    PROVE  UdpInv'
<1>1. /\ UNCHANGED <<srv, got, asked, former>>
      /\ cl' = [cl EXCEPT ![c] = "gone"] /\ port' = [port EXCEPT ![c] = NoPort]
      /\ at' = [p \in Udp!AllPorts |-> IF at[p] = c THEN Nobody ELSE at[p]]
      /\ buf' = [buf EXCEPT ![c] = <<>>]
  BY DEF Udp!Leave
<1>2. /\ <<>> \in Seq(Udp!Datagrams) /\ buf'[Server] = buf[Server]
      /\ \A d \in Clients \ {c} :
            buf'[d] = buf[d] /\ cl'[d] = cl[d] /\ port'[d] = port[d]
  BY <1>1, UdpNames, EmptySeq DEF UdpInv, UdpTypeOK
<1>3. UdpTypeOK'
  BY <1>1, <1>2 DEF UdpInv, UdpTypeOK
<1>4. PortsAgree'
  BY <1>1, UdpNames DEF UdpInv, UdpTypeOK, PortsAgree
<1>5. OnlyLines'
  BY <1>1, <1>2 DEF UdpInv, OnlyLines, IsLine
<1>6. ASSUME NEW d \in Clients, d # c  PROVE NoTrace(d)' /\ OneOnItsWay(d)'
  BY <1>1, <1>2, <1>6, UdpOthers DEF UdpInv, NoTrace, Unknown, Udp!FreshPort
<1>7. NoTrace(c)' /\ OneOnItsWay(c)'
  BY <1>1, UdpNames DEF UdpInv, UdpTypeOK, NoTrace, Unknown, OneOnItsWay, Udp!FreshPort
<1> QED
  BY <1>3, <1>4, <1>5, <1>6, <1>7 DEF UdpInv

LEMMA UdpNext ==
    ASSUME Udp!ProcsAssumption, Udp!PortsAssumption, UdpInv, [Udp!Next]_(Udp!vars)
    PROVE  UdpInv'
<1>1. CASE UNCHANGED Udp!vars
  BY <1>1 DEF Udp!vars, UdpInv, UdpTypeOK, PortsAgree, OnlyLines, IsLine, NoTrace,
              Unknown, OneOnItsWay, Udp!FreshPort, AnswerTo
<1>2. CASE Udp!Next
  BY <1>2, UdpStartServer, UdpRecvFrom, UdpSendTo, UdpKillServer,
     UdpStartClient, UdpSend, UdpReceive, UdpLeave
  DEF Udp!Next, Udp!ServerStep, Udp!ClientStep
<1> QED
  BY <1>1, <1>2

\* The instance counts as FiniteSets does.
LEMMA UdpCardinality ==
    ASSUME NEW S
    PROVE  Udp!Cardinality(S) = Cardinality(S)
  BY DEF Udp!Cardinality, Cardinality

\* At most one datagram counts, wherever it is.
LEMMA UdpCounted ==
    ASSUME Udp!ProcsAssumption, Udp!PortsAssumption, UdpInv,
           NEW c \in Clients, Udp!FreshPort(c)
    PROVE  Udp!Cardinality(Udp!ToServer(c)) + Udp!Cardinality(Udp!Held(c)) + Len(buf[c])
               <= (IF cl[c] = "waiting" THEN 1 ELSE 0)
<1>1. OneOnItsWay(c)
  BY DEF UdpInv
<1>2. Udp!Cardinality({}) = 0 /\ \A e : Udp!Cardinality({e}) = 1
  BY FS_EmptySet, FS_Singleton, UdpCardinality
<1>3. CASE Udp!ToServer(c) # {}
  <2>1. PICK i \in 1 .. Len(buf[Server]) : buf[Server][i].who = c
    BY <1>3 DEF Udp!ToServer
  <2>2. /\ Udp!ToServer(c) = {i} /\ Udp!Held(c) = {}
        /\ Len(buf[c]) = 0 /\ cl[c] = "waiting"
    BY <1>1, <2>1 DEF OneOnItsWay, Udp!ToServer, Udp!Held
  <2>3. Udp!Cardinality({i}) = 1
    BY <1>2
  <2> QED
    BY <1>2, <2>2, <2>3
<1>4. CASE Udp!ToServer(c) = {} /\ Udp!Held(c) # {}
  <2>1. Udp!Held(c) = {0} /\ Len(buf[c]) = 0 /\ cl[c] = "waiting"
    BY <1>1, <1>4 DEF OneOnItsWay, Udp!Held
  <2>2. Udp!Cardinality({0}) = 1
    BY <1>2
  <2> QED
    BY <1>2, <1>4, <2>1, <2>2
<1>5. CASE Udp!ToServer(c) = {} /\ Udp!Held(c) = {}
  <2>1. CASE buf[c] = <<>>
    <3>1. Len(buf[c]) = 0
      BY <2>1
    <3>2. Udp!Cardinality(Udp!ToServer(c)) = 0 /\ Udp!Cardinality(Udp!Held(c)) = 0
      BY <1>2, <1>5
    <3> QED
      BY <3>1, <3>2
  <2>2. CASE buf[c] # <<>>
    <3>1. buf[c] = <<AnswerTo(c)>> /\ cl[c] = "waiting"
      BY <1>1, <2>2 DEF OneOnItsWay
    <3>2. Len(buf[c]) = 1
      BY <3>1
    <3>3. Udp!Cardinality(Udp!ToServer(c)) = 0 /\ Udp!Cardinality(Udp!Held(c)) = 0
      BY <1>2, <1>5
    <3> QED
      BY <3>1, <3>2, <3>3
  <2> QED
    BY <2>1, <2>2
<1> QED
  BY <1>3, <1>4, <1>5

\* At most one datagram is on its way about a client on a fresh port, and it is
\* the client's last line or the answer to it, although lines and answers are
\* lost, servers restart and ports change hands (udp-client.c, 34 and 39).
THEOREM UdpAnswerIsOwn ==
    ASSUME Udp!ProcsAssumption, Udp!PortsAssumption
    PROVE  Udp!Spec => []Udp!AnswerIsOwn
<1>1. Udp!Init => UdpInv
  BY UdpInit
<1>2. UdpInv /\ [Udp!Next]_(Udp!vars) => UdpInv'
  BY UdpNext
<1>3. UdpInv => Udp!AnswerIsOwn
  <2> SUFFICES ASSUME UdpInv, NEW c \in Clients, Udp!FreshPort(c)
               PROVE  /\ \A i \in Udp!ToServer(c) :
                            buf[Server][i] = Udp!Line(c, asked[c], port[c])
                      /\ Udp!Held(c) # {} => got = Udp!Line(c, asked[c], port[c])
                      /\ \A i \in Udp!ToClient(c) : buf[c][i] = AnswerTo(c)
    BY UdpCounted DEF Udp!AnswerIsOwn, AnswerTo
  <2>1. OneOnItsWay(c)
    BY DEF UdpInv
  <2> QED
    BY <2>1 DEF OneOnItsWay, Udp!ToServer, Udp!Held, Udp!ToClient
<1> QED
  BY <1>1, <1>2, <1>3, PTL DEF Udp!Spec

-----------------------------------------------------------------------------
(* The TCP echo.                                                           *)

Asked == [line : Nat, len : Nat]

GoTypeOK ==
    /\ srv \in {"accept", "read", "write", "close", "down"}
    /\ conn \in Clients \cup {NoOne}
    /\ got \in Seq(Nat)
    /\ queue \in Seq(Clients)
    /\ cl \in [Clients -> {"off", "typing", "waiting", "gone"}]
    /\ asked \in [Clients -> Asked]
    /\ long \in SUBSET Clients
    /\ up \in [Clients -> Seq(Nat)]
    /\ down \in [Clients -> Seq(Nat)]
    /\ shown \in [Clients -> Seq(Nat)]

\* The server has a client while it reads, answers and closes, and only then;
\* nobody is in the queue or served before he has dialled.
Turn ==
    /\ srv \in {"read", "write", "close"} <=> conn # NoOne
    /\ conn # NoOne => cl[conn] # "off"
    /\ \A k \in 1 .. Len(queue) : cl[queue[k]] # "off"

\* The line a client has asked last, what the server takes of it and answers.
Whole(p) == Go!Line(p.line, p.len)
Cut(p)   == Go!Line(p.line, Go!Least(p.len, BufLen))
Reply(p) == Go!Answer(Cut(p))

\* The server is about to answer c.
Answering(c) == srv = "write" /\ conn = c

\* Between two lines nothing of c is on its way, in the server or buffered
\* anywhere; while c waits it is one piece, in one place.
Quiet(c) == up[c] = <<>> /\ down[c] = <<>> /\ ~Answering(c)

OnePiece(c) ==
    \/ Quiet(c)
    \/ up[c] = Whole(asked[c]) /\ down[c] = <<>> /\ ~Answering(c)
    \/ up[c] = <<>> /\ down[c] = <<>> /\ Answering(c) /\ got = Cut(asked[c])
    \/ up[c] = <<>> /\ down[c] = Reply(asked[c]) /\ ~Answering(c)

\* So it is with a client whose lines a reader can take.
InStep(c) ==
    /\ asked[c].len <= ReaderLen
    /\ cl[c] = "typing" => /\ Quiet(c)
                           /\ asked[c].line > 0 => shown[c] = Reply(asked[c])
    /\ cl[c] = "waiting" => OnePiece(c)

StreamOf(c) ==
    /\ cl[c] = "off" => Quiet(c) /\ asked[c] = Go!Nothing
    /\ cl[c] = "gone" => down[c] = <<>>
    /\ c \notin long => InStep(c)

\* Only a longer line makes a client one of those that are not in step.
OnlyLong == long # {} => \E k \in Lengths : k > ReaderLen

GoInv == GoTypeOK /\ Turn /\ OnlyLong /\ \A c \in Clients : StreamOf(c)

-----------------------------------------------------------------------------
LEMMA GoLines ==
    ASSUME Go!LengthAssumption, NEW n \in Nat, NEW k \in Nat
    PROVE  /\ Go!Line(n, k) \in Seq(Nat) /\ Len(Go!Line(n, k)) = k
           /\ \A i \in 1 .. k : Go!Line(n, k)[i] = n
           /\ Go!Least(k, BufLen) \in Nat /\ Go!Least(k, BufLen) <= k
           /\ Go!Least(k, BufLen) <= BufLen
<1>1. Go!Line(n, k) \in [1 .. k -> Nat]
  BY DEF Go!Line
<1>2. Go!Line(n, k) \in Seq(Nat) /\ Len(Go!Line(n, k)) = k
  BY <1>1
<1> QED  BY <1>2 DEF Go!Line, Go!LengthAssumption, Go!Least

LEMMA GoAnswers ==
    ASSUME NEW s \in Seq(Nat)
    PROVE  Go!Answer(s) \in Seq(Nat) /\ Len(Go!Answer(s)) = Len(s) + 1
<1>1. <<0>> \in Seq(Nat) /\ Len(<<0>>) = 1
  OBVIOUS
<1> QED  BY <1>1, ConcatProperties DEF Go!Answer

\* A stream that an answer has been added to is not empty.
LEMMA GoLonger ==
    ASSUME NEW r \in Seq(Nat), NEW s \in Seq(Nat)
    PROVE  r \o Go!Answer(s) # <<>>
<1>1. /\ Go!Answer(s) \in Seq(Nat) /\ Len(Go!Answer(s)) = Len(s) + 1
      /\ Len(r) \in Nat /\ Len(s) \in Nat
  BY GoAnswers, LenProperties
<1>2. /\ r \o Go!Answer(s) \in Seq(Nat)
      /\ Len(r \o Go!Answer(s)) = Len(r) + Len(Go!Answer(s))
  BY <1>1, ConcatProperties
<1> QED  BY <1>1, <1>2, EmptySeq

\* The beginning of a stream, and what is left when it is taken.
LEMMA GoBeginning ==
    ASSUME NEW s \in Seq(Nat), NEW n \in Nat, n <= Len(s)
    PROVE  /\ SubSeq(s, 1, n) \in Seq(Nat) /\ Len(SubSeq(s, 1, n)) = n
           /\ \A i \in 1 .. n : SubSeq(s, 1, n)[i] = s[i]
           /\ SubSeq(s, n + 1, Len(s)) \in Seq(Nat)
           /\ n = Len(s) => SubSeq(s, n + 1, Len(s)) = <<>> /\ SubSeq(s, 1, n) = s
<1>1. Len(s) \in Nat /\ \A i \in 1 .. Len(s) : s[i] \in Nat
  BY ElementOfSeq, LenProperties
<1>2. /\ SubSeq(s, 1, n) \in Seq(Nat) /\ Len(SubSeq(s, 1, n)) = n
      /\ \A i \in 1 .. n : SubSeq(s, 1, n)[i] = s[i]
  BY <1>1, SubSeqProperties
<1>3. SubSeq(s, n + 1, Len(s)) \in Seq(Nat)
      /\ Len(SubSeq(s, n + 1, Len(s))) = IF n + 1 <= Len(s) THEN Len(s) - n ELSE 0
  BY <1>1, SubSeqProperties
<1>4. ASSUME n = Len(s)
      PROVE  SubSeq(s, n + 1, Len(s)) = <<>> /\ SubSeq(s, 1, n) = s
  <2>1. Len(SubSeq(s, n + 1, Len(s))) = 0
    BY <1>1, <1>3, <1>4
  <2> QED  BY <1>3, <1>4, <2>1, EmptySeq, SubSeqFull
<1> QED  BY <1>2, <1>3, <1>4

\* An action that leaves alone all that is about c but perhaps its turn.
LEMMA GoOthers ==
    ASSUME NEW c \in Clients, StreamOf(c), cl'[c] = cl[c], asked'[c] = asked[c],
           shown'[c] = shown[c], up'[c] = up[c], down'[c] = down[c],
           c \in long' <=> c \in long,
           Answering(c)' <=> Answering(c), Answering(c) => got' = got
    PROVE  StreamOf(c)'
<1>1. Whole(asked[c])' = Whole(asked[c]) /\ Cut(asked[c])' = Cut(asked[c])
      /\ Reply(asked[c])' = Reply(asked[c]) /\ Quiet(c)' = Quiet(c)
  BY DEF Whole, Cut, Reply, Quiet
<1>2. OnePiece(c) => OnePiece(c)'
  BY <1>1 DEF OnePiece
<1> QED  BY <1>1, <1>2 DEF StreamOf, InStep

LEMMA GoInit ==
    ASSUME Go!NoOneAssumption, Go!LengthAssumption, Go!Init
    PROVE  GoInv
<1>1. GoTypeOK
  BY EmptySeq DEF Go!Init, GoTypeOK, Go!Nothing, Asked
<1>2. Turn /\ OnlyLong
  BY DEF Go!Init, Turn, OnlyLong
<1>3. \A c \in Clients : StreamOf(c)
  BY DEF Go!Init, StreamOf, InStep, Quiet, Answering, Go!Nothing, Go!LengthAssumption
<1> QED
  BY <1>1, <1>2, <1>3 DEF GoInv

LEMMA GoAccept ==
    ASSUME Go!NoOneAssumption, GoInv, Go!Accept
    PROVE  GoInv'
<1>1. /\ Head(queue) \in Clients /\ Tail(queue) \in Seq(Clients)
      /\ Len(Tail(queue)) = Len(queue) - 1 /\ Len(queue) \in Nat \ {0}
      /\ Head(queue) = queue[1]
      /\ \A k \in 1 .. Len(queue) - 1 : Tail(queue)[k] = queue[k + 1]
  BY HeadTailProperties, EmptySeq DEF GoInv, GoTypeOK, Go!Accept
<1>2. GoTypeOK'
  BY <1>1 DEF GoInv, GoTypeOK, Go!Accept
<1>3. Turn'
  <2>1. 1 \in 1 .. Len(queue)
        /\ \A k \in 1 .. Len(queue) - 1 : k + 1 \in 1 .. Len(queue)
    BY <1>1
  <2>2. Head(queue) # NoOne
    BY <1>1 DEF Go!NoOneAssumption
  <2> QED
    BY <1>1, <2>1, <2>2 DEF GoInv, Turn, Go!Accept
<1>4. ASSUME NEW c \in Clients  PROVE StreamOf(c)'
  BY GoOthers DEF GoInv, Go!Accept, Answering
<1>5. OnlyLong'
  BY DEF GoInv, OnlyLong, Go!Accept
<1> QED
  BY <1>2, <1>3, <1>4, <1>5 DEF GoInv

LEMMA GoRead ==
    ASSUME Go!LengthAssumption, GoInv, Go!Read
    PROVE  GoInv'
<1> DEFINE s == up[conn]
           n == Go!Least(Len(s), ReaderLen)
<1>1. conn \in Clients /\ s \in Seq(Nat) /\ s # <<>> /\ Len(s) \in Nat
  BY DEF GoInv, GoTypeOK, Turn, Go!Read
<1>2. n \in Nat /\ n <= Len(s) /\ n <= ReaderLen
      /\ Go!Least(n, BufLen) \in Nat /\ Go!Least(n, BufLen) <= Len(s)
  BY <1>1 DEF Go!Least, Go!LengthAssumption
<1>3. /\ got' = SubSeq(s, 1, Go!Least(n, BufLen))
      /\ up' = [up EXCEPT ![conn] = SubSeq(s, n + 1, Len(s))]
      /\ srv = "read" /\ srv' = "write"
      /\ UNCHANGED <<conn, queue, cl, asked, long, down, shown>>
  BY DEF Go!Read, Go!Rest
<1>4. GoTypeOK'
  <2>1. got' \in Seq(Nat) /\ SubSeq(s, n + 1, Len(s)) \in Seq(Nat)
    BY <1>1, <1>2, <1>3, GoBeginning
  <2> QED  BY <1>3, <2>1 DEF GoInv, GoTypeOK
<1>5. Turn' /\ OnlyLong'
  BY <1>3 DEF GoInv, Turn, OnlyLong
<1>6. ASSUME NEW c \in Clients, c # conn  PROVE StreamOf(c)'
  BY <1>3, <1>6, GoOthers DEF GoInv, GoTypeOK, Answering
<1>7. StreamOf(conn)'
  <2>1. ~Answering(conn) /\ Answering(conn)' /\ up[conn] # <<>>
        /\ up'[conn] = SubSeq(s, n + 1, Len(s))
    BY <1>1, <1>3 DEF GoInv, GoTypeOK, Answering
  <2>2. cl[conn] # "off"
    BY <1>1, <1>3 DEF GoInv, Turn
  <2>3. ASSUME conn \notin long  PROVE InStep(conn)'
    <3>1. InStep(conn)
      BY <1>1, <2>3 DEF GoInv, StreamOf
    <3>2. cl[conn] # "typing"
      BY <2>1, <3>1 DEF InStep, Quiet
    <3>3. ASSUME cl[conn] = "waiting"  PROVE OnePiece(conn)'
      <4> DEFINE p == asked[conn]
      <4>1. s = Whole(p) /\ down[conn] = <<>>
        BY <2>1, <3>1, <3>3 DEF InStep, OnePiece, Quiet
      <4>2. p.line \in Nat /\ p.len \in Nat
        BY <1>1 DEF GoInv, GoTypeOK, Asked
      <4>3. Len(s) = p.len /\ p.len <= ReaderLen /\ \A i \in 1 .. p.len : s[i] = p.line
        <5>1. /\ Len(Whole(p)) = p.len
              /\ \A i \in 1 .. p.len : Whole(p)[i] = p.line
          BY <4>2, GoLines DEF Whole
        <5>2. p.len <= ReaderLen
          BY <3>1 DEF InStep
        <5> QED  BY <4>1, <5>1, <5>2
      <4>4. n = Len(s)
        BY <4>2, <4>3 DEF Go!Least, Go!LengthAssumption
      <4>5. up'[conn] = <<>>
        BY <1>1, <1>2, <2>1, <4>4, GoBeginning
      <4>6. got' = Cut(p)
        <5> DEFINE k == Go!Least(p.len, BufLen)
        <5>1. got' = SubSeq(s, 1, k)
          BY <1>3, <4>3, <4>4
        <5>2. k \in Nat /\ k <= p.len
          BY <4>2, GoLines
        <5>3. /\ Cut(p) \in Seq(Nat) /\ Len(Cut(p)) = k
              /\ \A i \in 1 .. k : Cut(p)[i] = p.line
          BY <4>2, <5>2, GoLines DEF Cut
        <5>4. /\ got' \in Seq(Nat) /\ Len(got') = k
              /\ \A i \in 1 .. k : got'[i] = s[i]
          BY <1>1, <4>3, <5>1, <5>2, GoBeginning
        <5>5. \A i \in 1 .. k : i \in 1 .. p.len
          BY <4>2, <5>2
        <5> HIDE DEF k
        <5>6. \A i \in 1 .. k : got'[i] = Cut(p)[i]
          BY <4>3, <5>3, <5>4, <5>5
        <5> QED  BY <5>3, <5>4, <5>6, SeqEqual
      <4>7. UNCHANGED <<asked, down>> /\ Cut(asked[conn])' = Cut(p)
        BY <1>3 DEF Cut
      <4> QED  BY <1>3, <2>1, <4>1, <4>5, <4>6, <4>7 DEF OnePiece
    <3> QED  BY <1>3, <3>1, <3>2, <3>3 DEF InStep
  <2> QED  BY <1>1, <1>3, <2>2, <2>3 DEF GoInv, StreamOf
<1> QED
  BY <1>3, <1>4, <1>5, <1>6, <1>7 DEF GoInv

LEMMA GoWrite ==
    ASSUME Go!LengthAssumption, GoInv, Go!Write
    PROVE  GoInv'
<1>1. /\ conn \in Clients /\ srv = "write" /\ srv' = "read" /\ got' = <<>>
      /\ down[conn] \in Seq(Nat) /\ got \in Seq(Nat)
      /\ UNCHANGED <<conn, queue, cl, asked, long, up, shown>>
  BY DEF GoInv, GoTypeOK, Turn, Go!Write
<1>2. down' = IF cl[conn] = "gone" THEN down
              ELSE [down EXCEPT ![conn] = down[conn] \o Go!Answer(got)]
  BY DEF Go!Write
<1>3. GoTypeOK'
  <2>1. down[conn] \o Go!Answer(got) \in Seq(Nat) /\ <<>> \in Seq(Nat)
    BY <1>1, GoAnswers, ConcatProperties, EmptySeq
  <2> QED  BY <1>1, <1>2, <2>1 DEF GoInv, GoTypeOK
<1>4. Turn' /\ OnlyLong'
  BY <1>1 DEF GoInv, Turn, OnlyLong
<1>5. ASSUME NEW c \in Clients, c # conn  PROVE StreamOf(c)'
  BY <1>1, <1>2, <1>5, GoOthers DEF GoInv, GoTypeOK, Answering
<1>6. StreamOf(conn)'
  <2>1. Answering(conn) /\ ~Answering(conn)'
    BY <1>1 DEF Answering
  <2>2. cl[conn] # "off" /\ (cl[conn] = "gone" => down' = down)
    BY <1>1, <1>2 DEF GoInv, Turn
  <2>3. ASSUME conn \notin long  PROVE InStep(conn)'
    <3>1. InStep(conn)
      BY <1>1, <2>3 DEF GoInv, StreamOf
    <3>2. cl[conn] # "typing"
      BY <2>1, <3>1 DEF InStep, Quiet
    <3>3. ASSUME cl[conn] = "waiting"  PROVE OnePiece(conn)'
      <4>1. up[conn] = <<>> /\ down[conn] = <<>> /\ got = Cut(asked[conn])
        BY <2>1, <3>1, <3>3 DEF InStep, OnePiece, Quiet
      <4>2. down'[conn] = <<>> \o Go!Answer(got)
        BY <1>1, <1>2, <3>3, <4>1 DEF GoInv, GoTypeOK
      <4>3. down'[conn] = Reply(asked[conn])
        BY <1>1, <4>1, <4>2, GoAnswers, ConcatEmptySeq DEF Reply
      <4>4. Reply(asked[conn])' = Reply(asked[conn]) /\ up' = up
        BY <1>1 DEF Reply, Cut
      <4> QED  BY <1>1, <2>1, <4>1, <4>3, <4>4 DEF OnePiece
    <3> QED  BY <1>1, <3>1, <3>2, <3>3 DEF InStep
  <2> QED  BY <1>1, <2>2, <2>3 DEF GoInv, StreamOf
<1> QED
  BY <1>1, <1>3, <1>4, <1>5, <1>6 DEF GoInv

LEMMA GoTurnEnds ==
    ASSUME Go!LengthAssumption, GoInv, Go!ReadFails \/ Go!Close \/ Go!Kill
    PROVE  GoInv'
<1>1. UNCHANGED <<cl, asked, long, up, down, shown>>
  BY DEF Go!ReadFails, Go!Close, Go!Kill
<1>2. GoTypeOK'
  BY <1>1, EmptySeq
  DEF GoInv, GoTypeOK, Go!ReadFails, Go!AfterError, Go!Close, Go!Kill
<1>3. Turn' /\ OnlyLong'
  BY <1>1 DEF GoInv, Turn, OnlyLong, Go!ReadFails, Go!AfterError, Go!Close, Go!Kill
<1>4. ASSUME NEW c \in Clients  PROVE StreamOf(c)'
  <2>1. Answering(c)' => Answering(c) /\ got' = got
    BY DEF Go!ReadFails, Go!AfterError, Go!Close, Go!Kill, Answering
  <2>2. Quiet(c) => Quiet(c)'
    BY <1>1, <2>1 DEF Quiet
  <2>3. OnePiece(c) => OnePiece(c)'
    BY <1>1, <2>1, <2>2 DEF OnePiece, Quiet, Whole, Cut, Reply
  <2>4. StreamOf(c) /\ Reply(asked[c])' = Reply(asked[c])
    BY <1>1 DEF GoInv, Reply, Cut
  <2> QED
    BY <1>1, <2>2, <2>3, <2>4 DEF StreamOf, InStep
<1> QED
  BY <1>2, <1>3, <1>4 DEF GoInv

LEMMA GoClient ==
    ASSUME Go!LengthAssumption, GoInv, NEW c \in Clients, Go!ClientStep(c)
    PROVE  GoInv'
<1>1. UNCHANGED <<srv, conn, got>>
  BY DEF Go!ClientStep, Go!Dial, Go!Send, Go!Receive, Go!ReceiveFails, Go!Leave, Go!Ends
<1> DEFINE m == asked[c].line + 1
           sent(k) == /\ asked' = [asked EXCEPT ![c] = [line |-> m, len |-> k]]
                      /\ up' = IF srv = "down" THEN up
                               ELSE [up EXCEPT ![c] = up[c] \o Go!Line(m, k)]
                      /\ long' = IF k > ReaderLen THEN long \cup {c} ELSE long
<1>2. Go!Send(c) => \E k \in Lengths : sent(k)
  BY DEF Go!Send
<1>3. m \in Nat /\ Lengths \subseteq Nat /\ asked[c] \in Asked
      /\ up[c] \in Seq(Nat) /\ down[c] \in Seq(Nat) /\ Len(down[c]) \in Nat
  BY DEF GoInv, GoTypeOK, Asked, Go!LengthAssumption
<1>4. GoTypeOK'
  <2>1. CASE Go!Dial(c)
    BY <2>1, AppendProperties DEF GoInv, GoTypeOK, Go!Dial
  <2>2. CASE Go!Send(c)
    <3>1. PICK k \in Lengths : sent(k)
      BY <1>2, <2>2
    <3>2. [line |-> m, len |-> k] \in Asked /\ up[c] \o Go!Line(m, k) \in Seq(Nat)
      <4>1. Go!Line(m, k) \in Seq(Nat)
        BY <1>3, GoLines
      <4> QED  BY <1>3, <4>1, ConcatProperties DEF Asked
    <3> QED
      BY <2>2, <3>1, <3>2 DEF GoInv, GoTypeOK, Go!Send
  <2>3. CASE Go!Receive(c)
    <3> DEFINE n == Go!Least(Len(down[c]), ClientLen)
    <3>1. n \in Nat /\ n <= Len(down[c])
      BY <1>3 DEF Go!Least, Go!LengthAssumption
    <3>2. /\ SubSeq(down[c], 1, n) \in Seq(Nat)
          /\ SubSeq(down[c], n + 1, Len(down[c])) \in Seq(Nat)
      BY <1>3, <3>1, GoBeginning
    <3>3. /\ shown' = [shown EXCEPT ![c] = SubSeq(down[c], 1, n)]
          /\ down' = [down EXCEPT ![c] = SubSeq(down[c], n + 1, Len(down[c]))]
      BY <2>3 DEF Go!Receive
    <3> QED
      BY <2>3, <3>2, <3>3 DEF GoInv, GoTypeOK, Go!Receive
  <2>4. CASE Go!ReceiveFails(c) \/ Go!Leave(c)
    <3>1. <<>> \in Seq(Nat) /\ Go!Nothing \in Asked
      BY EmptySeq DEF Go!Nothing, Asked
    <3>2. Go!Ends(c)
      BY <2>4 DEF Go!ReceiveFails, Go!Leave
    <3> QED
      BY <3>1, <3>2 DEF GoInv, GoTypeOK, Go!Ends
  <2> QED
    BY <2>1, <2>2, <2>3, <2>4 DEF Go!ClientStep
<1>5. Turn'
  <2>1. \A d \in Clients : cl'[d] = "off" => cl[d] = "off" /\ d # c
    BY DEF GoInv, GoTypeOK, Go!ClientStep, Go!Dial, Go!Send, Go!Receive,
           Go!ReceiveFails, Go!Leave, Go!Ends
  <2>2. queue' = queue \/ queue' = Append(queue, c)
    BY DEF Go!ClientStep, Go!Dial, Go!Send, Go!Receive, Go!ReceiveFails, Go!Leave, Go!Ends
  <2>3. \A k \in 1 .. Len(queue') : cl'[queue'[k]] # "off"
    <3> SUFFICES ASSUME NEW k \in 1 .. Len(queue')
                 PROVE  cl'[queue'[k]] # "off"
      OBVIOUS
    <3>1. queue \in Seq(Clients)
      BY DEF GoInv, GoTypeOK
    <3>2. CASE queue' = queue
      <4>1. queue[k] \in Clients
        BY <3>1, <3>2, ElementOfSeq
      <4> QED  BY <2>1, <3>2, <4>1 DEF GoInv, Turn
    <3>3. CASE queue' = Append(queue, c) /\ k = Len(queue) + 1
      BY <2>1, <3>1, <3>3, AppendProperties
    <3>4. CASE queue' = Append(queue, c) /\ k # Len(queue) + 1
      <4>1. k \in 1 .. Len(queue) /\ queue'[k] = queue[k] /\ queue[k] \in Clients
        BY <3>1, <3>4, AppendProperties, ElementOfSeq
      <4> QED  BY <2>1, <4>1 DEF GoInv, Turn
    <3> QED  BY <2>2, <3>2, <3>3, <3>4
  <2> QED
    BY <1>1, <2>1, <2>3 DEF GoInv, GoTypeOK, Turn
<1>6. OnlyLong'
  <2>1. CASE Go!Send(c)
    <3>1. PICK k \in Lengths : sent(k)
      BY <1>2, <2>1
    <3> QED  BY <3>1 DEF GoInv, OnlyLong
  <2>2. CASE ~Go!Send(c)
    BY <2>2 DEF GoInv, OnlyLong, Go!ClientStep, Go!Dial, Go!Receive,
                Go!ReceiveFails, Go!Leave, Go!Ends
  <2> QED  BY <2>1, <2>2
<1>7. ASSUME NEW d \in Clients, d # c  PROVE StreamOf(d)'
  <2>1. /\ cl'[d] = cl[d] /\ asked'[d] = asked[d] /\ shown'[d] = shown[d]
        /\ up'[d] = up[d] /\ down'[d] = down[d] /\ (d \in long' <=> d \in long)
    BY <1>7 DEF GoInv, GoTypeOK, Go!ClientStep, Go!Dial, Go!Send, Go!Receive,
                Go!ReceiveFails, Go!Leave, Go!Ends
  <2> QED
    BY <1>1, <1>7, <2>1, GoOthers DEF GoInv, Answering
<1>8. StreamOf(c)'
  <2>0. (Answering(c)' <=> Answering(c)) /\ StreamOf(c)
    BY <1>1 DEF Answering, GoInv
  <2>1. CASE Go!Dial(c)
    <3>1. /\ Quiet(c) /\ asked[c] = Go!Nothing /\ UNCHANGED <<up, down, asked, long>>
          /\ cl'[c] \in {"typing", "gone"}
      BY <2>0, <2>1 DEF Go!Dial, StreamOf, GoInv, GoTypeOK
    <3> QED
      BY <2>0, <3>1 DEF StreamOf, InStep, Quiet, Go!Nothing
  <2>2. CASE Go!Send(c)
    <3>1. PICK k \in Lengths : sent(k)
      BY <1>2, <2>2
    <3>2. cl[c] = "typing" /\ cl'[c] = "waiting" /\ down' = down
      BY <2>2 DEF GoInv, GoTypeOK, Go!Send
    <3>3. ASSUME c \notin long'  PROVE InStep(c)'
      <4>1. c \notin long /\ k <= ReaderLen /\ asked'[c] = [line |-> m, len |-> k]
        BY <1>3, <3>1, <3>3 DEF GoInv, GoTypeOK, Go!LengthAssumption
      <4>2. Quiet(c)
        BY <2>0, <3>2, <4>1 DEF StreamOf, InStep
      <4>3. up'[c] = <<>> \/ up'[c] = Whole(asked[c])'
        <5>1. <<>> \o Go!Line(m, k) = Go!Line(m, k)
          BY <1>3, GoLines, ConcatEmptySeq
        <5> QED
          BY <3>1, <4>1, <4>2, <5>1 DEF GoInv, GoTypeOK, Quiet, Whole
      <4>4. OnePiece(c)'
        BY <2>0, <3>2, <4>2, <4>3 DEF OnePiece, Quiet
      <4> QED
        BY <3>2, <4>1, <4>4 DEF InStep
    <3> QED
      BY <3>2, <3>3 DEF StreamOf
  <2>3. CASE Go!Receive(c)
    <3>1. /\ cl[c] = "waiting" /\ down[c] # <<>> /\ cl'[c] = "typing"
          /\ UNCHANGED <<up, asked, long>>
      BY <2>3 DEF GoInv, GoTypeOK, Go!Receive
    <3>2. ASSUME c \notin long  PROVE InStep(c)'
      <4>1. InStep(c) /\ up[c] = <<>> /\ down[c] = Reply(asked[c]) /\ ~Answering(c)
        BY <2>0, <3>1, <3>2 DEF StreamOf, InStep, OnePiece, Quiet
      <4>2. Go!Least(Len(down[c]), ClientLen) = Len(down[c])
        <5>1. asked[c].line \in Nat /\ asked[c].len \in Nat
          BY <1>3 DEF Asked
        <5>2. Len(Cut(asked[c])) <= BufLen /\ Cut(asked[c]) \in Seq(Nat)
              /\ Len(Cut(asked[c])) \in Nat
          BY <5>1, GoLines DEF Cut
        <5>3. Len(down[c]) = Len(Cut(asked[c])) + 1
          BY <4>1, <5>2, GoAnswers DEF Reply
        <5> QED  BY <5>2, <5>3 DEF Go!Least, Go!LengthAssumption
      <4>3. shown'[c] = down[c] /\ down'[c] = <<>>
        <5>1. /\ SubSeq(down[c], 1, Len(down[c])) = down[c]
              /\ SubSeq(down[c], Len(down[c]) + 1, Len(down[c])) = <<>>
          BY <1>3, GoBeginning
        <5> QED  BY <2>3, <4>2, <5>1 DEF Go!Receive, GoInv, GoTypeOK
      <4>4. Reply(asked[c])' = Reply(asked[c])
        BY <3>1 DEF Reply, Cut
      <4> QED
        BY <2>0, <3>1, <4>1, <4>3, <4>4 DEF InStep, Quiet
    <3> QED
      BY <3>1, <3>2 DEF StreamOf
  <2>4. CASE Go!ReceiveFails(c) \/ Go!Leave(c)
    <3>1. cl'[c] = "gone" /\ down'[c] = <<>> /\ asked'[c] = Go!Nothing /\ long' = long
      BY <2>4 DEF GoInv, GoTypeOK, Go!ReceiveFails, Go!Leave, Go!Ends
    <3> QED
      BY <3>1 DEF StreamOf, InStep, Go!Nothing, Go!LengthAssumption
  <2> QED
    BY <2>1, <2>2, <2>3, <2>4 DEF Go!ClientStep
<1> QED
  BY <1>4, <1>5, <1>6, <1>7, <1>8 DEF GoInv

LEMMA GoNext ==
    ASSUME Go!NoOneAssumption, Go!LengthAssumption, GoInv, [Go!Next]_(Go!vars)
    PROVE  GoInv'
<1>1. CASE UNCHANGED Go!vars
  <2>1. GoTypeOK' /\ Turn' /\ OnlyLong'
    BY <1>1 DEF Go!vars, GoInv, GoTypeOK, Turn, OnlyLong
  <2>2. ASSUME NEW c \in Clients  PROVE StreamOf(c)'
    BY <1>1, GoOthers DEF Go!vars, GoInv, Answering
  <2> QED
    BY <2>1, <2>2 DEF GoInv
<1>2. CASE Go!Next
  BY <1>2, GoAccept, GoRead, GoWrite, GoTurnEnds, GoClient DEF Go!Next, Go!ServerStep
<1> QED
  BY <1>1, <1>2

\* What a client prints before it is asked for its next line is the answer to
\* its last one, whatever the lengths of its lines are as long as none is
\* longer than the 4096 bytes a reader takes (server.go, 13 and 15).
THEOREM GoAnswersInStep ==
    ASSUME Go!NoOneAssumption, Go!LengthAssumption
    PROVE  Go!Spec => []Go!AnswersInStep
<1>1. Go!Init => GoInv
  BY GoInit
<1>2. GoInv /\ [Go!Next]_(Go!vars) => GoInv'
  BY GoNext
<1>3. GoInv => Go!AnswersInStep
  BY DEF GoInv, StreamOf, InStep, Reply, Cut, Go!AnswersInStep
<1> QED
  BY <1>1, <1>2, <1>3, PTL DEF Go!Spec

-----------------------------------------------------------------------------
(* Who waits is served, or in the queue, and something of it is on its     *)
(* way: only an empty line leaves both ends waiting.                       *)
InLine(c) == conn = c \/ \E k \in 1 .. Len(queue) : queue[k] = c

HasTurn(c) ==
    cl[c] \in {"typing", "waiting"} /\ srv # "down" => InLine(c)

LineMoves(c) ==
    cl[c] = "waiting" /\ asked[c].len > 0 /\ srv # "down" => ~Quiet(c)

\* The server lets go only of a client that has gone.
LetsGo == srv = "close" => cl[conn] = "gone"

NobodyForgotten == \A c \in Clients : HasTurn(c) /\ LineMoves(c)

TurnInv == LetsGo /\ NobodyForgotten

LEMMA TurnAccept ==
    ASSUME Go!NoOneAssumption, GoInv, TurnInv, Go!Accept
    PROVE  TurnInv'
<1>1. /\ srv = "accept" /\ srv' = "read" /\ conn' = Head(queue)
      /\ queue' = Tail(queue) /\ UNCHANGED <<cl, asked, up, down>>
  BY DEF Go!Accept
<1>2. /\ Len(queue) \in Nat \ {0} /\ Len(queue') = Len(queue) - 1
      /\ Head(queue) = queue[1] /\ conn = NoOne
      /\ \A k \in 1 .. Len(queue) - 1 : queue'[k] = queue[k + 1]
  BY <1>1, HeadTailProperties, EmptySeq DEF GoInv, GoTypeOK, Go!Accept, Turn
<1>3. ASSUME NEW c \in Clients  PROVE HasTurn(c)'
  <2> SUFFICES ASSUME cl[c] \in {"typing", "waiting"}, conn' # c
               PROVE  \E k \in 1 .. Len(queue') : queue'[k] = c
    BY <1>1 DEF HasTurn, InLine
  <2>1. conn # c
    BY <1>2 DEF Go!NoOneAssumption
  <2>2. PICK k \in 1 .. Len(queue) : queue[k] = c
    BY <1>1, <2>1 DEF TurnInv, NobodyForgotten, HasTurn, InLine
  <2>3. k # 1
    BY <1>1, <1>2, <2>2
  <2>4. k - 1 \in 1 .. Len(queue') /\ queue'[k - 1] = queue[k]
    BY <1>2, <2>3
  <2> QED
    BY <2>2, <2>4
<1>4. ASSUME NEW c \in Clients  PROVE LineMoves(c)'
  BY <1>1 DEF TurnInv, NobodyForgotten, LineMoves, Quiet, Answering
<1> QED
  BY <1>1, <1>3, <1>4 DEF TurnInv, NobodyForgotten, LetsGo

LEMMA TurnServer ==
    ASSUME GoInv, TurnInv, Go!Read \/ Go!Write \/ Go!ReadFails \/ Go!Close \/ Go!Kill
    PROVE  TurnInv'
<1>1. UNCHANGED <<cl, asked>> /\ (srv = "down" => srv' = "down")
  BY DEF Go!Read, Go!Write, Go!ReadFails, Go!AfterError, Go!Close, Go!Kill
<1>2. LetsGo'
  BY <1>1 DEF LetsGo, Go!Read, Go!Write, Go!ReadFails, Go!Close, Go!Kill
<1>3. ASSUME NEW c \in Clients  PROVE HasTurn(c)'
  <2>1. CASE Go!Kill
    BY <2>1 DEF Go!Kill, HasTurn
  <2>2. CASE Go!Close
    BY <2>2 DEF Go!Close, TurnInv, LetsGo, NobodyForgotten, HasTurn, InLine
  <2>3. CASE Go!Read \/ Go!Write \/ Go!ReadFails
    <3>1. UNCHANGED <<conn, queue, cl>> /\ srv # "down"
      BY <2>3 DEF Go!Read, Go!Write, Go!ReadFails
    <3> QED
      BY <3>1 DEF TurnInv, NobodyForgotten, HasTurn, InLine
  <2> QED
    BY <2>1, <2>2, <2>3
<1>4. ASSUME NEW c \in Clients  PROVE LineMoves(c)'
  <2> SUFFICES ASSUME cl[c] = "waiting", asked[c].len > 0, srv' # "down"
               PROVE  ~Quiet(c)'
    BY <1>1 DEF LineMoves
  <2>1. ~Quiet(c)
    BY <1>1 DEF TurnInv, NobodyForgotten, LineMoves
  <2>2. CASE Go!Read
    <3>1. srv = "read" /\ srv' = "write" /\ conn' = conn /\ down' = down
          /\ \A d \in Clients \ {conn} : up'[d] = up[d]
      BY <2>2 DEF Go!Read, GoInv, GoTypeOK
    <3> QED
      BY <2>1, <3>1 DEF Quiet, Answering
  <2>3. CASE Go!Write
    <3>1. /\ srv = "write" /\ srv' = "read" /\ conn' = conn /\ up' = up
          /\ down' = IF cl[conn] = "gone" THEN down
                     ELSE [down EXCEPT ![conn] = down[conn] \o Go!Answer(got)]
      BY <2>3 DEF Go!Write
    <3>2. CASE conn = c
      <4>1. /\ down'[c] = down[c] \o Go!Answer(got)
            /\ down[c] \in Seq(Nat) /\ got \in Seq(Nat)
        BY <3>1, <3>2 DEF GoInv, GoTypeOK
      <4>2. down'[c] # <<>>
        BY <4>1, GoLonger
      <4> QED
        BY <4>2 DEF Quiet
    <3>3. CASE conn # c
      BY <2>1, <3>1, <3>3 DEF Quiet, Answering, GoInv, GoTypeOK
    <3> QED
      BY <3>2, <3>3
  <2>4. CASE Go!ReadFails \/ Go!Close \/ Go!Kill
    <3>1. UNCHANGED <<up, down>> /\ srv # "write"
      BY <2>4 DEF Go!ReadFails, Go!Close, Go!Kill
    <3> QED
      BY <2>1, <3>1 DEF Quiet, Answering
  <2> QED
    BY <2>2, <2>3, <2>4
<1> QED
  BY <1>2, <1>3, <1>4 DEF TurnInv, NobodyForgotten

LEMMA TurnClient ==
    ASSUME Go!NoOneAssumption, Go!LengthAssumption, GoInv, TurnInv,
           NEW c \in Clients, Go!ClientStep(c)
    PROVE  TurnInv'
<1>1. UNCHANGED <<srv, conn>>
  BY DEF Go!ClientStep, Go!Dial, Go!Send, Go!Receive, Go!ReceiveFails, Go!Leave, Go!Ends
<1>2. /\ \A d \in Clients \ {c} : cl'[d] = cl[d] /\ asked'[d] = asked[d]
                                  /\ up'[d] = up[d] /\ down'[d] = down[d]
      /\ queue' = queue \/ queue' = Append(queue, c)
      /\ cl[c] # "gone"
  BY DEF Go!ClientStep, Go!Dial, Go!Send, Go!Receive, Go!ReceiveFails, Go!Leave,
         Go!Ends, GoInv, GoTypeOK
<1>3. LetsGo'
  BY <1>1, <1>2 DEF TurnInv, LetsGo, GoInv, GoTypeOK, Turn
<1>4. \A d \in Clients : InLine(d) => InLine(d)'
  <2> SUFFICES ASSUME NEW d \in Clients, NEW k \in 1 .. Len(queue), queue[k] = d,
                      queue' = Append(queue, c)
               PROVE  \E j \in 1 .. Len(queue') : queue'[j] = d
    BY <1>1, <1>2 DEF InLine
  <2>1. k \in 1 .. Len(queue') /\ queue'[k] = queue[k]
    BY AppendProperties DEF GoInv, GoTypeOK
  <2> QED
    BY <2>1
<1>5. ASSUME NEW d \in Clients, d # c  PROVE HasTurn(d)' /\ LineMoves(d)'
  BY <1>1, <1>2, <1>4, <1>5
  DEF TurnInv, NobodyForgotten, HasTurn, LineMoves, Quiet, Answering
<1>6. HasTurn(c)'
  <2>1. CASE Go!Dial(c) /\ srv # "down"
    <3>1. queue' = Append(queue, c) /\ queue \in Seq(Clients)
      BY <2>1 DEF Go!Dial, GoInv, GoTypeOK
    <3>2. Len(queue) + 1 \in 1 .. Len(queue') /\ queue'[Len(queue) + 1] = c
      BY <3>1, AppendProperties
    <3> QED
      BY <3>2 DEF HasTurn, InLine
  <2>2. CASE Go!Dial(c) /\ srv = "down"
    BY <1>1, <2>2 DEF HasTurn
  <2>3. CASE ~Go!Dial(c)
    <3>1. cl[c] \in {"typing", "waiting"}
      BY <2>3 DEF Go!ClientStep, Go!Send, Go!Receive, Go!ReceiveFails, Go!Leave
    <3> QED
      BY <1>1, <1>4, <3>1 DEF TurnInv, NobodyForgotten, HasTurn
  <2> QED
    BY <2>1, <2>2, <2>3
<1>7. LineMoves(c)'
  <2>1. CASE Go!Send(c) /\ srv # "down"
    <3> DEFINE m == asked[c].line + 1
    <3>1. PICK k \in Lengths :
            /\ asked' = [asked EXCEPT ![c] = [line |-> m, len |-> k]]
            /\ up' = [up EXCEPT ![c] = up[c] \o Go!Line(m, k)]
      BY <2>1 DEF Go!Send
    <3>2. asked'[c].len = k /\ k \in Nat /\ m \in Nat /\ up[c] \in Seq(Nat)
      BY <3>1 DEF GoInv, GoTypeOK, Asked, Go!LengthAssumption
    <3>3. CASE k # 0
      <4>1. up'[c] = up[c] \o Go!Line(m, k)
        BY <3>1 DEF GoInv, GoTypeOK
      <4>2. /\ Len(up'[c]) = Len(up[c]) + k /\ Len(up[c]) \in Nat
            /\ up'[c] \in Seq(Nat)
        <5>1. Go!Line(m, k) \in Seq(Nat) /\ Len(Go!Line(m, k)) = k
          BY <3>2, GoLines
        <5> HIDE DEF m
        <5>2. up[c] \in Seq(Nat) /\ Len(up[c]) \in Nat
          BY <3>2, LenProperties
        <5>3. /\ up[c] \o Go!Line(m, k) \in Seq(Nat)
              /\ Len(up[c] \o Go!Line(m, k)) = Len(up[c]) + Len(Go!Line(m, k))
          BY <5>1, <5>2, ConcatProperties
        <5> QED  BY <4>1, <5>1, <5>2, <5>3, Zenon
      <4> QED
        BY <3>2, <3>3, <4>2, EmptySeq DEF LineMoves, Quiet
    <3> QED
      BY <3>2, <3>3 DEF LineMoves
  <2>2. CASE srv = "down"
    BY <1>1, <2>2 DEF LineMoves
  <2>3. CASE ~Go!Send(c)
    <3>1. cl'[c] # "waiting"
      BY <2>3 DEF Go!ClientStep, Go!Dial, Go!Receive, Go!ReceiveFails, Go!Leave,
                  Go!Ends, GoInv, GoTypeOK
    <3> QED
      BY <3>1 DEF LineMoves
  <2> QED
    BY <2>1, <2>2, <2>3
<1> QED
  BY <1>3, <1>5, <1>6, <1>7 DEF TurnInv, NobodyForgotten

\* A client that has not gone is served or in the queue as long as the server
\* lives, and while it waits, bytes of its lines are on their way to the server,
\* in it or on their way back, unless its line is empty: everyone waits for
\* everyone only after an empty line (client.go, 23 to 34; server.go, 12 to 19
\* and 42 to 48).
THEOREM OnlyEmptyLineStops ==
    ASSUME Go!NoOneAssumption, Go!LengthAssumption
    PROVE  Go!Spec => []NobodyForgotten
<1>1. Go!Init => GoInv /\ TurnInv
  <2>1. Go!Init => TurnInv
    BY DEF Go!Init, TurnInv, LetsGo, NobodyForgotten, HasTurn, LineMoves
  <2> QED
    BY <2>1, GoInit
<1>2. GoInv /\ TurnInv /\ [Go!Next]_(Go!vars) => (GoInv /\ TurnInv)'
  <2>1. CASE UNCHANGED Go!vars
    <3>1. TurnInv => TurnInv'
      BY <2>1 DEF Go!vars, TurnInv, LetsGo, NobodyForgotten, HasTurn, InLine,
                  LineMoves, Quiet, Answering
    <3> QED
      BY <3>1, GoNext
  <2> QED
    BY <2>1, GoNext, TurnAccept, TurnServer, TurnClient DEF Go!Next, Go!ServerStep
<1>3. TurnInv => NobodyForgotten
  BY DEF TurnInv
<1> QED
  BY <1>1, <1>2, <1>3, PTL DEF Go!Spec

-----------------------------------------------------------------------------
(* The Go server implements EchoService: a line is owed from the moment    *)
(* its client begins to wait until its answer is on the way.               *)
GoState == [c \in Clients |-> CASE cl[c] = "off"    -> "idle"
                                [] cl[c] = "typing" -> "ready"
                                [] OTHER            -> cl[c]]

Echo == INSTANCE EchoService
           WITH Conns <- Clients, state <- GoState,
                owed <- [c \in Clients |-> cl[c] = "waiting" /\ down[c] = <<>>],
                answer <- [c \in Clients |-> down[c] # <<>>]

LEMMA GoInitServes ==
    ASSUME Go!Init
    PROVE  Echo!Init
  BY DEF Go!Init, Echo!Init, GoState

\* No line is longer than what a reader takes.
LinesFit == \A k \in Lengths : k <= ReaderLen

LEMMA GoAllInStep ==
    ASSUME GoInv, LinesFit, Go!LengthAssumption
    PROVE  \A c \in Clients : InStep(c)
<1>1. \A k \in Lengths : k \in Nat /\ k <= ReaderLen /\ ReaderLen \in Nat
  BY DEF LinesFit, Go!LengthAssumption
<1>2. long = {}
  BY <1>1 DEF GoInv, OnlyLong
<1> QED  BY <1>2 DEF GoInv, StreamOf

LEMMA GoServerServes ==
    ASSUME GoInv, LinesFit, Go!LengthAssumption, Go!ServerStep \/ Go!Kill
    PROVE  [Echo!Next]_(Echo!abstract)
<1>1. CASE Go!Accept \/ Go!Read \/ Go!ReadFails \/ Go!Close \/ Go!Kill
  BY <1>1 DEF Go!Accept, Go!Read, Go!ReadFails, Go!Close, Go!Kill,
              Echo!abstract, GoState
<1>2. CASE Go!Write /\ cl[conn] = "gone"
  BY <1>2 DEF Go!Write, Echo!abstract, GoState
<1>3. CASE Go!Write /\ cl[conn] # "gone"
  <2>1. PICK c \in Clients : c = conn
    BY <1>3 DEF GoInv, GoTypeOK, Turn, Go!Write
  <2>2. /\ Answering(c) /\ UNCHANGED cl
        /\ down' = [down EXCEPT ![c] = down[c] \o Go!Answer(got)]
    BY <1>3, <2>1 DEF Answering, Go!Write
  <2>3. cl[c] = "waiting" /\ down[c] = <<>>
    <3>1. InStep(c) /\ cl[c] # "off" /\ cl[c] # "gone"
      BY <1>3, <2>1, GoAllInStep DEF GoInv, Turn, Go!Write
    <3> QED
      BY <2>2, <3>1 DEF GoInv, GoTypeOK, InStep, OnePiece, Quiet
  <2>4. down'[c] # <<>> /\ \A d \in Clients \ {c} : down'[d] = down[d]
    BY <2>2, GoLonger DEF GoInv, GoTypeOK
  <2>5. Echo!Reply(c)
    BY <2>2, <2>3, <2>4 DEF Echo!Reply, GoState
  <2>6. Echo!Next
    BY <2>5 DEF Echo!Next
  <2> QED
    BY <2>6
<1> QED
  BY <1>1, <1>2, <1>3 DEF Go!ServerStep

LEMMA GoClientServes ==
    ASSUME GoInv, LinesFit, Go!LengthAssumption,
           NEW c \in Clients, Go!ClientStep(c)
    PROVE  Echo!Next
<1> USE DEF GoState
<1>0. cl \in [Clients -> {"off", "typing", "waiting", "gone"}]
  BY DEF GoInv, GoTypeOK
<1>1. CASE Go!Dial(c) /\ srv = "down"
  <2>1. down[c] = <<>>
    BY <1>1 DEF Go!Dial, GoInv, StreamOf, Quiet
  <2>2. Echo!Leave(c)
    BY <1>0, <1>1, <2>1 DEF Go!Dial, Echo!Leave
  <2> QED
    BY <2>2 DEF Echo!Next
<1>2. CASE Go!Dial(c) /\ srv # "down"
  <2>1. Echo!Connect(c)
    BY <1>0, <1>2 DEF Go!Dial, Echo!Connect
  <2> QED
    BY <2>1 DEF Echo!Next
<1>3. CASE Go!Send(c)
  <2>1. down[c] = <<>>
    BY <1>3, GoAllInStep DEF Go!Send, InStep, Quiet
  <2>2. Echo!Ask(c)
    BY <1>0, <1>3, <2>1 DEF Go!Send, Echo!Ask
  <2> QED
    BY <2>2 DEF Echo!Next
<1>4. CASE Go!Receive(c)
  <2>1. cl[c] = "waiting" /\ down[c] # <<>>
    BY <1>4 DEF Go!Receive
  <2>2. down[c] = Reply(asked[c])
    BY <2>1, GoAllInStep DEF InStep, OnePiece, Quiet
  <2>4. /\ down[c] \in Seq(Nat)
        /\ Go!Least(Len(down[c]), ClientLen) = Len(down[c])
    <3>1. asked[c].line \in Nat /\ asked[c].len \in Nat
      BY DEF GoInv, GoTypeOK, Asked
    <3>2. Len(Cut(asked[c])) <= BufLen /\ Cut(asked[c]) \in Seq(Nat)
          /\ Len(Cut(asked[c])) \in Nat
      BY <3>1, GoLines DEF Cut
    <3>3. Len(down[c]) = Len(Cut(asked[c])) + 1
      BY <2>2, <3>2, GoAnswers DEF Reply
    <3>4. Len(down[c]) <= ClientLen /\ Len(down[c]) \in Nat /\ ClientLen \in Nat
      BY <3>2, <3>3 DEF Go!LengthAssumption
    <3>5. down[c] \in Seq(Nat)
      BY DEF GoInv, GoTypeOK
    <3> QED  BY <3>4, <3>5 DEF Go!Least
  <2>5. down'[c] = <<>> /\ \A d \in Clients \ {c} : down'[d] = down[d]
    <3>1. SubSeq(down[c], Len(down[c]) + 1, Len(down[c])) = <<>>
      BY <2>4, GoBeginning, LenProperties
    <3> QED  BY <1>4, <2>4, <3>1 DEF Go!Receive, GoInv, GoTypeOK
  <2>3. Echo!Take(c)
    BY <1>0, <1>4, <2>1, <2>5 DEF Go!Receive, Echo!Take
  <2> QED
    BY <2>3 DEF Echo!Next
<1>5. CASE Go!ReceiveFails(c) \/ Go!Leave(c)
  <2>1. /\ cl[c] # "gone" /\ cl' = [cl EXCEPT ![c] = "gone"] /\ down'[c] = <<>>
        /\ \A d \in Clients \ {c} : down'[d] = down[d]
    BY <1>0, <1>5 DEF Go!ReceiveFails, Go!Leave, Go!Ends, GoInv, GoTypeOK
  <2>2. /\ GoState[c] # "gone" /\ GoState' = [GoState EXCEPT ![c] = "gone"]
        /\ [d \in Clients |-> down'[d] # <<>>]
              = [[d \in Clients |-> down[d] # <<>>] EXCEPT ![c] = FALSE]
    BY <1>0, <2>1
  <2>3. [d \in Clients |-> cl'[d] = "waiting" /\ down'[d] = <<>>]
           = [[d \in Clients |-> cl[d] = "waiting" /\ down[d] = <<>>]
                 EXCEPT ![c] = FALSE]
    BY <1>0, <2>1
  <2>4. Echo!Leave(c)
    BY <2>2, <2>3 DEF Echo!Leave
  <2> QED
    BY <2>4 DEF Echo!Next
<1> QED
  BY <1>1, <1>2, <1>3, <1>4, <1>5 DEF Go!ClientStep

\* Where no line is longer than a reader takes, each is answered at most once,
\* to the client it came from, also those the server cuts, and nothing else is
\* ever sent: the reader that is made anew for every line (server.go, 13)
\* neither repeats nor invents one.
THEOREM GoImplementsEcho ==
    ASSUME Go!NoOneAssumption, Go!LengthAssumption, LinesFit
    PROVE  Go!Spec => Echo!Spec
<1>1. Go!Init => GoInv /\ Echo!Init
  BY GoInit, GoInitServes
<1>2. GoInv /\ [Go!Next]_(Go!vars) => GoInv'
  BY GoNext
<1>3. GoInv /\ [Go!Next]_(Go!vars) => [Echo!Next]_(Echo!abstract)
  <2>1. CASE UNCHANGED Go!vars
    BY <2>1 DEF Go!vars, Echo!abstract, GoState
  <2> QED
    BY <2>1, GoServerServes, GoClientServes DEF Go!Next
<1> QED
  BY <1>1, <1>2, <1>3, PTL DEF Go!Spec, Echo!Spec
=============================================================================
