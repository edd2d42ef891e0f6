------------------------- MODULE ThreadServerProofs -------------------------
(***************************************************************************)
(* Theorems about ThreadServer, for any number of connections and of       *)
(* descriptors and any size of the array ts.                               *)
(***************************************************************************)
EXTENDS ThreadServer, EchoNetProofs

TypeOK ==
    /\ pc \in {"accept", "start", "hung", "exited", "undefined"}
    /\ connfd \in Fds \cup {-1}
    /\ i \in 0 .. TsSize
    /\ ts \in [Entries -> Fds \cup {-1}]
    /\ th \in [Conns -> {"none", "failed", "read", "write", "close", "ended"}]
    /\ arg \in [Conns -> Nat]

\* What main has accepted, and not yet given to a thread, is an open
\* connection that no thread was started for.
MainHolds ==
    pc \in {"start", "undefined"} => /\ connfd \in Fds
                                     /\ conn[connfd] \in Conns
                                     /\ th[conn[connfd]] = "none"

\* A thread's entry is one main has written and will not write again, and
\* the descriptor in it is the thread's connection.
OwnEntryOf(c) == /\ arg[c] \in Entries
                 /\ arg[c] < i
                 /\ Fd(c) \in Fds
                 /\ conn[Fd(c)] = c

EntriesInv == \A c \in Conns : Living(c) => OwnEntryOf(c)

\* A connection that main has had a thread started for was accepted.
ServedOnce == \A c \in Conns : th[c] # "none" => ~Queued(c) /\ cl[c] # "idle"

IInv == NetInv /\ TypeOK /\ MainHolds /\ EntriesInv /\ OpenIsServed /\ ServedOnce

\* One line of a client is on its way at a time: to the server, in the
\* thread, or back.
OneLineOf(c) ==
    /\ up[c] => th[c] # "write" /\ ~down[c] /\ cl[c] \in {"waiting", "gone"}
    /\ th[c] = "write" => ~down[c] /\ cl[c] \in {"waiting", "gone"}
    /\ down[c] => cl[c] = "waiting"

OneLine == \A c \in Conns : OneLineOf(c)

-----------------------------------------------------------------------------
(* The inductive invariant, one lemma per actor.                           *)

LEMMA InitInv == Init => IInv
<1> SUFFICES ASSUME Init
             PROVE  IInv
  OBVIOUS
<1>1. NetInv
  BY NetInitInv DEF Init
<1>2. TypeOK
  BY TsSizeAssumption DEF Init, TypeOK, Entries
<1>3. \A c : ~Queued(c)
  BY DEF Init, NetInit, Queued
<1>4. MainHolds /\ EntriesInv /\ ServedOnce
  BY DEF Init, MainHolds, EntriesInv, ServedOnce, Living
<1>5. OpenIsServed
  BY DEF Init, NetInit, OpenIsServed
<1> QED
  BY <1>1, <1>2, <1>4, <1>5 DEF IInv

LEMMA AcceptInv ==
    ASSUME IInv, NEW f \in Fds, Accept(f)
    PROVE  IInv'
<1> DEFINE h == Head(queue)
<1>1. /\ NetInv' /\ h \in Conns /\ conn[f] = NoConn
      /\ conn' = [conn EXCEPT ![f] = h]
      /\ \A g \in Fds : conn[g] # h
      /\ Queued(h)
      /\ \A c : Queued(c)' => Queued(c) /\ c # h
  BY TakeConnInv DEF Accept, IInv
<1>2. /\ pc = "accept" /\ pc' = "start" /\ connfd' = f
      /\ UNCHANGED <<i, ts, th, arg, cl>>
  BY DEF Accept, TakeConn
<1>3. \A g \in Fds : conn'[g] = IF g = f THEN h ELSE conn[g]
  BY <1>1 DEF IInv, NetInv, NetTypeOK
<1>4. TypeOK'
  BY <1>2 DEF IInv, TypeOK, Entries
<1>5. th[h] = "none"
  BY <1>1 DEF IInv, ServedOnce
<1>6. MainHolds'
  BY <1>1, <1>2, <1>3, <1>5 DEF MainHolds
<1>7. EntriesInv'
  <2> SUFFICES ASSUME NEW c \in Conns, Living(c)'
               PROVE  OwnEntryOf(c)'
    BY DEF EntriesInv
  <2>1. OwnEntryOf(c)
    BY <1>2 DEF IInv, EntriesInv, Living
  <2>2. Fd(c) # f
    BY <2>1, <1>1, NetAssumption DEF OwnEntryOf
  <2> QED
    BY <2>1, <2>2, <1>2, <1>3 DEF OwnEntryOf, Fd, Entries
<1>8. OpenIsServed'
  BY <1>2, <1>3 DEF IInv, OpenIsServed, Living
<1>9. ServedOnce'
  BY <1>1, <1>2 DEF IInv, ServedOnce
<1> QED
  BY <1>1, <1>4, <1>6, <1>7, <1>8, <1>9 DEF IInv

LEMMA StartThreadInv ==
    ASSUME IInv, StartThread
    PROVE  IInv'
<1> DEFINE c == conn[connfd]
<1>1. /\ pc = "start" /\ pc' = "accept" /\ i < TsSize /\ i' = i + 1
      /\ ts' = [ts EXCEPT ![i] = connfd]
      /\ arg' = [arg EXCEPT ![c] = i]
      /\ UNCHANGED <<connfd, net>>
  BY DEF StartThread, NextEntry
<1>2. PICK t \in {"read", "failed"} : th' = [th EXCEPT ![c] = t]
  BY DEF StartThread
<1>3. connfd \in Fds /\ c \in Conns /\ th[c] = "none"
  BY <1>1 DEF IInv, MainHolds
<1>4. i \in Entries /\ i \in Nat /\ i' \in 0 .. TsSize
  BY <1>1, TsSizeAssumption DEF IInv, TypeOK, Entries
<1>5. NetInv' /\ \A d : Queued(d)' <=> Queued(d)
  BY <1>1, NetUnchanged DEF IInv
<1>6. TypeOK'
  BY <1>1, <1>2, <1>3, <1>4 DEF IInv, TypeOK
<1>7. MainHolds'
  BY <1>1 DEF MainHolds
<1>8. EntriesInv'
  <2> SUFFICES ASSUME NEW d \in Conns, Living(d)'
               PROVE  OwnEntryOf(d)'
    BY DEF EntriesInv
  <2>1. CASE d = c
    <3>1. arg'[d] = i /\ ts'[i] = connfd
      BY <2>1, <1>1, <1>3, <1>4 DEF IInv, TypeOK
    <3> QED
      BY <3>1, <2>1, <1>1, <1>3, <1>4 DEF OwnEntryOf, Fd, net
  <2>2. CASE d # c
    <3>1. th'[d] = th[d] /\ arg'[d] = arg[d]
      BY <2>2, <1>1, <1>2 DEF IInv, TypeOK
    <3>2. OwnEntryOf(d)
      BY <3>1 DEF IInv, EntriesInv, Living
    <3>3. ts'[arg[d]] = ts[arg[d]]
      BY <3>2, <1>1, <1>4 DEF OwnEntryOf, IInv, TypeOK, Entries
    <3> QED
      BY <3>1, <3>2, <3>3, <1>1, <1>4 DEF OwnEntryOf, Fd, net, Entries
  <2> QED
    BY <2>1, <2>2
<1>9. OpenIsServed'
  <2> SUFFICES ASSUME NEW f \in Fds, conn'[f] # NoConn
               PROVE  Living(conn[f])' \/ th'[conn[f]] = "failed"
    BY <1>1 DEF OpenIsServed, net
  <2>1. conn[f] # NoConn /\ conn[f] \in Conns /\ conn' = conn
    BY <1>1 DEF IInv, NetInv, NetTypeOK, net
  <2>2. CASE f = connfd
    BY <2>1, <2>2, <1>2, <1>3 DEF IInv, TypeOK, Living
  <2>3. CASE f # connfd
    BY <2>1, <2>3, <1>1, <1>2, <1>3 DEF IInv, TypeOK, NetInv, OneFd, OpenIsServed, Living
  <2> QED
    BY <2>2, <2>3
<1>10. ServedOnce'
  <2>1. ~Queued(c) /\ cl[c] # "idle"
    BY <1>3, NetAssumption DEF IInv, NetInv, NotBoth, Connected
  <2> QED
    BY <2>1, <1>1, <1>2, <1>5 DEF IInv, TypeOK, ServedOnce, net
<1> QED
  BY <1>5, <1>6, <1>7, <1>8, <1>9, <1>10 DEF IInv

\* Steps that leave the tables alone but for where main is.
LEMMA MainStopsInv ==
    ASSUME IInv, AcceptFails \/ BeyondArray
    PROVE  IInv'
<1>1. /\ UNCHANGED <<connfd, i, ts, th, arg, net>>
      /\ \/ pc = "accept" /\ pc' \in {"exited", "hung"}
         \/ pc = "start" /\ pc' = "undefined"
  BY DEF AcceptFails, BeyondArray
<1>2. NetInv' /\ \A d : Queued(d)' <=> Queued(d)
  BY <1>1, NetUnchanged DEF IInv
<1>3. TypeOK' /\ MainHolds'
  BY <1>1 DEF IInv, TypeOK, MainHolds, net, Entries
<1>4. EntriesInv'
  BY <1>1 DEF IInv, EntriesInv, OwnEntryOf, Living, Fd, net
<1>5. OpenIsServed'
  BY <1>1 DEF IInv, OpenIsServed, Living, net
<1>6. ServedOnce'
  BY <1>1, <1>2 DEF IInv, ServedOnce, net
<1> QED
  BY <1>2, <1>3, <1>4, <1>5, <1>6 DEF IInv

\* A thread that does not close leaves descriptors, queue and clients alone.
LEMMA ThreadKeeps ==
    ASSUME IInv, NEW c \in Conns, Living(c), NetInv',
           UNCHANGED <<main, arg, queue, conn, cl>>,
           NEW t \in {"read", "write", "close"}, th' = [th EXCEPT ![c] = t]
    PROVE  IInv'
<1>1. \A d : Queued(d)' <=> Queued(d)
  BY DEF Queued
<1>2. \A d \in Conns : Living(d)' <=> Living(d)
  BY DEF IInv, TypeOK, Living
<1>3. TypeOK'
  BY DEF IInv, TypeOK, main, Entries
<1>4. MainHolds'
  BY DEF IInv, TypeOK, MainHolds, main, Living
<1>5. EntriesInv'
  BY <1>2 DEF IInv, EntriesInv, OwnEntryOf, Fd, main
<1>6. OpenIsServed'
  <2> SUFFICES ASSUME NEW f \in Fds, conn[f] # NoConn
               PROVE  \/ pc \in {"start", "undefined"} /\ connfd = f
                      \/ Living(conn[f])' \/ th'[conn[f]] = "failed"
    BY DEF OpenIsServed, main
  <2>1. conn[f] \in Conns
    BY DEF IInv, NetInv, NetTypeOK
  <2> QED
    BY <2>1, <1>2 DEF IInv, TypeOK, OpenIsServed, Living
<1>7. ServedOnce'
  BY <1>1 DEF IInv, TypeOK, ServedOnce, Living
<1> QED
  BY <1>3, <1>4, <1>5, <1>6, <1>7 DEF IInv

LEMMA ThreadInv ==
    ASSUME IInv, NEW c \in Conns, Thread(c)
    PROVE  IInv'
<1>0. Living(c) => OwnEntryOf(c)
  BY DEF IInv, EntriesInv
<1>1. CASE Read(c)
  <2>1. Living(c) /\ conn[Fd(c)] = c
    BY <1>1, <1>0 DEF Read, Living, OwnEntryOf
  <2>2. up' \in [Conns -> BOOLEAN]
    BY <1>1, Zenon DEF Read, IInv, NetInv, NetTypeOK
  <2>3. NetInv'
    BY <1>1, <2>2, TrafficInv DEF Read, IInv, NetInv, NetTypeOK
  <2> QED
    BY <1>1, <2>1, <2>3, ThreadKeeps DEF Read, AfterRead
<1>2. CASE Write(c)
  <2>1. Living(c) /\ conn[Fd(c)] = c
    BY <1>2, <1>0 DEF Write, Living, OwnEntryOf
  <2>2. down' \in [Conns -> BOOLEAN]
    <3>1. (cl[c] # "gone") \in BOOLEAN
      OBVIOUS
    <3>2. down' = [down EXCEPT ![c] = (cl[c] # "gone")]
      BY <1>2, <2>1 DEF Write
    <3> QED
      BY <3>1, <3>2, Zenon DEF IInv, NetInv, NetTypeOK
  <2>3. NetInv'
    BY <1>2, <2>2, TrafficInv DEF Write, IInv, NetInv, NetTypeOK
  <2> QED
    BY <1>2, <2>1, <2>3, ThreadKeeps DEF Write
<1>3. CASE Failure(c)
  <2>1. Living(c) /\ th[c] = "read" /\ UNCHANGED <<main, th, arg, queue, conn, cl, lines, up, down>>
    BY <1>3 DEF Failure, ReadError, Living
  <2>2. end' \in [Conns -> Ends]
    BY <1>3 DEF Failure, ReadError, IInv, NetInv, NetTypeOK, Ends
  <2>3. NetInv'
    BY <2>1, <2>2, TrafficInv DEF IInv, NetInv, NetTypeOK
  <2>4. th' = [th EXCEPT ![c] = "read"]
    BY <2>1 DEF IInv, TypeOK
  <2> QED
    BY <2>1, <2>3, <2>4, ThreadKeeps
<1>4. CASE Eof(c)
  <2>1. Living(c) /\ UNCHANGED <<main, arg, net>> /\ th' = [th EXCEPT ![c] = "close"]
    BY <1>4 DEF Eof, Living, AfterEof
  <2>2. NetInv'
    BY <2>1, NetUnchanged DEF IInv
  <2> QED
    BY <2>1, <2>2, ThreadKeeps DEF net
<1>5. CASE Close(c)
  <2>1. /\ Living(c) /\ th[c] = "close" /\ OwnEntryOf(c)
        /\ Fd(c) \in Fds /\ conn[Fd(c)] = c /\ c # NoConn
    BY <1>5, <1>0, NetAssumption DEF Close, Living, OwnEntryOf
  <2>2. /\ th' = [th EXCEPT ![c] = "ended"]
        /\ conn' = [conn EXCEPT ![Fd(c)] = NoConn]
        /\ UNCHANGED <<pc, connfd, i, ts, arg, queue, cl, lines, up, down, end>>
    BY <1>5, <2>1 DEF Close
  <2>3. NetInv'
    BY <2>1, <2>2, CloseInv DEF IInv
  <2>4. \A f \in Fds : conn'[f] = IF f = Fd(c) THEN NoConn ELSE conn[f]
    BY <2>1, <2>2 DEF IInv, NetInv, NetTypeOK
  <2>5. \A d \in Conns : th'[d] = IF d = c THEN "ended" ELSE th[d]
    BY <2>2 DEF IInv, TypeOK
  <2>6. \A f \in Fds : f # Fd(c) => conn[f] # c
    BY <2>1 DEF IInv, NetInv, OneFd
  <2>7. TypeOK'
    BY <2>2 DEF IInv, TypeOK, Entries
  <2>8. MainHolds'
    BY <2>1, <2>2, <2>4, <2>5, <2>6 DEF IInv, MainHolds
  <2>9. EntriesInv'
    <3> SUFFICES ASSUME NEW d \in Conns, Living(d)'
                 PROVE  OwnEntryOf(d)'
      BY DEF EntriesInv
    <3>1. d # c /\ OwnEntryOf(d)
      BY <2>5 DEF IInv, EntriesInv, Living
    <3>2. Fd(d) # Fd(c)
      BY <3>1, <2>1 DEF OwnEntryOf
    <3> QED
      BY <3>1, <3>2, <2>2, <2>4 DEF OwnEntryOf, Fd, Entries
  <2>10. OpenIsServed'
    <3> SUFFICES ASSUME NEW f \in Fds, conn'[f] # NoConn
                 PROVE  \/ pc \in {"start", "undefined"} /\ connfd = f
                        \/ Living(conn[f])' \/ th'[conn[f]] = "failed"
      BY <2>2, <2>4 DEF OpenIsServed
    <3>1. /\ conn[f] \in Conns /\ conn[f] # c /\ conn[f] # NoConn
          /\ conn'[f] = conn[f]
          /\ th'[conn[f]] = th[conn[f]]
      BY <2>4, <2>5, <2>6 DEF IInv, NetInv, NetTypeOK
    <3> QED
      BY <3>1 DEF IInv, OpenIsServed, Living
  <2>11. ServedOnce'
    BY <2>1, <2>2, <2>5 DEF IInv, ServedOnce, Queued
  <2> QED
    BY <2>3, <2>7, <2>8, <2>9, <2>10, <2>11 DEF IInv
<1> QED
  BY <1>1, <1>2, <1>3, <1>4, <1>5 DEF Thread

LEMMA ClientsInv ==
    ASSUME IInv, NEW c \in Conns, Clients(c)
    PROVE  IInv'
<1>1. /\ NetInv' /\ conn' = conn /\ UNCHANGED <<main, th, arg>>
      /\ \A d : Queued(d)' => Queued(d) \/ (d = c /\ cl[c] = "idle")
      /\ \A d \in Conns : cl[d] # "idle" => cl'[d] # "idle"
  BY ClientStepInv DEF IInv, Clients
<1>2. TypeOK' /\ MainHolds'
  BY <1>1 DEF IInv, TypeOK, MainHolds, main, Entries
<1>3. EntriesInv'
  BY <1>1 DEF IInv, EntriesInv, OwnEntryOf, Living, Fd, main
<1>4. OpenIsServed'
  BY <1>1 DEF IInv, OpenIsServed, Living, main
<1>5. ServedOnce'
  BY <1>1 DEF IInv, ServedOnce
<1> QED
  BY <1>1, <1>2, <1>3, <1>4, <1>5 DEF IInv

LEMMA NextInv == IInv /\ [Next]_vars => IInv'
<1> SUFFICES ASSUME IInv, [Next]_vars
             PROVE  IInv'
  OBVIOUS
<1>1. CASE UNCHANGED vars
  <2>1. UNCHANGED net /\ UNCHANGED <<main, th, arg>>
    BY <1>1 DEF vars, net, main
  <2>2. NetInv' /\ \A d : Queued(d)' <=> Queued(d)
    BY <2>1, NetUnchanged DEF IInv
  <2>3. TypeOK' /\ MainHolds' /\ EntriesInv' /\ OpenIsServed' /\ ServedOnce'
    BY <2>1, <2>2 DEF IInv, TypeOK, MainHolds, EntriesInv, OwnEntryOf,
                      OpenIsServed, ServedOnce, Living, Fd, net, main, Entries
  <2> QED
    BY <2>2, <2>3 DEF IInv
<1>2. CASE MainStep
  BY <1>2, AcceptInv, StartThreadInv, MainStopsInv DEF MainStep
<1>3. CASE \E c \in Conns : Thread(c) \/ Clients(c)
  BY <1>3, ThreadInv, ClientsInv
<1> QED
  BY <1>1, <1>2, <1>3 DEF Next

\* Types, the net, main and the entries of ts hold one another up
\* (multithread-server.c, 82-92).
THEOREM Invariance == Spec => []IInv
  BY InitInv, NextInv, PTL DEF Spec

\* A living thread finds in its entry a descriptor that still stands for its
\* own connection, whatever main and the other threads do to the array and
\* to the descriptors (lines 40, 53, 56, 88).
THEOREM ThreadOwnsEntry == Spec => []OwnEntry
<1>1. IInv => OwnEntry
  BY DEF IInv, EntriesInv, OwnEntryOf, OwnEntry
<1> QED
  BY <1>1, Invariance, PTL

\* An open descriptor is main's, a living thread's, or one whose thread
\* could not be started: none is closed twice or forgotten (lines 56, 87-89).
THEOREM OpenDescriptorIsServed == Spec => []OpenIsServed
<1>1. IInv => OpenIsServed
  BY DEF IInv
<1> QED
  BY <1>1, Invariance, PTL

-----------------------------------------------------------------------------
(* The refinement of EchoService.                                          *)

LEMMA OneLineInit == Init => OneLine
  BY DEF Init, NetInit, OneLine, OneLineOf

\* What each step does to the lines of connection c, in which the thread
\* started for c is the only one that touches them.
LEMMA ThreadLines ==
    ASSUME IInv, NEW c \in Conns, Thread(c)
    PROVE  /\ UNCHANGED cl
           /\ \/ /\ th[c] = "read" /\ up[c] /\ UNCHANGED down
                 /\ up' = [up EXCEPT ![c] = FALSE]
                 /\ th' = [th EXCEPT ![c] = "write"]
              \/ /\ th[c] = "write" /\ UNCHANGED up
                 /\ down' = [down EXCEPT ![c] = (cl[c] # "gone")]
                 /\ th' = [th EXCEPT ![c] = "read"]
              \/ /\ UNCHANGED <<up, down>>
                 /\ th[c] # "write"
                 /\ \E t \in {"read", "close", "ended"} : th' = [th EXCEPT ![c] = t]
<1>1. Living(c) => conn[Fd(c)] = c
  BY DEF IInv, EntriesInv, OwnEntryOf
<1>2. CASE Read(c)
  BY <1>1, <1>2 DEF Read, AfterRead, Living
<1>3. CASE Write(c)
  BY <1>1, <1>3 DEF Write, Living
<1>4. CASE Failure(c)
  BY <1>4 DEF Failure, ReadError, IInv, TypeOK
<1>5. CASE Eof(c)
  BY <1>5 DEF Eof, AfterEof, net
<1>6. CASE Close(c)
  BY <1>6 DEF Close
<1> QED
  BY <1>2, <1>3, <1>4, <1>5, <1>6 DEF Thread

\* main starts no thread in the middle of an answer.
LEMMA MainLines ==
    ASSUME IInv, MainStep
    PROVE  /\ UNCHANGED <<cl, up, down>>
           /\ \A c \in Conns : th'[c] = "write" <=> th[c] = "write"
<1>1. ASSUME NEW f \in Fds, Accept(f)
      PROVE  UNCHANGED <<cl, up, down, th>>
  BY <1>1 DEF Accept, TakeConn
<1>2. CASE AcceptFails \/ BeyondArray
  BY <1>2 DEF AcceptFails, BeyondArray, net
<1>3. CASE StartThread
  <2>1. conn[connfd] \in Conns /\ th[conn[connfd]] = "none"
    BY <1>3 DEF StartThread, IInv, MainHolds
  <2>2. PICK t \in {"read", "failed"} : th' = [th EXCEPT ![conn[connfd]] = t]
    BY <1>3 DEF StartThread
  <2>3. UNCHANGED <<cl, up, down>>
    BY <1>3 DEF StartThread, net
  <2> QED
    BY <2>1, <2>2, <2>3 DEF IInv, TypeOK
<1> QED
  BY <1>1, <1>2, <1>3 DEF MainStep

LEMMA OneLineNext == IInv /\ OneLine /\ [Next]_vars => OneLine'
<1> SUFFICES ASSUME IInv, OneLine, [Next]_vars, NEW c \in Conns
             PROVE  OneLineOf(c)'
  BY DEF OneLine
<1> USE DEF OneLine, OneLineOf
<1>0. /\ th \in [Conns -> {"none", "failed", "read", "write", "close", "ended"}]
      /\ up \in [Conns -> BOOLEAN] /\ down \in [Conns -> BOOLEAN]
      /\ cl \in [Conns -> {"idle", "ready", "waiting", "gone"}]
  BY DEF IInv, TypeOK, NetInv, NetTypeOK
<1>1. CASE UNCHANGED vars
  BY <1>1 DEF vars
<1>2. CASE MainStep
  BY <1>2, MainLines
<1>3. ASSUME NEW d \in Conns, Thread(d)
      PROVE  OneLineOf(c)'
  BY <1>0, <1>3, ThreadLines
<1>4. ASSUME NEW d \in Conns, Clients(d)
      PROVE  OneLineOf(c)'
  <2>1. UNCHANGED th
    BY <1>4 DEF Clients
  <2>2. CASE Connect(d)
    BY <1>0, <2>1, <2>2 DEF Connect
  <2>3. CASE Send(d)
    BY <1>0, <2>1, <2>3 DEF Send
  <2>4. CASE Receive(d)
    BY <1>0, <2>1, <2>4 DEF Receive
  <2>5. CASE Leave(d)
    BY <1>0, <2>1, <2>5 DEF Leave
  <2> QED
    BY <1>4, <2>2, <2>3, <2>4, <2>5 DEF Clients, ClientStep
<1> QED
  BY <1>1, <1>2, <1>3, <1>4 DEF Next

LEMMA OneLineInvariance == Spec => []OneLine
  BY OneLineInit, OneLineNext, Invariance, PTL DEF Spec

\* The lines that are not answered, as EchoService sees them.
Owed == [c \in Conns |-> up[c] \/ th[c] = "write"]

LEMMA InitRefines == Init => Service!Init
  BY DEF Init, NetInit, Service!Init

LEMMA NextRefines ==
    ASSUME IInv, OneLine, [Next]_vars
    PROVE  [Service!Next]_(Service!abstract)
<1> USE DEF Service!abstract
<1>0. /\ th \in [Conns -> {"none", "failed", "read", "write", "close", "ended"}]
      /\ up \in [Conns -> BOOLEAN] /\ down \in [Conns -> BOOLEAN]
      /\ cl \in [Conns -> {"idle", "ready", "waiting", "gone"}]
  BY DEF IInv, TypeOK, NetInv, NetTypeOK
<1>1. CASE UNCHANGED vars
  BY <1>1 DEF vars
<1>2. CASE MainStep
  <2>1. UNCHANGED <<cl, up, down>>
    BY <1>2, MainLines
  <2>2. UNCHANGED Owed
    BY <1>2, MainLines DEF Owed
  <2> QED
    BY <2>1, <2>2 DEF Owed
<1>3. ASSUME NEW c \in Conns, Thread(c)
      PROVE  [Service!Next]_(Service!abstract)
  <2>1. CASE /\ th[c] = "read" /\ up[c] /\ UNCHANGED <<cl, down>>
             /\ up' = [up EXCEPT ![c] = FALSE]
             /\ th' = [th EXCEPT ![c] = "write"]
    <3>1. UNCHANGED Owed
      BY <1>0, <2>1 DEF Owed
    <3> QED
      BY <2>1, <3>1 DEF Owed
  <2>2. CASE /\ th[c] = "write" /\ UNCHANGED <<cl, up>>
             /\ down' = [down EXCEPT ![c] = (cl[c] # "gone")]
             /\ th' = [th EXCEPT ![c] = "read"]
    <3>1. ~up[c]
      BY <2>2 DEF OneLine, OneLineOf
    <3>2. Owed' = [Owed EXCEPT ![c] = FALSE] /\ Owed[c]
      BY <1>0, <2>2, <3>1 DEF Owed
    <3>3. Service!Reply(c)
      BY <2>2, <3>2 DEF Service!Reply, Owed
    <3> QED
      BY <3>3 DEF Service!Next
  <2>3. CASE /\ UNCHANGED <<cl, up, down>>
             /\ th[c] # "write"
             /\ \E t \in {"read", "close", "ended"} : th' = [th EXCEPT ![c] = t]
    <3>1. UNCHANGED Owed
      BY <1>0, <2>3 DEF Owed
    <3> QED
      BY <2>3, <3>1 DEF Owed
  <2> QED
    BY <1>3, <2>1, <2>2, <2>3, ThreadLines
<1>4. ASSUME NEW c \in Conns, Clients(c)
      PROVE  [Service!Next]_(Service!abstract)
  <2>1. UNCHANGED th
    BY <1>4 DEF Clients
  <2>2. CASE Connect(c)
    <3>1. Service!Connect(c)
      BY <2>1, <2>2 DEF Connect, Service!Connect
    <3> QED
      BY <3>1 DEF Service!Next
  <2>3. CASE Send(c)
    <3>1. Owed' = [Owed EXCEPT ![c] = TRUE]
      BY <1>0, <2>1, <2>3 DEF Send, Owed
    <3>2. Service!Ask(c)
      BY <2>3, <3>1 DEF Send, Service!Ask, Owed
    <3> QED
      BY <3>2 DEF Service!Next
  <2>4. CASE Receive(c)
    <3>1. Service!Take(c)
      BY <2>1, <2>4 DEF Receive, Service!Take
    <3> QED
      BY <3>1 DEF Service!Next
  <2>5. CASE Leave(c)
    <3>1. Service!Leave(c)
      BY <2>1, <2>5 DEF Leave, Service!Leave
    <3> QED
      BY <3>1 DEF Service!Next
  <2> QED
    BY <1>4, <2>2, <2>3, <2>4, <2>5 DEF Clients, ClientStep
<1> QED
  BY <1>1, <1>2, <1>3, <1>4 DEF Next

\* The server implements EchoService: every answer goes to the client its
\* line came from, and each line has at most one, for every interleaving of
\* main's writes to the array with the threads' reads and writes.
THEOREM ImplementsEcho == Spec => EchoSpec
<1>1. IInv /\ OneLine /\ [Next]_vars => [Service!Next]_(Service!abstract)
  BY NextRefines
<1> QED
  BY <1>1, InitRefines, Invariance, OneLineInvariance, PTL
     DEF Spec, EchoSpec, Service!Spec

-----------------------------------------------------------------------------
(* Nobody is forgotten.                                                    *)

\* A client that waits has its line or its answer somewhere, and a thread
\* ends only when its client has gone.
LineStays == \A c \in Conns : cl[c] = "waiting" => up[c] \/ th[c] = "write" \/ down[c]
EndsAlone == \A c \in Conns : th[c] \in {"close", "ended"} => cl[c] = "gone"

StaysInv == PlaceInv /\ LineStays /\ EndsAlone

\* Who has to take the next step for a client that waits: its thread, or main,
\* which has not come to it yet; or nobody, when no thread could be started.
WaitIsSomebodys ==
    ~Stopped =>
        \A c \in Conns : cl[c] = "waiting" /\ ~down[c] =>
            \/ th[c] = "write"
            \/ up[c] /\ \/ Queued(c)
                        \/ pc = "start" /\ conn[connfd] = c
                        \/ th[c] \in {"read", "failed"}

LEMMA StaysInit == Init => StaysInv
  BY PlaceInit DEF Init, NetInit, StaysInv, LineStays, EndsAlone

LEMMA MainStays ==
    ASSUME IInv, StaysInv, MainStep
    PROVE  StaysInv'
<1>1. /\ UNCHANGED <<cl, up, down>>
      /\ \A c \in Conns : th'[c] = "write" <=> th[c] = "write"
  BY MainLines
<1>2. PlaceInv'
  <2>1. ASSUME NEW f \in Fds, Accept(f)
        PROVE  PlaceInv'
    BY <2>1, TakeConnPlaces DEF Accept, IInv, StaysInv
  <2>2. CASE AcceptFails \/ StartThread \/ BeyondArray
    BY <2>2, PlaceUnchanged DEF AcceptFails, StartThread, BeyondArray, IInv, StaysInv
  <2> QED
    BY <2>1, <2>2 DEF MainStep
<1>3. LineStays'
  BY <1>1 DEF StaysInv, LineStays
<1>4. \A c \in Conns : th'[c] \in {"close", "ended"} => th'[c] = th[c]
  <2>1. CASE StartThread
    <3>1. PICK t \in {"read", "failed"} : th' = [th EXCEPT ![conn[connfd]] = t]
      BY <2>1 DEF StartThread
    <3> QED
      BY <3>1 DEF IInv, TypeOK
  <2>2. CASE ~StartThread
    BY <2>2 DEF MainStep, Accept, AcceptFails, BeyondArray
  <2> QED
    BY <2>1, <2>2
<1>5. EndsAlone'
  BY <1>1, <1>4 DEF StaysInv, EndsAlone
<1> QED
  BY <1>2, <1>3, <1>5 DEF StaysInv

LEMMA ThreadStays ==
    ASSUME IInv, StaysInv, NEW c \in Conns, Thread(c)
    PROVE  StaysInv'
<1>0. /\ th \in [Conns -> {"none", "failed", "read", "write", "close", "ended"}]
      /\ up \in [Conns -> BOOLEAN] /\ down \in [Conns -> BOOLEAN]
      /\ conn \in [Fds -> Conns \cup {NoConn}]
  BY DEF IInv, TypeOK, NetInv, NetTypeOK
<1>1. Living(c) /\ Fd(c) \in Fds /\ conn[Fd(c)] = c
  BY DEF Thread, Read, Write, Failure, Eof, Close, Living, IInv, EntriesInv, OwnEntryOf
<1>2. PlaceInv'
  <2>1. CASE Failure(c)
    BY <1>1, <2>1, ServePlaces DEF Failure, IInv, StaysInv
  <2>2. CASE Close(c)
    <3>1. /\ conn' = [conn EXCEPT ![Fd(c)] = NoConn] /\ cl[c] = "gone"
          /\ UNCHANGED <<queue, cl, end>>
      BY <2>2 DEF Close, StaysInv, EndsAlone
    <3>2. \A d \in Conns \ {c} : Placed(d) => Placed(d)'
      BY <1>0, <1>1, <3>1 DEF Placed, Queued
    <3> QED
      BY <3>1, <3>2 DEF PlaceInv, StaysInv
  <2>3. CASE Read(c) \/ Write(c) \/ Eof(c)
    BY <2>3 DEF Read, Write, Eof, net, StaysInv, PlaceInv, Placed, Queued
  <2> QED
    BY <2>1, <2>2, <2>3 DEF Thread
<1>3. LineStays'
  BY <1>0, ThreadLines DEF StaysInv, LineStays
<1>4. EndsAlone'
  <2>1. UNCHANGED cl /\ \A d \in Conns \ {c} : th'[d] = th[d]
    BY <1>0, ThreadLines
  <2>2. th'[c] \in {"close", "ended"} => cl[c] = "gone"
    <3>1. CASE Eof(c)
      BY <1>1, <3>1 DEF Eof, StaysInv, PlaceInv
    <3>2. CASE Close(c)
      BY <3>2 DEF Close, StaysInv, EndsAlone
    <3>3. CASE Read(c) \/ Write(c) \/ Failure(c)
      BY <1>0, <3>3 DEF Read, AfterRead, Write, Failure
    <3> QED
      BY <3>1, <3>2, <3>3 DEF Thread
  <2> QED
    BY <2>1, <2>2 DEF StaysInv, EndsAlone
<1> QED
  BY <1>2, <1>3, <1>4 DEF StaysInv

LEMMA ClientStays ==
    ASSUME IInv, StaysInv, NEW c \in Conns, Clients(c)
    PROVE  StaysInv'
<1>1. ClientStep(c) /\ UNCHANGED th
  BY DEF Clients
<1>2. PlaceInv'
  BY <1>1, ClientPlaces DEF IInv, StaysInv
<1>3. LineStays'
  BY <1>1 DEF ClientStep, Connect, Send, Receive, Leave, IInv, NetInv, NetTypeOK,
              StaysInv, LineStays
<1>4. \A d \in Conns : th[d] \in {"close", "ended"} => cl'[d] = cl[d]
  BY <1>1 DEF ClientStep, Connect, Send, Receive, Leave, IInv, NetInv, NetTypeOK,
              StaysInv, EndsAlone
<1>5. EndsAlone'
  BY <1>1, <1>4 DEF StaysInv, EndsAlone
<1> QED
  BY <1>2, <1>3, <1>5 DEF StaysInv

LEMMA StaysInvariance == Spec => []StaysInv
<1>1. IInv /\ StaysInv /\ [Next]_vars => StaysInv'
  <2>1. ASSUME IInv, StaysInv, UNCHANGED vars
        PROVE  StaysInv'
    <3>1. PlaceInv'
      BY <2>1, PlaceUnchanged DEF vars, net, IInv, StaysInv
    <3> QED
      BY <2>1, <3>1 DEF vars, StaysInv, LineStays, EndsAlone
  <2> QED
    BY <2>1, MainStays, ThreadStays, ClientStays DEF Next
<1> QED
  BY <1>1, StaysInit, Invariance, PTL DEF Spec

\* No client that waits is forgotten: its line is with a thread that is about
\* to read or answer it, or its connection is waiting for main; only a thread
\* that pthread_create did not start (multithread-server.c, 91) leaves a line
\* to nobody, and only an accept that fails for ever the queue.
THEOREM NobodyIsForgotten == Spec => []WaitIsSomebodys
<1>1. IInv /\ StaysInv => WaitIsSomebodys
  <2> SUFFICES ASSUME IInv, StaysInv, ~Stopped, NEW c \in Conns, cl[c] = "waiting",
                      ~down[c], th[c] # "write"
               PROVE  up[c] /\ \/ Queued(c)
                               \/ pc = "start" /\ conn[connfd] = c
                               \/ th[c] \in {"read", "failed"}
    BY DEF WaitIsSomebodys
  <2>1. up[c]
    BY DEF StaysInv, LineStays
  <2>2. Queued(c) \/ \E f \in Fds : conn[f] = c
    BY DEF StaysInv, PlaceInv, Placed
  <2>3. ASSUME NEW f \in Fds, conn[f] = c
        PROVE  (pc = "start" /\ conn[connfd] = c) \/ Living(c) \/ th[c] = "failed"
    BY <2>3, NetAssumption DEF IInv, OpenIsServed, Stopped
  <2>4. Living(c) => th[c] = "read"
    BY DEF Living, StaysInv, EndsAlone
  <2> QED
    BY <2>1, <2>2, <2>3, <2>4
<1> QED
  BY <1>1, Invariance, StaysInvariance, PTL
=============================================================================
