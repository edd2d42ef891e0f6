-------------------------- MODULE EpollServerProofs --------------------------
(***************************************************************************)
(* Theorems about EpollServer, for any number of connections, descriptors  *)
(* and slots, and every order in which a batch is handled.                 *)
(***************************************************************************)
EXTENDS EpollServer, EchoNetProofs

TypeOK ==
    /\ pc \in {"wait", "events", "exited", "hung"}
    /\ client \in [Slots -> Fds \cup {-1}]
    /\ maxi \in -1 .. OpenMax - 1
    /\ watched \in SUBSET (Fds \cup {ListenFd})
    /\ batch \in SUBSET (Fds \cup {ListenFd})
    /\ witness \in [Fds -> Conns \cup {NoConn}]

IInv == NetInv /\ TypeOK /\ TablesAgree /\ NoStaleEvent

LEMMA FdsNat == Fds \subseteq Nat /\ ListenFd \in Nat /\ ListenFd \notin Fds
  BY NetAssumption, ListenApart DEF Fds

LEMMA InitInv == Init => IInv
<1> SUFFICES ASSUME Init
             PROVE  IInv
  OBVIOUS
<1>1. NetInv
  BY NetInitInv DEF Init
<1>2. TypeOK
  BY OpenMaxAssumption DEF Init, TypeOK
<1>3. TablesAgree /\ NoStaleEvent
  BY DEF Init, NetInit, TablesAgree, NoStaleEvent
<1> QED
  BY <1>1, <1>2, <1>3 DEF IInv

LEMMA WaitInv ==
    ASSUME IInv, Wait
    PROVE  IInv'
<1>1. /\ batch' \in SUBSET {f \in watched : Readable(f)}
      /\ witness' = conn /\ pc = "wait" /\ pc' = "events"
      /\ UNCHANGED <<client, maxi, watched, net>>
  BY DEF Wait, tables
<1>2. NetInv'
  BY <1>1, NetUnchanged DEF IInv
<1>3. TypeOK' /\ TablesAgree'
  BY <1>1 DEF IInv, TypeOK, NetInv, NetTypeOK, TablesAgree, net
<1>4. NoStaleEvent'
  BY <1>1 DEF IInv, NoStaleEvent, Readable, net
<1> QED
  BY <1>2, <1>3, <1>4 DEF IInv

LEMMA AcceptNewInv ==
    ASSUME IInv, NEW f \in Fds, NEW j \in Slots, AcceptNew(f, j)
    PROVE  IInv'
<1>1. /\ pc = "events" /\ pc' \in {"wait", "events"}
      /\ client[j] < 0
      /\ client' = [client EXCEPT ![j] = f]
      /\ maxi' = IF j > maxi THEN j ELSE maxi
      /\ watched' = watched \cup {f}
      /\ batch' = batch \ {ListenFd}
      /\ witness' = witness
      /\ TakeConn(f)
  BY DEF AcceptNew, FreeSlots, Added, Rest, After
<1>2. /\ NetInv' /\ Head(queue) \in Conns /\ conn[f] = NoConn
      /\ conn' = [conn EXCEPT ![f] = Head(queue)]
  BY <1>1, TakeConnInv DEF IInv
<1>3. \A g \in Fds : conn'[g] = IF g = f THEN Head(queue) ELSE conn[g]
  BY <1>2 DEF IInv, NetInv, NetTypeOK
<1>4. \A k \in Slots : client'[k] = IF k = j THEN f ELSE client[k]
  BY <1>1 DEF IInv, TypeOK
<1>5. j \in Int /\ maxi \in Int /\ f \in Nat /\ -1 \notin Fds /\ NoConn \notin Conns
  BY FdsNat, NetAssumption, OpenMaxAssumption DEF IInv, TypeOK, Slots
<1>6. TypeOK'
  BY <1>1, OpenMaxAssumption DEF IInv, TypeOK, Slots
<1>7. TablesAgree'
  <2>1. TablesAgree /\ pc # "exited"
    BY <1>1 DEF IInv
  <2>2. \A k \in Slots : client[k] # f
    BY <2>1, <1>2, <1>5 DEF TablesAgree
  <2>3. watched' = {ListenFd} \cup {g \in Fds : conn'[g] # NoConn}
    BY <2>1, <1>1, <1>2, <1>3, <1>5 DEF TablesAgree
  <2>4. \A g \in Fds : conn'[g] # NoConn => \E k \in Slots : client'[k] = g
    <3> SUFFICES ASSUME NEW g \in Fds, conn'[g] # NoConn
                 PROVE  \E k \in Slots : client'[k] = g
      OBVIOUS
    <3>1. CASE g = f
      BY <3>1, <1>4
    <3>2. CASE g # f
      <4>1. PICK k \in Slots : client[k] = g
        BY <3>2, <2>1, <1>3 DEF TablesAgree
      <4>2. k # j
        BY <4>1, <1>1, FdsNat
      <4> QED
        BY <4>1, <4>2, <1>4
    <3> QED
      BY <3>1, <3>2
  <2>5. \A k \in Slots : client'[k] >= 0 => conn'[client'[k]] # NoConn /\ k <= maxi'
    <3> SUFFICES ASSUME NEW k \in Slots, client'[k] >= 0
                 PROVE  conn'[client'[k]] # NoConn /\ k <= maxi'
      OBVIOUS
    <3>1. k \in Int
      BY DEF Slots
    <3>2. CASE k = j
      BY <3>1, <3>2, <1>1, <1>2, <1>3, <1>4, <1>5
    <3>3. CASE k # j
      <4>1. client[k] \in Fds /\ conn[client[k]] # NoConn /\ k <= maxi
        BY <3>3, <2>1, <1>4 DEF TablesAgree, IInv, TypeOK
      <4> QED
        BY <3>1, <3>3, <4>1, <1>1, <1>2, <1>3, <1>4, <1>5
    <3> QED
      BY <3>2, <3>3
  <2>6. \A k, l \in Slots : client'[k] = client'[l] /\ client'[k] >= 0 => k = l
    BY <2>1, <2>2, <1>4 DEF TablesAgree
  <2> QED
    BY <2>3, <2>4, <2>5, <2>6 DEF TablesAgree
<1>8. NoStaleEvent'
  <2> SUFFICES ASSUME NEW g \in batch'
               PROVE  Readable(g)' /\ (g # ListenFd => conn'[g] = witness'[g])
    BY DEF NoStaleEvent
  <2>1. g \in Fds /\ Readable(g) /\ conn[g] = witness[g]
    BY <1>1 DEF IInv, TypeOK, NoStaleEvent
  <2>2. conn'[g] = conn[g] /\ Readable(g)'
    BY <2>1, <1>1, TakeConnReadable DEF IInv
  <2> QED
    BY <2>1, <2>2, <1>1
<1> QED
  BY <1>2, <1>6, <1>7, <1>8 DEF IInv

\* The server stops or hangs in accept.
LEMMA AcceptEndsInv ==
    ASSUME IInv, AcceptFails \/ TooManyClients
    PROVE  IInv'
<1>1. CASE AcceptFails
  <2>1. /\ pc' \in {"exited", "hung"}
        /\ pc = "events"
        /\ UNCHANGED <<client, maxi, watched, batch, witness, net>>
    BY <1>1 DEF AcceptFails, tables
  <2>2. NetInv'
    BY <2>1, NetUnchanged DEF IInv
  <2>3. TypeOK' /\ TablesAgree' /\ NoStaleEvent'
    BY <2>1 DEF IInv, TypeOK, TablesAgree, NoStaleEvent, net
  <2> QED
    BY <2>2, <2>3 DEF IInv
<1>2. CASE TooManyClients
  <2>1. PICK f \in Fds : TakeConn(f)
    BY <1>2 DEF TooManyClients
  <2>2. /\ pc' = "exited"
        /\ UNCHANGED <<client, maxi, watched, batch, witness>>
    BY <1>2 DEF TooManyClients, tables
  <2>3. NetInv'
    BY <2>1, TakeConnInv DEF IInv
  <2>4. TypeOK' /\ TablesAgree' /\ NoStaleEvent'
    BY <2>2 DEF IInv, TypeOK, TablesAgree, NoStaleEvent
  <2> QED
    BY <2>3, <2>4 DEF IInv
<1> QED
  BY <1>1, <1>2

LEMMA ServeStepInv ==
    ASSUME IInv, NEW f \in Fds, Serve(f)
    PROVE  IInv'
<1>1. /\ pc = "events" /\ pc' \in {"wait", "events"}
      /\ f \in batch /\ f # ListenFd
      /\ batch' = batch \ {f}
      /\ UNCHANGED <<maxi, witness>>
  BY DEF Serve, Rest, After
<1>2. Readable(f) /\ conn[f] # NoConn
  BY <1>1 DEF IInv, NoStaleEvent, Readable
<1>3. Answer(f) \/ ReadError(f) \/ ReadEof(f)
  BY DEF Serve
<1>4. /\ NetInv'
      /\ conn' = IF ReadEof(f) THEN [conn EXCEPT ![f] = NoConn] ELSE conn
      /\ \A g \in Fds \cup {ListenFd} : g # f /\ Readable(g) => Readable(g)'
  BY <1>2, <1>3, ServeInv DEF IInv
<1>5. NoStaleEvent'
  <2> SUFFICES ASSUME NEW g \in batch'
               PROVE  Readable(g)' /\ (g # ListenFd => conn'[g] = witness'[g])
    BY DEF NoStaleEvent
  <2>1. /\ g \in Fds \cup {ListenFd} /\ g # f
        /\ Readable(g) /\ (g # ListenFd => conn[g] = witness[g])
    BY <1>1 DEF IInv, TypeOK, NoStaleEvent
  <2>2. g # ListenFd => conn'[g] = conn[g]
    BY <2>1, <1>4 DEF IInv, NetInv, NetTypeOK
  <2> QED
    BY <2>1, <2>2, <1>1, <1>4
<1>6. CASE ~ReadEof(f)
  <2>1. UNCHANGED <<watched, client, conn>>
    BY <1>4, <1>6 DEF Serve
  <2>2. TypeOK' /\ TablesAgree'
    BY <2>1, <1>1 DEF IInv, TypeOK, TablesAgree
  <2> QED
    BY <2>2, <1>4, <1>5 DEF IInv
<1>7. CASE ReadEof(f)
  <2>1. watched' = watched \ {f} /\ client' = Emptied(f)
    <3>1. ~Answer(f) /\ ~ReadError(f)
      BY <1>7 DEF ReadEof, Answer, ReadError
    <3> QED
      BY <3>1 DEF Serve
  <2>2. \A g \in Fds : conn'[g] = IF g = f THEN NoConn ELSE conn[g]
    BY <1>4, <1>7 DEF IInv, NetInv, NetTypeOK
  <2>3. TablesAgree /\ pc # "exited"
    BY <1>1 DEF IInv
  <2>4. \A k \in Slots : client'[k] = IF client[k] = f THEN -1 ELSE client[k]
    <3> SUFFICES ASSUME NEW k \in Slots
                 PROVE  client'[k] = IF client[k] = f THEN -1 ELSE client[k]
      OBVIOUS
    <3>1. client'[k] = IF k <= maxi /\ client[k] = f THEN -1 ELSE client[k]
      BY <2>1 DEF Emptied
    <3>2. client[k] = f => k <= maxi
      BY <2>3, FdsNat DEF TablesAgree
    <3> QED
      BY <3>1, <3>2
  <2>5. TypeOK'
    <3>1. client' \in [Slots -> Fds \cup {-1}]
      BY <2>1, <2>4 DEF Emptied, IInv, TypeOK
    <3> QED
      BY <3>1, <2>1, <1>1 DEF IInv, TypeOK
  <2>6. TablesAgree'
    <3>1. watched' = {ListenFd} \cup {g \in Fds : conn'[g] # NoConn}
      BY <2>1, <2>2, <2>3, <1>1 DEF TablesAgree
    <3>2. \A g \in Fds : conn'[g] # NoConn => \E k \in Slots : client'[k] = g
      BY <2>2, <2>3, <2>4 DEF TablesAgree
    <3>3. \A k \in Slots : client'[k] >= 0 => conn'[client'[k]] # NoConn /\ k <= maxi'
      <4> SUFFICES ASSUME NEW k \in Slots, client'[k] >= 0
                   PROVE  conn'[client'[k]] # NoConn /\ k <= maxi'
        OBVIOUS
      <4>1. client[k] # f /\ client'[k] = client[k] /\ client[k] \in Fds
        BY <2>4 DEF IInv, TypeOK
      <4> QED
        BY <4>1, <2>2, <2>3, <1>1 DEF TablesAgree
    <3>4. \A k, l \in Slots : client'[k] = client'[l] /\ client'[k] >= 0 => k = l
      BY <2>3, <2>4 DEF TablesAgree
    <3> QED
      BY <3>1, <3>2, <3>3, <3>4 DEF TablesAgree
  <2> QED
    BY <2>5, <2>6, <1>4, <1>5 DEF IInv
<1> QED
  BY <1>6, <1>7

LEMMA ClientsInv ==
    ASSUME IInv, NEW c \in Conns, Clients(c)
    PROVE  IInv'
<1>1. /\ NetInv' /\ conn' = conn /\ ClientStep(c)
      /\ UNCHANGED <<pc, client, maxi, watched, batch, witness>>
  BY ClientStepInv DEF IInv, Clients, tables
<1>2. TypeOK' /\ TablesAgree'
  BY <1>1 DEF IInv, TypeOK, TablesAgree
<1>3. NoStaleEvent'
  <2> SUFFICES ASSUME pc = "events", NEW g \in batch
               PROVE  Readable(g)' /\ (g # ListenFd => conn[g] = witness[g])
    BY <1>1 DEF NoStaleEvent
  <2>1. /\ g \in Fds \cup {ListenFd} /\ Readable(g)
        /\ (g # ListenFd => conn[g] = witness[g])
    BY DEF IInv, TypeOK, NoStaleEvent
  <2> QED
    BY <2>1, <1>1, ClientStepReadable DEF IInv
<1> QED
  BY <1>1, <1>2, <1>3 DEF IInv

LEMMA NextInv == IInv /\ [Next]_vars => IInv'
<1> SUFFICES ASSUME IInv, [Next]_vars
             PROVE  IInv'
  OBVIOUS
<1>1. CASE UNCHANGED vars
  <2>1. UNCHANGED <<pc, client, maxi, watched, batch, witness, net>>
    BY <1>1 DEF vars, net
  <2>2. NetInv'
    BY <2>1, NetUnchanged DEF IInv
  <2>3. TypeOK' /\ TablesAgree' /\ NoStaleEvent'
    BY <2>1 DEF IInv, TypeOK, TablesAgree, NoStaleEvent, Readable, net
  <2> QED
    BY <2>2, <2>3 DEF IInv
<1>2. CASE ServerStep
  BY <1>2, WaitInv, AcceptNewInv, AcceptEndsInv, ServeStepInv DEF ServerStep
<1>3. CASE \E c \in Conns : Clients(c)
  BY <1>3, ClientsInv
<1> QED
  BY <1>1, <1>2, <1>3 DEF Next

\* Types, the net, the tables and the batch hold one another up (epoll-server.c).
THEOREM Invariance == Spec => []IInv
  BY InitInv, NextInv, PTL DEF Spec

\* What epoll watches, the slots and the open connections agree after every
\* step: no connection is forgotten, no closed descriptor stays in a slot,
\* and the search up to maxi finds each (lines 82-94, 108-113).
THEOREM EpollTablesAgree == Spec => []TablesAgree
<1>1. IInv => TablesAgree
  BY DEF IInv
<1> QED
  BY <1>1, Invariance, PTL

\* In whatever order the events of a batch are handled, each is still about
\* the connection it was reported for, and true (lines 71-126).
THEOREM EpollEventsFresh == Spec => []NoStaleEvent
<1>1. IInv => NoStaleEvent
  BY DEF IInv
<1> QED
  BY <1>1, Invariance, PTL

-----------------------------------------------------------------------------
(* The server implements EchoService.                                      *)

LEMMA NextServes == IInv /\ [Next]_vars => [Prompt!Next]_<<cl, up, down>>
<1> SUFFICES ASSUME IInv, [Next]_vars
             PROVE  Prompt!Next \/ UNCHANGED <<cl, up, down>>
  OBVIOUS
<1>1. CASE Wait \/ AcceptFails \/ TooManyClients \/ UNCHANGED vars
  BY <1>1 DEF Wait, AcceptFails, TooManyClients, TakeConn, net, vars
<1>2. ASSUME NEW f \in Fds, NEW j \in Slots, AcceptNew(f, j)
      PROVE  UNCHANGED <<cl, up, down>>
  BY <1>2 DEF AcceptNew, TakeConn
<1>3. ASSUME NEW f \in Fds, Serve(f)
      PROVE  Prompt!Next \/ UNCHANGED <<cl, up, down>>
  <2>1. conn[f] # NoConn
    BY <1>3 DEF Serve, IInv, NoStaleEvent, Readable
  <2>2. Answer(f) \/ ReadError(f) \/ ReadEof(f)
    BY <1>3 DEF Serve
  <2> QED
    BY <2>1, <2>2, ServerServes DEF IInv
<1>4. ASSUME NEW c \in Conns, Clients(c)
      PROVE  Prompt!Next
  BY <1>4, ClientServes DEF Clients
<1> QED
  BY <1>1, <1>2, <1>3, <1>4 DEF Next, ServerStep

\* Each line is answered at most once, to the client it came from, although
\* the server finds that client through a descriptor that epoll_wait reported
\* before others were closed and reused (lines 71-126).
THEOREM EpollImplementsEcho == Spec => Prompt!Spec
<1>1. Init => Prompt!Init
  BY NetInitServes DEF Init
<1>2. IInv /\ [Next]_vars => [Prompt!Next]_(Prompt!abstract)
  BY NextServes DEF Prompt!abstract
<1> QED
  BY <1>1, <1>2, Invariance, PTL DEF Spec, Prompt!Spec

\* A client that waits has its line or the answer on the way, and not both; one
\* that types its next line has neither, so that its answers are never behind.
THEOREM EpollKeepsStep == Spec => []WaitsForOne
  BY EpollImplementsEcho, ServiceKeepsStep, PTL

\* Whatever is to be done, epoll_wait would return for: for every client that
\* waits, and for every connection that its client has left, a descriptor that
\* is watched is ready.
EpollHears ==
    pc # "exited" => \A c \in Conns : Calls(c) => HeardOn(watched, c)

LEMMA PlacesInvariance == Spec => []PlaceInv
<1>1. Init => PlaceInv
  BY PlaceInit DEF Init
<1>2. IInv /\ PlaceInv /\ [Next]_vars => PlaceInv'
  <2> SUFFICES ASSUME IInv, PlaceInv, [Next]_vars
               PROVE  PlaceInv'
    OBVIOUS
  <2>1. CASE Wait \/ AcceptFails \/ UNCHANGED vars
    BY <2>1, PlaceUnchanged DEF Wait, AcceptFails, vars, net, IInv
  <2>2. CASE TooManyClients \/ \E f \in Fds, j \in Slots : AcceptNew(f, j)
    BY <2>2, TakeConnPlaces DEF TooManyClients, AcceptNew, IInv
  <2>3. ASSUME NEW f \in Fds, Serve(f)
        PROVE  PlaceInv'
    <3>1. conn[f] # NoConn
      BY <2>3 DEF Serve, IInv, NoStaleEvent, Readable
    <3>2. Answer(f) \/ ReadError(f) \/ ReadEof(f)
      BY <2>3 DEF Serve
    <3> QED
      BY <3>1, <3>2, ServePlaces DEF IInv
  <2>4. ASSUME NEW c \in Conns, Clients(c)
        PROVE  PlaceInv'
    BY <2>4, ClientPlaces DEF Clients, IInv
  <2> QED
    BY <2>1, <2>2, <2>3, <2>4 DEF Next, ServerStep
<1> QED
  BY <1>1, <1>2, Invariance, PTL DEF Spec

\* The loop never sleeps in epoll_wait while a client waits for it or a closed
\* connection holds a descriptor: nobody waits for a server that waits for
\* everybody (lines 63-126).
THEOREM EpollNeverDeaf == Spec => []EpollHears
<1>1. IInv /\ PlaceInv /\ WaitsForOne => EpollHears
  BY CallIsHeard DEF IInv, EpollHears, TablesAgree
<1> QED
  BY <1>1, Invariance, PlacesInvariance, EpollKeepsStep, PTL
=============================================================================
