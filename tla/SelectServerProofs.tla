------------------------- MODULE SelectServerProofs -------------------------
(***************************************************************************)
(* Theorems about SelectServer, for any number of connections and of       *)
(* descriptors and any FD_SETSIZE.                                         *)
(***************************************************************************)
EXTENDS SelectServer, EchoNetProofs, FiniteSetTheorems

\* While main is about the listening socket, nobody has been served yet.
ListenFirst ==
    pc = "listen" => /\ i = 0
                     /\ \A f \in rset : f # ListenFd => conn[f] # NoConn

\* NoStaleEvent, from the moment select has returned.
Fresh ==
    pc \in {"listen", "scan"} =>
        \A j \in Pending : /\ conn[client[j]] = witness[client[j]]
                           /\ Readable(client[j])

IInv == NetInv /\ TypeOK /\ TablesAgree /\ ListenFirst /\ Fresh /\ NreadyCounts

LEMMA FdsNat ==
    /\ Fds \subseteq Nat /\ ListenFd \in Nat /\ ListenFd \notin Fds
    /\ Slots \subseteq Nat /\ -1 \notin Fds
  BY NetAssumption, ListenApart DEF Fds, Slots

LEMMA Finite == IsFiniteSet(Fds \cup {ListenFd}) /\ IsFiniteSet(Slots)
<1>1. IsFiniteSet(Fds)
  BY NetAssumption, FS_Interval DEF Fds
<1>2. IsFiniteSet(Slots)
  BY SetSizeAssumption, FS_Interval DEF Slots
<1> QED
  BY <1>1, <1>2, FS_AddElement

LEMMA PendingFinite ==
    /\ IsFiniteSet(Pending) /\ Cardinality(Pending) \in Nat
    /\ Cardinality(Pending) = 0 <=> Pending = {}
<1>1. Pending \in SUBSET Slots
  BY DEF Pending
<1> QED
  BY <1>1, Finite, FS_Subset, FS_CardinalityType, FS_EmptySet

LEMMA InitInv == Init => IInv
<1> SUFFICES ASSUME Init
             PROVE  IInv
  OBVIOUS
<1>1. NetInv
  BY NetInitInv DEF Init
<1>2. TypeOK
  BY <1>1, SetSizeAssumption DEF Init, TypeOK, NetInv
<1>3. TablesAgree /\ ListenFirst /\ Fresh /\ NreadyCounts
  BY DEF Init, NetInit, TablesAgree, ListenFirst, Fresh, NreadyCounts
<1> QED
  BY <1>1, <1>2, <1>3 DEF IInv

-----------------------------------------------------------------------------
(* select.                                                                 *)

\* Each open descriptor that select reports is in one slot: the scan has as
\* many slots to serve as select has reported open descriptors.
LEMMA SlotsOfReady ==
    ASSUME TypeOK, TablesAgree, pc \notin {"exited", "undefined"},
           NEW R \in SUBSET Fds, \A f \in R : conn[f] # NoConn
    PROVE  LET P == {j \in Slots : 0 <= j /\ j <= maxi /\ client[j] >= 0 /\ client[j] \in R}
           IN  Cardinality(P) = Cardinality(R)
<1> DEFINE P == {j \in Slots : 0 <= j /\ j <= maxi /\ client[j] >= 0 /\ client[j] \in R}
           g == [j \in P |-> client[j]]
<1>1. IsFiniteSet(P)
  <2>1. P \in SUBSET Slots
    OBVIOUS
  <2> QED
    BY <2>1, Finite, FS_Subset
<1>2. g \in [P -> R]
  OBVIOUS
<1>3. \A j, k \in P : g[j] = g[k] => j = k
  BY DEF TablesAgree
<1>4. \A f \in R : \E j \in P : g[j] = f
  <2> SUFFICES ASSUME NEW f \in R
               PROVE  \E j \in P : g[j] = f
    OBVIOUS
  <2>1. PICK j \in Slots : client[j] = f
    BY DEF TablesAgree
  <2>2. f \in Nat /\ j \in Nat
    BY FdsNat
  <2>3. j \in P
    BY <2>1, <2>2 DEF TablesAgree
  <2> QED
    BY <2>1, <2>3
<1>5. g \in Bijection(P, R)
  BY <1>2, <1>3, <1>4 DEF Bijection, Injection, IsInjective, Surjection
<1>6. ExistsBijection(P, R)
  BY <1>5 DEF ExistsBijection
<1> QED
  BY <1>1, <1>6, FS_Bijection

LEMMA SelectInv ==
    ASSUME IInv, Select
    PROVE  IInv'
<1> DEFINE ready == {f \in allset : f <= maxfd /\ Readable(f)}
           R     == ready \ {ListenFd}
<1>1. /\ TurnOver /\ ready # {}
      /\ rset' = ready /\ nready' = Cardinality(ready) /\ i' = 0
      /\ witness' = conn
      /\ pc' = IF ListenFd \in ready THEN "listen" ELSE "scan"
      /\ UNCHANGED <<client, maxi, maxfd, allset, net>>
  BY DEF Select, tables
<1>2. pc \notin {"exited", "undefined"}
  BY <1>1 DEF TurnOver
<1>3. NetInv'
  BY <1>1, NetUnchanged DEF IInv
<1>4. ready \in SUBSET (Fds \cup {ListenFd})
  BY DEF IInv, TypeOK
<1>5. IsFiniteSet(ready) /\ Cardinality(ready) \in Nat
  BY <1>4, Finite, FS_Subset, FS_CardinalityType
<1>6. R \in SUBSET Fds /\ \A f \in R : conn[f] # NoConn /\ Readable(f)
  BY <1>4 DEF Readable
<1>7. TypeOK'
  BY <1>1, <1>3, <1>4, <1>5 DEF IInv, TypeOK, NetInv, NetTypeOK
<1>8. TablesAgree'
  BY <1>1, <1>2 DEF IInv, TablesAgree, net
<1>9. ListenFirst'
  BY <1>1, <1>6 DEF ListenFirst, net
<1>10. Pending' = {j \in Slots : 0 <= j /\ j <= maxi /\ client[j] >= 0 /\ client[j] \in R}
  <2>1. \A j \in Slots : client[j] # ListenFd
    BY FdsNat DEF IInv, TypeOK
  <2> QED
    BY <2>1, <1>1 DEF Pending
<1>11. Fresh'
  <2> SUFFICES ASSUME NEW j \in Pending'
               PROVE  conn'[client'[j]] = witness'[client'[j]] /\ Readable(client[j])'
    BY DEF Fresh
  <2>1. client[j] \in R
    BY <1>10
  <2> QED
    BY <2>1, <1>1, <1>6 DEF Readable, net
<1>12. Cardinality(Pending') = Cardinality(R)
  BY <1>2, <1>6, <1>10, SlotsOfReady DEF IInv
<1>13. NreadyCounts'
  <2>1. Cardinality(R) = IF ListenFd \in ready THEN Cardinality(ready) - 1
                                               ELSE Cardinality(ready)
    BY <1>5, FS_RemoveElement
  <2>2. Cardinality(ready) # 0
    BY <1>1, <1>5, FS_EmptySet
  <2> QED
    BY <2>1, <2>2, <1>1, <1>5, <1>12 DEF NreadyCounts
<1> QED
  BY <1>3, <1>7, <1>8, <1>9, <1>11, <1>13 DEF IInv

-----------------------------------------------------------------------------
(* The listening socket.                                                   *)

LEMMA AcceptNewInv ==
    ASSUME IInv, NEW f \in Fds, NEW j \in Slots, AcceptNew(f, j)
    PROVE  IInv'
<1>0. client[j] \in Int
  <2>1. client[j] \in Fds \cup {-1}
    BY DEF IInv, TypeOK
  <2>2. Fds \cup {-1} \subseteq Int
    BY FdsNat
  <2> QED
    BY <2>1, <2>2
<1>1. /\ pc = "listen" /\ client[j] < 0 /\ TakeConn(f)
      /\ client' = [client EXCEPT ![j] = f]
      /\ allset' = allset \cup {f}
      /\ maxfd' = IF f > maxfd THEN f ELSE maxfd
      /\ maxi' = IF j > maxi THEN j ELSE maxi
      /\ nready' = nready - 1
      /\ pc' = IF nready - 1 = 0 THEN "select" ELSE "scan"
      /\ UNCHANGED <<rset, i, witness>>
  BY DEF AcceptNew, FreeSlots, RaisedMaxi, AfterListen
<1>2. /\ NetInv' /\ Head(queue) \in Conns /\ conn[f] = NoConn
      /\ conn' = [conn EXCEPT ![f] = Head(queue)]
  BY <1>1, TakeConnInv DEF IInv
<1>3. \A g \in Fds : conn'[g] = IF g = f THEN Head(queue) ELSE conn[g]
  BY <1>2 DEF IInv, NetInv, NetTypeOK
<1>4. \A k \in Slots : client'[k] = IF k = j THEN f ELSE client[k]
  BY <1>1 DEF IInv, TypeOK
<1>5. /\ j \in Nat /\ maxi \in Int /\ f \in Nat /\ maxfd \in Nat /\ i = 0
      /\ NoConn \notin Conns /\ f # ListenFd
  BY <1>1, FdsNat, NetAssumption, SetSizeAssumption DEF IInv, TypeOK, ListenFirst
<1>6. TypeOK'
  <2>1. maxi' \in -1 .. SetSize - 1 /\ maxfd' \in {ListenFd} \cup Fds
    BY <1>1, SetSizeAssumption DEF IInv, TypeOK, Slots
  <2>2. client' \in [Slots -> Fds \cup {-1}] /\ nready' \in Int
    BY <1>1 DEF IInv, TypeOK
  <2> QED
    BY <1>1, <1>2, <2>1, <2>2 DEF IInv, TypeOK, NetInv
<1>7. TablesAgree /\ pc \notin {"exited", "undefined"}
  BY <1>1 DEF IInv
<1>8. \A k \in Slots : client[k] # f
  BY <1>2, <1>5, <1>7 DEF TablesAgree
<1>9. TablesAgree'
  <2>1. allset' = {ListenFd} \cup {g \in Fds : conn'[g] # NoConn}
    BY <1>1, <1>2, <1>3, <1>5, <1>7 DEF TablesAgree
  <2>2. \A g \in Fds : conn'[g] # NoConn => \E k \in Slots : client'[k] = g
    <3> SUFFICES ASSUME NEW g \in Fds, conn'[g] # NoConn
                 PROVE  \E k \in Slots : client'[k] = g
      OBVIOUS
    <3>1. CASE g = f
      BY <3>1, <1>4
    <3>2. CASE g # f
      <4>1. PICK k \in Slots : client[k] = g
        BY <3>2, <1>3, <1>7 DEF TablesAgree
      <4>2. k # j
        BY <4>1, <1>1, FdsNat
      <4> QED
        BY <4>1, <4>2, <1>4
    <3> QED
      BY <3>1, <3>2
  <2>3. \A k \in Slots : client'[k] >= 0 =>
            conn'[client'[k]] # NoConn /\ k <= maxi' /\ client'[k] <= maxfd'
    <3> SUFFICES ASSUME NEW k \in Slots, client'[k] >= 0
                 PROVE  conn'[client'[k]] # NoConn /\ k <= maxi' /\ client'[k] <= maxfd'
      OBVIOUS
    <3>1. k \in Nat
      BY FdsNat
    <3>2. CASE k = j
      BY <3>1, <3>2, <1>1, <1>2, <1>3, <1>4, <1>5
    <3>3. CASE k # j
      <4>1. client[k] \in Fds /\ conn[client[k]] # NoConn /\ k <= maxi /\ client[k] <= maxfd
        BY <3>3, <1>4, <1>7 DEF TablesAgree, IInv, TypeOK
      <4>2. client[k] \in Nat
        BY <4>1, FdsNat
      <4> QED
        BY <3>1, <3>3, <4>1, <4>2, <1>1, <1>2, <1>3, <1>4, <1>5
    <3> QED
      BY <3>2, <3>3
  <2>4. \A k, l \in Slots : client'[k] = client'[l] /\ client'[k] >= 0 => k = l
    BY <1>4, <1>7, <1>8 DEF TablesAgree
  <2> QED
    BY <2>1, <2>2, <2>3, <2>4 DEF TablesAgree
<1>10. f \notin rset
  BY <1>1, <1>2, <1>5 DEF IInv, ListenFirst
<1>11. Pending' = Pending
  <2>1. \A k \in Slots : k # j /\ client[k] >= 0 => k <= maxi /\ k <= maxi'
    <3> SUFFICES ASSUME NEW k \in Slots, client[k] >= 0
                 PROVE  k <= maxi /\ k <= maxi'
      OBVIOUS
    <3>1. k <= maxi /\ k \in Nat
      BY <1>7, FdsNat DEF TablesAgree
    <3> QED
      BY <3>1, <1>1, <1>5
  <2>2. j \notin Pending /\ j \notin Pending'
    <3>1. client'[j] = f
      BY <1>4
    <3> QED
      BY <3>1, <1>0, <1>1, <1>10 DEF Pending
  <2>3. \A k \in Slots \ {j} : k \in Pending' <=> k \in Pending
    BY <2>1, <1>1, <1>4 DEF Pending
  <2> QED
    BY <2>2, <2>3 DEF Pending
<1>12. Fresh'
  <2> SUFFICES ASSUME NEW k \in Pending'
               PROVE  conn'[client'[k]] = witness'[client'[k]] /\ Readable(client[k])'
    BY DEF Fresh
  <2>1. /\ k \in Slots /\ k # j /\ client'[k] = client[k] /\ client[k] \in Fds
        /\ Readable(client[k]) /\ conn[client[k]] = witness[client[k]]
    <3>1. k \in Pending /\ k \in Slots /\ client[k] >= 0 /\ client[k] \in Fds
      BY <1>11, FdsNat DEF Pending, IInv, TypeOK
    <3>2. k # j
      BY <3>1, <1>0, <1>1
    <3> QED
      BY <3>1, <3>2, <1>1, <1>4 DEF IInv, Fresh
  <2>2. conn'[client[k]] = conn[client[k]] /\ k \in Slots
    BY <2>1, <1>1, TakeConnReadable DEF IInv
  <2>3. \A g \in Fds : Readable(g) => Readable(g)'
    BY <1>1, TakeConnReadable DEF IInv
  <2>4. Readable(client[k])'
    BY <2>1, <2>3 DEF Readable, ListenFd
  <2> QED
    BY <2>1, <2>2, <2>4, <1>1
<1>13. NreadyCounts'
  BY <1>1, <1>11, PendingFinite DEF IInv, NreadyCounts
<1>14. ListenFirst'
  BY <1>1 DEF ListenFirst
<1> QED
  BY <1>2, <1>6, <1>9, <1>12, <1>13, <1>14 DEF IInv

\* The server stops, or its tables are no longer known.
LEMMA AcceptEndsInv ==
    ASSUME IInv, AcceptFails \/ \E f \in Fds : AcceptBeyondSet(f)
    PROVE  IInv'
<1>1. CASE AcceptFails
  <2>1. /\ pc' \in {"exited", "hung"} /\ pc = "listen"
        /\ UNCHANGED <<client, maxi, maxfd, allset, rset, nready, i, witness, net>>
    BY <1>1 DEF AcceptFails, tables
  <2>2. NetInv'
    BY <2>1, NetUnchanged DEF IInv
  <2>3. TypeOK' /\ TablesAgree' /\ ListenFirst' /\ Fresh' /\ NreadyCounts'
    BY <2>1, <2>2 DEF IInv, NetInv, TypeOK, TablesAgree, ListenFirst, Fresh, NreadyCounts, net
  <2> QED
    BY <2>2, <2>3 DEF IInv
<1>2. ASSUME NEW f \in Fds, AcceptBeyondSet(f)
      PROVE  IInv'
  <2>1. /\ pc' = "undefined" /\ TakeConn(f)
        /\ UNCHANGED <<client, maxi, maxfd, allset, rset, nready, i, witness>>
    BY <1>2 DEF AcceptBeyondSet, tables
  <2>2. NetInv'
    BY <2>1, TakeConnInv DEF IInv
  <2>3. TypeOK' /\ TablesAgree' /\ ListenFirst' /\ Fresh' /\ NreadyCounts'
    BY <2>1, <2>2 DEF IInv, NetInv, TypeOK, TablesAgree, ListenFirst, Fresh, NreadyCounts
  <2> QED
    BY <2>2, <2>3 DEF IInv
<1> QED
  BY <1>1, <1>2

-----------------------------------------------------------------------------
(* The scan.                                                               *)

LEMMA ServeStepInv ==
    ASSUME IInv, NEW j \in Slots, Serve(j)
    PROVE  IInv'
<1> DEFINE f == client[j]
<1>1. /\ pc = "scan" /\ j \in Pending
      /\ \A k \in Pending : j <= k
      /\ nready' = nready - 1
      /\ pc' = IF nready = 1 THEN "select" ELSE "scan"
      /\ i' = j + 1
      /\ UNCHANGED <<maxi, maxfd, rset, witness>>
  BY DEF Serve
<1>2. f \in Fds /\ j \in Nat /\ client[j] >= 0 /\ f # ListenFd
  BY <1>1, FdsNat DEF Pending, IInv, TypeOK
<1>3. Readable(f) /\ conn[f] # NoConn
  BY <1>1, <1>2 DEF IInv, Fresh, Readable
<1>4. Answer(f) \/ ReadError(f) \/ ReadEof(f)
  BY DEF Serve
<1>5. /\ NetInv'
      /\ conn' = IF ReadEof(f) THEN [conn EXCEPT ![f] = NoConn] ELSE conn
      /\ \A g \in Fds \cup {ListenFd} : g # f /\ Readable(g) => Readable(g)'
  BY <1>2, <1>3, <1>4, ServeInv DEF IInv
<1>6. \A g \in Fds : g # f => conn'[g] = conn[g]
  BY <1>5 DEF IInv, NetInv, NetTypeOK
<1>7. \/ /\ ~ReadEof(f)
         /\ UNCHANGED <<allset, client>>
      \/ /\ ReadEof(f)
         /\ allset' = allset \ {f}
         /\ client' = [client EXCEPT ![j] = -1]
  <2>1. ReadEof(f) => ~Answer(f) /\ ~ReadError(f)
    BY DEF ReadEof, Answer, ReadError
  <2> QED
    BY <2>1 DEF Serve, Unwatched, Emptied
<1>8. \A k \in Slots \ {j} : client'[k] = client[k]
  BY <1>7 DEF IInv, TypeOK
<1>9. TablesAgree /\ pc \notin {"exited", "undefined"}
  BY <1>1 DEF IInv
<1>10. \A k \in Slots \ {j} : client[k] # f
  BY <1>2, <1>9 DEF TablesAgree
<1>11. TypeOK'
  <2>1. client' \in [Slots -> Fds \cup {-1}] /\ allset' \in SUBSET (Fds \cup {ListenFd})
    BY <1>7 DEF IInv, TypeOK
  <2>2. nready' \in Int /\ i' \in Nat
    BY <1>1, <1>2 DEF IInv, TypeOK
  <2> QED
    BY <1>1, <1>5, <2>1, <2>2 DEF IInv, TypeOK, NetInv
<1>12. TablesAgree'
  <2>1. CASE ~ReadEof(f)
    BY <2>1, <1>1, <1>5, <1>7, <1>9 DEF TablesAgree
  <2>2. CASE ReadEof(f)
    <3>1. /\ allset' = allset \ {f} /\ client' = [client EXCEPT ![j] = -1]
          /\ \A g \in Fds : conn'[g] = IF g = f THEN NoConn ELSE conn[g]
      BY <2>2, <1>5, <1>7 DEF IInv, NetInv, NetTypeOK
    <3>2. client'[j] = -1
      BY <3>1 DEF IInv, TypeOK
    <3>3. allset' = {ListenFd} \cup {g \in Fds : conn'[g] # NoConn}
      BY <3>1, <1>2, <1>9 DEF TablesAgree
    <3>4. \A g \in Fds : conn'[g] # NoConn => \E k \in Slots : client'[k] = g
      <4> SUFFICES ASSUME NEW g \in Fds, conn'[g] # NoConn
                   PROVE  \E k \in Slots : client'[k] = g
        OBVIOUS
      <4>1. PICK k \in Slots : client[k] = g
        BY <3>1, <1>9 DEF TablesAgree
      <4>2. k # j
        BY <4>1, <3>1
      <4> QED
        BY <4>1, <4>2, <1>8
    <3>5. \A k \in Slots : client'[k] >= 0 =>
              conn'[client'[k]] # NoConn /\ k <= maxi' /\ client'[k] <= maxfd'
      <4> SUFFICES ASSUME NEW k \in Slots, client'[k] >= 0
                   PROVE  conn'[client'[k]] # NoConn /\ k <= maxi' /\ client'[k] <= maxfd'
        OBVIOUS
      <4>1. k # j /\ client'[k] = client[k] /\ client[k] # f /\ client[k] \in Fds
        BY <3>2, <1>8, <1>10 DEF IInv, TypeOK
      <4> QED
        BY <4>1, <3>1, <1>1, <1>9 DEF TablesAgree
    <3>6. \A k, l \in Slots : client'[k] = client'[l] /\ client'[k] >= 0 => k = l
      BY <3>2, <1>8, <1>9 DEF TablesAgree
    <3> QED
      BY <3>3, <3>4, <3>5, <3>6 DEF TablesAgree
  <2> QED
    BY <2>1, <2>2
<1>13. Pending' = Pending \ {j}
  <2>1. i \in Nat /\ i <= j
    BY <1>1 DEF Pending, IInv, TypeOK
  <2>2. j \notin Pending'
    BY <1>1, <1>2 DEF Pending
  <2>3. ASSUME NEW k \in Slots \ {j}
        PROVE  k \in Pending' <=> k \in Pending
    <3>1. k \in Nat /\ client'[k] = client[k]
      BY <1>8, FdsNat
    <3>2. k \in Pending => j + 1 <= k
      BY <3>1, <1>1, <1>2
    <3>3. j + 1 <= k => i <= k
      BY <2>1, <3>1, <1>2
    <3> QED
      BY <3>1, <3>2, <3>3, <1>1 DEF Pending
  <2> QED
    BY <2>2, <2>3 DEF Pending
<1>14. Fresh'
  <2> SUFFICES ASSUME NEW k \in Pending'
               PROVE  conn'[client'[k]] = witness'[client'[k]] /\ Readable(client[k])'
    BY DEF Fresh
  <2>1. /\ k \in Slots \ {j} /\ client'[k] = client[k] /\ client[k] \in Fds
        /\ client[k] # f
        /\ Readable(client[k]) /\ conn[client[k]] = witness[client[k]]
    BY <1>1, <1>8, <1>10, <1>13 DEF Pending, IInv, TypeOK, Fresh
  <2>2. Readable(client[k])'
    BY <2>1, <1>5 DEF Readable, ListenFd
  <2> QED
    BY <2>1, <2>2, <1>1, <1>6
<1>15. NreadyCounts'
  <2>1. nready = Cardinality(Pending) /\ nready > 0 /\ nready \in Nat
    BY <1>1, PendingFinite DEF IInv, NreadyCounts
  <2>2. Cardinality(Pending \ {j}) = nready - 1
    BY <2>1, <1>1, PendingFinite, FS_RemoveElement
  <2> QED
    BY <2>1, <2>2, <1>1, <1>13 DEF NreadyCounts
<1>16. ListenFirst'
  BY <1>1 DEF ListenFirst
<1> QED
  BY <1>5, <1>11, <1>12, <1>14, <1>15, <1>16 DEF IInv

-----------------------------------------------------------------------------
LEMMA ClientsInv ==
    ASSUME IInv, NEW c \in Conns, Clients(c)
    PROVE  IInv'
<1>1. /\ NetInv' /\ conn' = conn /\ ClientStep(c)
      /\ UNCHANGED <<pc, client, maxi, maxfd, allset, rset, nready, i, witness>>
  BY ClientStepInv DEF IInv, Clients, tables
<1>2. Pending' = Pending
  BY <1>1 DEF Pending
<1>3. TypeOK' /\ TablesAgree' /\ ListenFirst' /\ NreadyCounts'
  BY <1>1, <1>2 DEF IInv, NetInv, TypeOK, TablesAgree, ListenFirst, NreadyCounts
<1>4. Fresh'
  <2> SUFFICES ASSUME pc \in {"listen", "scan"}, NEW j \in Pending
               PROVE  conn[client[j]] = witness[client[j]] /\ Readable(client[j])'
    BY <1>1, <1>2 DEF Fresh
  <2>1. /\ client[j] \in Fds \cup {ListenFd} /\ Readable(client[j])
        /\ conn[client[j]] = witness[client[j]]
    BY DEF IInv, TypeOK, Pending, Fresh
  <2>2. \A g \in Fds \cup {ListenFd} : Readable(g) => Readable(g)'
    BY <1>1, ClientStepReadable DEF IInv
  <2> QED
    BY <2>1, <2>2, <1>1 DEF Readable, ListenFd
<1> QED
  BY <1>1, <1>3, <1>4 DEF IInv

LEMMA NextInv == IInv /\ [Next]_vars => IInv'
<1> SUFFICES ASSUME IInv, [Next]_vars
             PROVE  IInv'
  OBVIOUS
<1>1. CASE UNCHANGED vars
  <2>1. UNCHANGED <<pc, client, maxi, maxfd, allset, rset, nready, i, witness, net>>
    BY <1>1 DEF vars, net
  <2>2. NetInv'
    BY <2>1, NetUnchanged DEF IInv
  <2>3. Pending' = Pending
    BY <2>1 DEF Pending
  <2>4. TypeOK' /\ TablesAgree' /\ ListenFirst' /\ NreadyCounts'
    BY <2>1, <2>2, <2>3 DEF IInv, NetInv, TypeOK, TablesAgree, ListenFirst, NreadyCounts, net
  <2>5. Fresh'
    BY <2>1, <2>3 DEF IInv, Fresh, Readable, net
  <2> QED
    BY <2>2, <2>4, <2>5 DEF IInv
<1>2. CASE ServerStep
  BY <1>2, SelectInv, AcceptNewInv, AcceptEndsInv, ServeStepInv DEF ServerStep
<1>3. CASE \E c \in Conns : Clients(c)
  BY <1>3, ClientsInv
<1> QED
  BY <1>1, <1>2, <1>3 DEF Next

\* Types, the net, the tables, the count and the scan hold one another up
\* (select-server.c, 63-119).
THEOREM Invariance == Spec => []IInv
  BY InitInv, NextInv, PTL DEF Spec

\* Every variable of the server keeps its type.
THEOREM SelectTypes == Spec => []TypeOK
<1>1. IInv => TypeOK
  BY DEF IInv
<1> QED
  BY <1>1, Invariance, PTL

\* The watched set, the slots and the open connections agree after every
\* step, below maxi and maxfd: select is never asked about a closed
\* descriptor and never leaves out an open one (lines 59-61, 80-95, 105-110).
THEOREM SelectTablesAgree == Spec => []TablesAgree
<1>1. IInv => TablesAgree
  BY DEF IInv
<1> QED
  BY <1>1, Invariance, PTL

\* What the scan serves is the connection select has reported, and Read does
\* not block there (lines 68, 102, 108).
THEOREM SelectEventsFresh == Spec => []NoStaleEvent
<1>1. IInv => NoStaleEvent
  BY DEF IInv, Fresh, NoStaleEvent
<1> QED
  BY <1>1, Invariance, PTL

\* nready counts the slots left to serve, so that neither early exit of a
\* turn leaves a descriptor behind (lines 97 and 119).
THEOREM SelectCountExact == Spec => []NreadyCounts
<1>1. IInv => NreadyCounts
  BY DEF IInv
<1> QED
  BY <1>1, Invariance, PTL

-----------------------------------------------------------------------------
(* The slots outlast the descriptors an fd_set has bits for.               *)

\* A slot only holds a descriptor that FD_SET was sound for.
WithinSet == \A j \in Slots : client[j] < SetSize

LEMMA WithinSetInv == Spec => []WithinSet
<1>1. Init => WithinSet
  BY SetSizeAssumption DEF Init, WithinSet
<1>2. IInv /\ WithinSet /\ [Next]_vars => WithinSet'
  <2> SUFFICES ASSUME IInv, WithinSet, [Next]_vars
               PROVE  WithinSet'
    OBVIOUS
  <2>0. client \in [Slots -> Fds \cup {-1}]
    BY DEF IInv, TypeOK
  <2>1. CASE \E f \in Fds, j \in Slots : AcceptNew(f, j)
    BY <2>0, <2>1 DEF AcceptNew, WithinSet
  <2>2. CASE \E j \in Slots : Serve(j)
    <3>1. PICK j \in Slots : Serve(j)
      BY <2>2
    <3>2. client' = client \/ client' = [client EXCEPT ![j] = -1]
      BY <3>1 DEF Serve, Emptied
    <3> QED
      BY <2>0, <3>2, SetSizeAssumption DEF WithinSet
  <2>3. CASE UNCHANGED client
    BY <2>3 DEF WithinSet
  <2>4. Select \/ AcceptFails \/ (\E f \in Fds : AcceptBeyondSet(f))
        \/ (\E c \in Conns : Clients(c)) \/ UNCHANGED vars => UNCHANGED client
    BY DEF Select, AcceptFails, AcceptBeyondSet, Clients, tables, vars
  <2> QED
    BY <2>1, <2>2, <2>3, <2>4 DEF Next, ServerStep
<1> QED
  BY <1>1, <1>2, Invariance, PTL DEF Spec

\* A connection that has been reported always finds a slot: the exit for "too
\* many clients" (line 83) is never reached, and descriptors run out of the
\* fd_set first.
SlotIsFree == pc = "listen" => FreeSlots # {}

LEMMA FullNeedsDescriptors ==
    ASSUME IInv, WithinSet, pc = "listen", FreeSlots = {}
    PROVE  FALSE
<1>1. \A j \in Slots : client[j] \in 1 .. SetSize - 1
  <2> SUFFICES ASSUME NEW j \in Slots
               PROVE  client[j] \in 1 .. SetSize - 1
    OBVIOUS
  <2>1. client[j] \in Fds \cup {-1} /\ ~(client[j] < 0) /\ client[j] < SetSize
    BY DEF IInv, TypeOK, FreeSlots, WithinSet
  <2> QED
    BY <2>1, NetAssumption, SetSizeAssumption DEF Fds
<1>2. \A j, k \in Slots : client[j] = client[k] => j = k
  BY <1>1, SetSizeAssumption DEF IInv, TablesAgree
<1>3. client \in Injection(Slots, 1 .. SetSize - 1)
  <2>1. client \in [Slots -> 1 .. SetSize - 1]
    BY <1>1 DEF IInv, TypeOK
  <2> QED
    BY <2>1, <1>2 DEF Injection, IsInjective
<1>4. /\ IsFiniteSet(1 .. SetSize - 1)
      /\ Cardinality(1 .. SetSize - 1) = SetSize - 1
  BY SetSizeAssumption, FS_Interval
<1>5. Cardinality(Slots) = SetSize
  BY SetSizeAssumption, FS_Interval DEF Slots
<1> QED
  BY <1>3, <1>4, <1>5, FS_Injection, SetSizeAssumption

\* A free slot is found whenever a connection is accepted (lines 74-83).
THEOREM SelectFindsSlot == Spec => []SlotIsFree
<1>1. IInv /\ WithinSet => SlotIsFree
  BY FullNeedsDescriptors DEF SlotIsFree
<1> QED
  BY <1>1, Invariance, WithinSetInv, PTL

-----------------------------------------------------------------------------
(* The server implements EchoService.                                      *)

LEMMA NextServes == IInv /\ [Next]_vars => [Prompt!Next]_<<cl, up, down>>
<1> SUFFICES ASSUME IInv, [Next]_vars
             PROVE  Prompt!Next \/ UNCHANGED <<cl, up, down>>
  OBVIOUS
<1>1. CASE Select \/ AcceptFails \/ UNCHANGED vars
  BY <1>1 DEF Select, AcceptFails, net, vars
<1>2. ASSUME NEW f \in Fds,
             AcceptBeyondSet(f) \/ \E j \in Slots : AcceptNew(f, j)
      PROVE  UNCHANGED <<cl, up, down>>
  BY <1>2 DEF AcceptBeyondSet, AcceptNew, TakeConn
<1>3. ASSUME NEW j \in Slots, Serve(j)
      PROVE  Prompt!Next \/ UNCHANGED <<cl, up, down>>
  <2>1. j \in Pending /\ pc = "scan"
    BY <1>3 DEF Serve
  <2>2. client[j] \in Fds /\ conn[client[j]] # NoConn
    BY <2>1, FdsNat DEF IInv, TypeOK, TablesAgree, Pending
  <2>3. Answer(client[j]) \/ ReadError(client[j]) \/ ReadEof(client[j])
    BY <1>3 DEF Serve
  <2> QED
    BY <2>2, <2>3, ServerServes DEF IInv
<1>4. ASSUME NEW c \in Conns, Clients(c)
      PROVE  Prompt!Next
  BY <1>4, ClientServes DEF Clients
<1> QED
  BY <1>1, <1>2, <1>3, <1>4 DEF Next, ServerStep

\* Each line is answered at most once, to the client it came from, although
\* the scan finds that client through the slots, which the same turn fills and
\* empties after select has reported the descriptors (lines 68-119).
THEOREM SelectImplementsEcho == Spec => Prompt!Spec
<1>1. Init => Prompt!Init
  BY NetInitServes DEF Init
<1>2. IInv /\ [Next]_vars => [Prompt!Next]_(Prompt!abstract)
  BY NextServes DEF Prompt!abstract
<1> QED
  BY <1>1, <1>2, Invariance, PTL DEF Spec, Prompt!Spec

\* A client that waits has its line or the answer on the way, and not both; one
\* that types its next line has neither, so that its answers are never behind.
THEOREM SelectKeepsStep == Spec => []WaitsForOne
  BY SelectImplementsEcho, ServiceKeepsStep, PTL

\* Whatever is to be done, select would return for: for every client that
\* waits, and for every connection that its client has left, a descriptor is
\* ready which is in allset and not above maxfd.
SelectHears ==
    pc \notin {"exited", "undefined"} =>
        \A c \in Conns : Calls(c) => HeardOn({f \in allset : f <= maxfd}, c)

LEMMA PlacesInvariance == Spec => []PlaceInv
<1>1. Init => PlaceInv
  BY PlaceInit DEF Init
<1>2. IInv /\ PlaceInv /\ [Next]_vars => PlaceInv'
  <2> SUFFICES ASSUME IInv, PlaceInv, [Next]_vars
               PROVE  PlaceInv'
    OBVIOUS
  <2>1. CASE Select \/ AcceptFails \/ UNCHANGED vars
    BY <2>1, PlaceUnchanged DEF Select, AcceptFails, vars, net, IInv
  <2>2. ASSUME NEW f \in Fds,
               AcceptBeyondSet(f) \/ \E j \in Slots : AcceptNew(f, j)
        PROVE  PlaceInv'
    BY <2>2, TakeConnPlaces DEF AcceptBeyondSet, AcceptNew, IInv
  <2>3. ASSUME NEW j \in Slots, Serve(j)
        PROVE  PlaceInv'
    <3>1. j \in Pending /\ pc = "scan"
      BY <2>3 DEF Serve
    <3>2. client[j] \in Fds /\ conn[client[j]] # NoConn
      BY <3>1, FdsNat DEF IInv, TypeOK, TablesAgree, Pending
    <3>3. Answer(client[j]) \/ ReadError(client[j]) \/ ReadEof(client[j])
      BY <2>3 DEF Serve
    <3> QED
      BY <3>2, <3>3, ServePlaces DEF IInv
  <2>4. ASSUME NEW c \in Conns, Clients(c)
        PROVE  PlaceInv'
    BY <2>4, ClientPlaces DEF Clients, IInv
  <2> QED
    BY <2>1, <2>2, <2>3, <2>4 DEF Next, ServerStep
<1> QED
  BY <1>1, <1>2, Invariance, PTL DEF Spec

\* The loop never sleeps in select while a client waits for it or a closed
\* connection holds a descriptor: nobody waits for a server that waits for
\* everybody (lines 64-119).
THEOREM SelectNeverDeaf == Spec => []SelectHears
<1>1. IInv /\ PlaceInv /\ WaitsForOne => SelectHears
  <2> SUFFICES ASSUME IInv, PlaceInv, WaitsForOne, pc \notin {"exited", "undefined"},
                      NEW c \in Conns, Calls(c)
               PROVE  HeardOn({f \in allset : f <= maxfd}, c)
    BY DEF SelectHears
  <2>1. HeardOn({ListenFd} \cup {f \in Fds : conn[f] # NoConn}, c)
    BY CallIsHeard DEF IInv
  <2>2. ListenFd <= maxfd
    BY NetAssumption DEF IInv, TypeOK, Fds, ListenFd
  <2>3. \A f \in Fds : conn[f] # NoConn => f <= maxfd
    <3> SUFFICES ASSUME NEW f \in Fds, conn[f] # NoConn
                 PROVE  f <= maxfd
      OBVIOUS
    <3>1. PICK j \in Slots : client[j] = f
      BY DEF IInv, TablesAgree
    <3> QED
      BY <3>1, FdsNat DEF IInv, TablesAgree
  <2>4. {ListenFd} \cup {f \in Fds : conn[f] # NoConn} = {f \in allset : f <= maxfd}
    BY <2>2, <2>3 DEF IInv, TablesAgree
  <2> QED
    BY <2>1, <2>4
<1> QED
  BY <1>1, Invariance, PlacesInvariance, SelectKeepsStep, PTL
=============================================================================
