---------------------------- MODULE SelectServer ----------------------------
(***************************************************************************)
(* select-server.c: one process, one loop around select.  Three tables     *)
(* have to agree at every turn: the slots client[], the watched set allset *)
(* and the kernel's descriptors.                                           *)
(***************************************************************************)
EXTENDS EchoNet

CONSTANT SetSize    \* FD_SETSIZE: slots in client[], bits in an fd_set

ASSUME SetSizeAssumption == SetSize \in Nat \ {0}

VARIABLES
    pc,         \* "select", "listen", "scan", "exited", "hung", "undefined"
    client,     \* client[i]: the descriptor in slot i, or -1
    maxi,       \* the highest slot that was ever used
    maxfd,      \* the highest descriptor that was ever watched
    allset,     \* the descriptors to watch
    rset,       \* those select found readable
    nready,     \* how many of them are left to handle
    i,          \* the slot the scan has come to
    witness     \* history: what each of them stood for when select returned

tables == <<client, maxi, maxfd, allset>>
vars   == <<queue, conn, cl, lines, up, down, end,
            pc, client, maxi, maxfd, allset, rset, nready, i, witness>>

Slots     == 0 .. SetSize - 1
FreeSlots == {j \in Slots : client[j] < 0}

\* Slots the scan has still to serve in this turn.
Pending == {j \in Slots : i <= j /\ j <= maxi /\ client[j] >= 0 /\ client[j] \in rset}

\* nready once the listening socket is done with.
MForgetsListen == nready
AfterListen    == nready - 1

\* The watched set and the slots once descriptor f is closed.
MKeepsBit(f) == allset
Unwatched(f) == allset \ {f}

MKeepsSlot(j)  == client
MZeroesSlot(j) == [client EXCEPT ![j] = 0]
Emptied(j)     == [client EXCEPT ![j] = -1]

\* The last slot the scan looks at, once slot j is in use.
MKeepsMaxi(j) == maxi
RaisedMaxi(j) == IF j > maxi THEN j ELSE maxi

Init ==
    /\ NetInit
    /\ pc = "select"
    /\ client = [j \in Slots |-> -1]
    /\ maxi = -1
    /\ maxfd = ListenFd
    /\ allset = {ListenFd}
    /\ rset = {}
    /\ nready = 0
    /\ i = 0
    /\ witness = [f \in Fds |-> NoConn]

\* The turn is over: by the count of nready, or because the scan has come to
\* its last slot.
TurnOver == pc = "select" \/ (pc = "scan" /\ Pending = {})

\* select returns the watched descriptors up to maxfd that are readable.
Select ==
    LET ready == {f \in allset : f <= maxfd /\ Readable(f)} IN
    /\ TurnOver
    /\ ready # {}
    /\ rset' = ready
    /\ nready' = Cardinality(ready)
    /\ i' = 0
    /\ witness' = conn
    /\ pc' = IF ListenFd \in ready THEN "listen" ELSE "scan"
    /\ UNCHANGED <<tables, net>>

\* A new connection: the lowest free slot, its bit in allset, and then the
\* scan, or select again when nothing else is ready.
AcceptNew(f, j) ==
    /\ pc = "listen"
    /\ f < SetSize
    /\ TakeConn(f)
    /\ j \in FreeSlots
    /\ \A k \in FreeSlots : j <= k
    /\ client' = [client EXCEPT ![j] = f]
    /\ allset' = allset \cup {f}
    /\ maxfd' = IF f > maxfd THEN f ELSE maxfd
    /\ maxi' = RaisedMaxi(j)
    /\ nready' = AfterListen
    /\ pc' = IF AfterListen = 0 THEN "select" ELSE "scan"
    /\ UNCHANGED <<rset, i, witness>>

\* FD_SET of a descriptor that an fd_set has no bit for: nothing is known of
\* what follows.  This comes before the slots run out, so that the exit for
\* "too many clients" (line 83) is never taken: SetSize connections would
\* need SetSize descriptors from FirstFd on.
AcceptBeyondSet(f) ==
    /\ pc = "listen"
    /\ f >= SetSize
    /\ FreeSlots # {}
    /\ TakeConn(f)
    /\ pc' = "undefined"
    /\ UNCHANGED <<tables, rset, nready, i, witness>>

\* accept fails: for want of a descriptor or of memory in this process or in
\* the system, when Accept exits, or because the client has given up
\* (ECONNABORTED), when Accept tests the same errno for ever.
AcceptFails ==
    /\ pc = "listen"
    /\ \/ pc' = "exited"
       \/ pc' = "hung" /\ Free # {}
    /\ UNCHANGED <<tables, rset, nready, i, witness, net>>

\* The scan comes to slot j, the next one that is ready.
Serve(j) ==
    LET f == client[j] IN
    /\ pc = "scan"
    /\ j \in Pending
    /\ \A k \in Pending : j <= k
    /\ \/ Answer(f) /\ UNCHANGED <<allset, client>>
       \/ ReadError(f) /\ UNCHANGED <<allset, client>>
       \/ /\ ReadEof(f)
          /\ allset' = Unwatched(f)
          /\ client' = Emptied(j)
    /\ nready' = nready - 1
    /\ pc' = IF nready = 1 THEN "select" ELSE "scan"
    /\ i' = j + 1
    /\ UNCHANGED <<maxi, maxfd, rset, witness>>

Stopped == pc \in {"exited", "hung", "undefined"}

ServerStep ==
    \/ Select \/ AcceptFails
    \/ \E f \in Fds : AcceptBeyondSet(f) \/ \E j \in Slots : AcceptNew(f, j)
    \/ \E j \in Slots : Serve(j)

Clients(c) ==
    /\ ~Stopped
    /\ ClientStep(c)
    /\ UNCHANGED <<pc, tables, rset, nready, i, witness>>

Next == ServerStep \/ \E c \in Conns : Clients(c)

Spec == Init /\ [][Next]_vars

\* One process that the kernel schedules; a client that waits reads.
FairSpec == /\ Spec
            /\ WF_vars(ServerStep)
            /\ \A c \in Conns : WF_vars(Receive(c) /\ Clients(c))

-----------------------------------------------------------------------------
(* Properties.                                                             *)

TypeOK ==
    /\ NetTypeOK
    /\ pc \in {"select", "listen", "scan", "exited", "hung", "undefined"}
    /\ client \in [Slots -> Fds \cup {-1}]
    /\ maxi \in -1 .. SetSize - 1
    /\ maxfd \in {ListenFd} \cup Fds
    /\ allset \in SUBSET (Fds \cup {ListenFd})
    /\ rset \in SUBSET (Fds \cup {ListenFd})
    /\ nready \in Int
    /\ i \in Nat
    /\ witness \in [Fds -> Conns \cup {NoConn}]

\* The descriptors watched are the listening one and those in the slots, each
\* in one slot, below maxi and maxfd, and each is an open connection: no
\* connection is forgotten and no closed descriptor is watched.
TablesAgree ==
    pc \notin {"exited", "undefined"} =>
    /\ allset = {ListenFd} \cup {f \in Fds : conn[f] # NoConn}
    /\ \A f \in Fds : conn[f] # NoConn => \E j \in Slots : client[j] = f
    /\ \A j \in Slots : client[j] >= 0 =>
          /\ conn[client[j]] # NoConn
          /\ j <= maxi
          /\ client[j] <= maxfd
    /\ \A j, k \in Slots : client[j] = client[k] /\ client[j] >= 0 => j = k

\* A slot the scan is about to serve is the connection that select reported,
\* although the turn has accepted and closed others since: descriptors are
\* reused, never within a turn (lines 68, 102, 108).
NoStaleEvent ==
    pc = "scan" => \A j \in Pending : /\ conn[client[j]] = witness[client[j]]
                                      /\ Readable(client[j])

\* nready is exactly what is left to handle, so that the early exits from the
\* turn (lines 97 and 119) leave nothing behind and the scan never runs dry.
NreadyCounts ==
    /\ pc = "scan" => nready = Cardinality(Pending) /\ nready > 0
    /\ pc = "listen" => nready = 1 + Cardinality(Pending)

\* A client that waits is answered, and one that leaves gives its descriptor
\* back, however many others keep the loop busy, unless the server ends.
WaitingIsAnswered ==
    \A c \in Conns : cl[c] = "waiting" ~> (cl[c] # "waiting" \/ Stopped)

GoneIsClosed ==
    \A c \in Conns :
        cl[c] = "gone" ~> (Stopped \/
                           /\ \A f \in Fds : conn[f] # c
                           /\ \A n \in 1 .. Len(queue) : queue[n] # c)
=============================================================================
