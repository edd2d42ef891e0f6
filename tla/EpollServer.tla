----------------------------- MODULE EpollServer -----------------------------
(***************************************************************************)
(* epoll-server.c: one process, one loop around epoll_wait.  It keeps a    *)
(* slot per client in client[] beside what the kernel watches.  The events *)
(* of one epoll_wait are handled one after another, in the kernel's order, *)
(* and handling one may accept or close a connection.                      *)
(***************************************************************************)
EXTENDS EchoNet

CONSTANT OpenMax    \* OPEN_MAX: slots in client[], events in a batch

ASSUME OpenMaxAssumption == OpenMax \in Nat \ {0}

VARIABLES
    pc,         \* "wait", "events", "exited" or "hung"
    client,     \* client[j]: the descriptor in slot j, or -1
    maxi,       \* the highest slot that was ever used
    watched,    \* the descriptors registered with efd
    batch,      \* those of the current batch that are not handled yet
    witness     \* history: what each stood for when epoll_wait returned

tables == <<client, maxi, watched>>
vars   == <<queue, conn, cl, lines, up, down, end,
            pc, client, maxi, watched, batch, witness>>

Slots     == 0 .. OpenMax - 1
FreeSlots == {j \in Slots : client[j] < 0}

\* What is left of the batch when f is handled.
MRepeats(f) == batch
Rest(f)     == batch \ {f}

\* The slots once descriptor f is closed: those up to maxi are searched.
MLeavesSlot(f) == client
MZeroes(f)     == [j \in Slots |-> IF j <= maxi /\ client[j] = f THEN 0 ELSE client[j]]
Emptied(f)     == [j \in Slots |-> IF j <= maxi /\ client[j] = f THEN -1 ELSE client[j]]

\* What is watched once f has been accepted.
MNotAdded(f) == watched
Added(f)     == watched \cup {f}

Init ==
    /\ NetInit
    /\ pc = "wait"
    /\ client = [j \in Slots |-> -1]
    /\ maxi = -1
    /\ watched = {ListenFd}
    /\ batch = {}
    /\ witness = [f \in Fds |-> NoConn]

\* epoll_wait returns the readable descriptors, at most OpenMax of them.
Wait ==
    LET ready == {f \in watched : Readable(f)} IN
    /\ pc = "wait"
    /\ ready # {}
    /\ \E b \in SUBSET ready :
          /\ b = ready \/ Cardinality(b) = OpenMax
          /\ Cardinality(b) <= OpenMax
          /\ batch' = b
    /\ witness' = conn
    /\ pc' = "events"
    /\ UNCHANGED <<tables, net>>

After(f) == pc' = IF Rest(f) = {} THEN "wait" ELSE "events"

\* The listening socket: accept, the lowest free slot, EPOLL_CTL_ADD.
AcceptNew(f, j) ==
    /\ pc = "events"
    /\ ListenFd \in batch
    /\ TakeConn(f)
    /\ j \in FreeSlots
    /\ \A k \in FreeSlots : j <= k
    /\ client' = [client EXCEPT ![j] = f]
    /\ maxi' = IF j > maxi THEN j ELSE maxi
    /\ watched' = Added(f)
    /\ batch' = Rest(ListenFd)
    /\ After(ListenFd)
    /\ UNCHANGED witness

\* accept fails: for want of a descriptor or of memory in this process or in
\* the system, when Accept exits, or because the client has given up
\* (ECONNABORTED), when Accept tests the same errno for ever.
AcceptFails ==
    /\ pc = "events"
    /\ ListenFd \in batch
    /\ \/ pc' = "exited"
       \/ pc' = "hung" /\ Free # {}
    /\ UNCHANGED <<tables, batch, witness, net>>

\* No slot is left for the connection accepted ("too many clients").
TooManyClients ==
    /\ pc = "events"
    /\ ListenFd \in batch
    /\ FreeSlots = {}
    /\ \E f \in Fds : TakeConn(f)
    /\ pc' = "exited"
    /\ UNCHANGED <<tables, batch, witness>>

Serve(f) ==
    /\ pc = "events"
    /\ f \in batch \ {ListenFd}
    /\ \/ Answer(f) /\ UNCHANGED <<watched, client>>
       \/ ReadError(f) /\ UNCHANGED <<watched, client>>
       \/ /\ ReadEof(f)
          /\ watched' = watched \ {f}
          /\ client' = Emptied(f)
    /\ batch' = Rest(f)
    /\ After(f)
    /\ UNCHANGED <<maxi, witness>>

Stopped == pc \in {"exited", "hung"}

ServerStep ==
    \/ Wait \/ AcceptFails \/ TooManyClients
    \/ \E f \in Fds : Serve(f) \/ \E j \in Slots : AcceptNew(f, j)

Clients(c) ==
    /\ ~Stopped
    /\ ClientStep(c)
    /\ UNCHANGED <<pc, tables, batch, witness>>

Next == ServerStep \/ \E c \in Conns : Clients(c)

Spec == Init /\ [][Next]_vars

\* One process that the kernel schedules; a client that waits reads.
FairSpec == /\ Spec
            /\ WF_vars(ServerStep)
            /\ \A c \in Conns : WF_vars(Receive(c) /\ Clients(c))

-----------------------------------------------------------------------------
(* Properties.                                                             *)

\* What the kernel watches, the slots and the open connections agree: a slot
\* is freed with its descriptor, so that slots do not run out while clients
\* come and go, and the search up to maxi finds it (lines 82-94, 108-113).
TablesAgree ==
    pc # "exited" =>
    /\ watched = {ListenFd} \cup {f \in Fds : conn[f] # NoConn}
    /\ \A f \in Fds : conn[f] # NoConn => \E j \in Slots : client[j] = f
    /\ \A j \in Slots : client[j] >= 0 => conn[client[j]] # NoConn /\ j <= maxi
    /\ \A j, k \in Slots : client[j] = client[k] /\ client[j] >= 0 => j = k

\* An event still to be handled is about the connection it was reported for
\* and still true: neither a descriptor closed and reused earlier in the
\* batch nor an accept that would block is ever met (lines 71-126).
NoStaleEvent ==
    pc = "events" => \A f \in batch :
        Readable(f) /\ (f # ListenFd => conn[f] = witness[f])

\* A client that waits is answered, and one that leaves gives its descriptor
\* back, unless the server ends.
WaitingIsAnswered ==
    \A c \in Conns : cl[c] = "waiting" ~> (cl[c] # "waiting" \/ Stopped)

GoneIsClosed ==
    \A c \in Conns :
        cl[c] = "gone" ~> (Stopped \/
                           /\ \A f \in Fds : conn[f] # c
                           /\ \A n \in 1 .. Len(queue) : queue[n] # c)
=============================================================================
