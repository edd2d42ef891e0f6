---------------------------- MODULE ThreadServer ----------------------------
(***************************************************************************)
(* multithread-server.c: main accepts, writes the descriptor into the next *)
(* entry of the array ts and starts a thread with the address of that      *)
(* entry.  The thread looks the descriptor up there at every call.  The    *)
(* threads share the descriptors of the one process: perr_exit in one of   *)
(* them ends them all.                                                     *)
(***************************************************************************)
EXTENDS EchoNet

CONSTANT TsSize     \* entries of ts: 256

ASSUME TsSizeAssumption == TsSize \in Nat

VARIABLES
    pc,         \* main: "accept", "start", "hung"; or "exited", "undefined"
    connfd,     \* the descriptor main has accepted
    i,          \* the next entry of ts
    ts,         \* ts[k]: the descriptor in entry k, -1 before it is written
    th,         \* th[c]: the thread that was started for connection c
    arg         \* arg[c]: the entry whose address it was given

main == <<pc, connfd, i, ts>>
vars == <<queue, conn, cl, lines, up, down, end, pc, connfd, i, ts, th, arg>>

Entries   == 0 .. TsSize - 1
Living(c) == th[c] \in {"read", "write", "close"}

\* The descriptor the thread of c uses.
Fd(c) == ts[arg[c]]

\* The entry after the one main has used.
MSameEntry == i
NextEntry  == i + 1

\* Where a thread goes on once it has read a line.
MNoAnswer == "read"
AfterRead == "write"

\* Where a thread goes on once Read has returned 0.
MNoClose == "ended"
AfterEof == "close"

Init ==
    /\ NetInit
    /\ pc = "accept"
    /\ connfd = -1
    /\ i = 0
    /\ ts = [k \in Entries |-> -1]
    /\ th = [c \in Conns |-> "none"]
    /\ arg = [c \in Conns |-> 0]

\* What ends the process, main or a thread: from then on nothing is said.
Stopped == pc \in {"exited", "undefined"}

-----------------------------------------------------------------------------
(* main.                                                                   *)

Accept(f) ==
    /\ pc = "accept"
    /\ TakeConn(f)
    /\ connfd' = f
    /\ pc' = "start"
    /\ UNCHANGED <<i, ts, th, arg>>

\* accept fails for want of a descriptor or of memory, when Accept exits, or
\* because the client has given up (ECONNABORTED), when Accept tests the
\* same errno for ever: main hangs and the threads go on.
AcceptFails ==
    /\ pc = "accept"
    /\ \/ pc' = "exited"
       \/ pc' = "hung" /\ Free # {}
    /\ UNCHANGED <<connfd, i, ts, th, arg, net>>

\* The entry and the thread.  The result of pthread_create is not looked at:
\* when it fails, the entry is used and the connection open all the same.
StartThread ==
    LET c == conn[connfd] IN
    /\ pc = "start"
    /\ i < TsSize
    /\ ts' = [ts EXCEPT ![i] = connfd]
    /\ arg' = [arg EXCEPT ![c] = i]
    /\ \E t \in {"read", "failed"} : th' = [th EXCEPT ![c] = t]
    /\ i' = NextEntry
    /\ pc' = "accept"
    /\ UNCHANGED <<connfd, net>>

\* ts has no entry i: main writes beyond it.
BeyondArray ==
    /\ pc = "start"
    /\ i >= TsSize
    /\ pc' = "undefined"
    /\ UNCHANGED <<connfd, i, ts, th, arg, net>>

-----------------------------------------------------------------------------
(* The thread that was started for c.  conn[Fd(c)] is the connection its   *)
(* calls are about.                                                        *)

Read(c) ==
    LET d == conn[Fd(c)] IN
    /\ th[c] = "read"
    /\ d # NoConn
    /\ up[d]
    /\ up' = [up EXCEPT ![d] = FALSE]
    /\ th' = [th EXCEPT ![c] = AfterRead]
    /\ UNCHANGED <<main, arg, queue, conn, cl, lines, down, end>>

\* The answer; when the client has gone it is lost without an error.
Write(c) ==
    LET d == conn[Fd(c)] IN
    /\ th[c] = "write"
    /\ d # NoConn
    /\ down' = [down EXCEPT ![d] = (cl[d] # "gone")]
    /\ th' = [th EXCEPT ![c] = "read"]
    /\ UNCHANGED <<main, arg, queue, conn, cl, lines, up, end>>

\* Read returns -1 and the answer of -1 bytes fails: the loop goes on.
Failure(c) ==
    /\ th[c] = "read"
    /\ conn[Fd(c)] # NoConn
    /\ ReadError(Fd(c))
    /\ UNCHANGED <<main, th, arg>>

Eof(c) ==
    LET d == conn[Fd(c)] IN
    /\ th[c] = "read"
    /\ d # NoConn
    /\ ~up[d]
    /\ end[d] = "fin"
    /\ th' = [th EXCEPT ![c] = AfterEof]
    /\ UNCHANGED <<main, arg, net>>

\* Close of a descriptor that is not open would end the process.
Close(c) ==
    /\ th[c] = "close"
    /\ th' = [th EXCEPT ![c] = "ended"]
    /\ conn' = [conn EXCEPT ![Fd(c)] = NoConn]
    /\ pc' = IF conn[Fd(c)] = NoConn THEN "exited" ELSE pc
    /\ UNCHANGED <<connfd, i, ts, arg, queue, cl, lines, up, down, end>>

-----------------------------------------------------------------------------
MainStep == \/ \E f \in Fds : Accept(f)
            \/ AcceptFails \/ StartThread \/ BeyondArray

Thread(c) == ~Stopped /\ (Read(c) \/ Write(c) \/ Failure(c) \/ Eof(c) \/ Close(c))

Clients(c) == ~Stopped /\ ClientStep(c) /\ UNCHANGED <<main, th, arg>>

Next == MainStep \/ \E c \in Conns : Thread(c) \/ Clients(c)

Spec == Init /\ [][Next]_vars

\* The kernel schedules main and every thread; a client that waits reads.
FairSpec == /\ Spec
            /\ WF_vars(MainStep)
            /\ \A c \in Conns : /\ WF_vars(Thread(c))
                                /\ WF_vars(Receive(c) /\ Clients(c))

-----------------------------------------------------------------------------
(* Properties.                                                             *)

\* A living thread finds in its entry a descriptor that still stands for its
\* own connection, though main goes on writing entries and other threads
\* close descriptors that accept gives away again (lines 40, 53, 56, 88).
OwnEntry == ~Stopped =>
    \A c \in Conns : Living(c) => arg[c] < i /\ conn[Fd(c)] = c

\* A descriptor is open only while main is about to start its thread, while
\* that thread lives, or because it could not be started: none is closed by
\* two threads or by none.
OpenIsServed ==
    \A f \in Fds : conn[f] # NoConn =>
        \/ pc \in {"start", "undefined"} /\ connfd = f
        \/ Living(conn[f])
        \/ th[conn[f]] = "failed"

\* A client with a thread is answered, even when main hangs in Accept.
ServedIsAnswered ==
    \A c \in Conns :
        (cl[c] = "waiting" /\ Living(c)) ~> (cl[c] # "waiting" \/ Stopped)

\* The server implements EchoService: whatever main does to the array
\* between a thread's Read and its Write, the answer goes to the client the
\* line came from, and each line has at most one.
Service  == INSTANCE EchoService
              WITH state <- cl,
                   owed <- [c \in Conns |-> up[c] \/ th[c] = "write"],
                   answer <- down
EchoSpec == Service!Spec
=============================================================================
