---------------------------- MODULE MultiProcess ----------------------------
(***************************************************************************)
(* The multi-process echo server of course five: multiprocess-server.c     *)
(* with the wrappers of socket-comm.c, and multiprocess-client.c.          *)
(*                                                                         *)
(* The parent accepts and forks; a child serves one connection and exits,  *)
(* which raises SIGCHLD.  SIGCHLD is one pending bit: exits that happen    *)
(* while it is set raise it once.  sa_flags is 0, so the signal interrupts *)
(* a blocked accept (multiprocess-server.c:44).                            *)
(*                                                                         *)
(* Covered: errors of accept and fork, clients that leave, children that a *)
(* signal ends.  Not covered: a signal that ends the parent.               *)
(*                                                                         *)
(* Data: a client sends a line and waits for its answer, so there is at    *)
(* most one line and one answer in a connection; a line is at most the 60  *)
(* bytes of buf.                                                           *)
(***************************************************************************)
EXTENDS Integers, Sequences, FiniteSets

CONSTANTS
    Conns,          \* the connections clients make
    NoConn,         \* the parent holds no connection
    ProcLimit,      \* children, dead or alive, the process table has room for
    AcceptErrors,   \* errors, but EINTR, with which accept may fail
    Killable,       \* the connections whose child a signal may end
    MaxLines        \* bound: lines a client sends

ASSUME ConnsAssumption == NoConn \notin Conns
ASSUME LimitAssumption == ProcLimit \in Nat /\ MaxLines \in Nat
ASSUME ErrorAssumption == AcceptErrors \subseteq {"ECONNABORTED", "EMFILE"}
ASSUME KillAssumption == Killable \subseteq Conns

VARIABLES
    parent,     \* what the parent is about to do
    errno,      \* the parent's errno
    connfd,     \* the connection the parent holds a descriptor of
    queue,      \* completed connections that nobody has accepted
    child,      \* child[c]: the process that serves c
    sigchld,    \* SIGCHLD is pending in the parent
    cl,         \* the client of c
    lines,      \* lines the client has sent
    up,         \* a line is on its way to the server
    down        \* an answer is on its way to the client

vars == <<parent, errno, connfd, queue, child, sigchld, cl, lines, up, down>>

Parents  == {"loop", "blocked", "failed", "fork", "close", "exited"}
Children == {"none", "started", "read", "write", "zombie", "reaped"}
Errnos   == {"none", "EINTR", "ECHILD", "ECONNABORTED", "EMFILE"}

Alive(c) == child[c] \in {"started", "read", "write"}
Zombies  == {c \in Conns : child[c] = "zombie"}

\* The listening socket lives as long as a process holds it; a child holds
\* it until it has run Close(listenfd).
Listening == parent # "exited" \/ \E c \in Conns : child[c] = "started"

\* No process of the server holds the connection, nor does its queue.
HungUp(c) ==
    /\ connfd # c
    /\ ~Alive(c)
    /\ \A i \in 1 .. Len(queue) : queue[i] # c

\* What the kernel does when a process closes a descriptor or ends: with its
\* last holder goes the listening socket and its queue, and with the last
\* holder of a connection the line that nobody has read.
Released ==
    /\ queue' = IF Listening' THEN queue ELSE <<>>
    /\ up' = [c \in Conns |-> up[c] /\ ~HungUp(c)']

\* What one run of the handler reaps: it calls waitpid until none is left.
MReapsOne == IF Zombies = {} THEN {} ELSE {CHOOSE c \in Zombies : TRUE}
Reapable  == Zombies

\* Where the parent goes on once it has forked.
MKeepsConnfd == "loop"
AfterFork    == "close"

\* Where a child goes on once it has read a line.
MNoAnswer == "read"
AfterRead == "write"

Init ==
    /\ parent = "loop"
    /\ errno = "none"
    /\ connfd = NoConn
    /\ queue = <<>>
    /\ child = [c \in Conns |-> "none"]
    /\ sigchld = FALSE
    /\ cl = [c \in Conns |-> "idle"]
    /\ lines = [c \in Conns |-> 0]
    /\ up = [c \in Conns |-> FALSE]
    /\ down = [c \in Conns |-> FALSE]

-----------------------------------------------------------------------------
(* The parent.                                                             *)

\* perr_exit: the parent's descriptors are closed and init reaps its children.
ParentExits ==
    /\ parent' = "exited"
    /\ connfd' = NoConn
    /\ child' = [c \in Conns |-> IF child[c] = "zombie" THEN "reaped" ELSE child[c]]
    /\ sigchld' = FALSE
    /\ Released

\* What becomes of an accept that failed for good.
MFallsThrough == /\ parent' = "fork"
                 /\ connfd' = -1
                 /\ UNCHANGED <<child, sigchld, queue, up>>
OnError       == ParentExits

Accept ==
    /\ parent \in {"loop", "blocked"}
    /\ queue # <<>>
    /\ connfd' = Head(queue)
    /\ queue' = Tail(queue)
    /\ parent' = "fork"
    /\ UNCHANGED <<errno, child, sigchld, cl, lines, up, down>>

AcceptBlocks ==
    /\ parent = "loop"
    /\ queue = <<>>
    /\ parent' = "blocked"
    /\ UNCHANGED <<errno, connfd, queue, child, sigchld, cl, lines, up, down>>

AcceptFails ==
    /\ parent \in {"loop", "blocked"}
    /\ errno' \in AcceptErrors
    /\ parent' = "failed"
    /\ UNCHANGED <<connfd, queue, child, sigchld, cl, lines, up, down>>

\* The test at reAccept.  The label stands behind the call of accept: with
\* EINTR or ECONNABORTED the parent jumps to the same test again and again
\* (a step that changes nothing); with another value it exits.
TestErrno ==
    /\ parent = "failed"
    /\ errno \notin {"EINTR", "ECONNABORTED"}
    /\ OnError
    /\ UNCHANGED <<errno, cl, lines, down>>

\* do_child_sign runs between two instructions of the parent.  Its last
\* waitpid leaves ECHILD in errno when no child is left; an accept that the
\* signal interrupts sets EINTR after that.  An accept that finds a
\* connection takes it, signal or not.
Handler ==
    LET interrupted == parent = "blocked" /\ queue = <<>>
        left == {c \in Conns : Alive(c) \/ child[c] = "zombie"} \ Reapable IN
    /\ parent # "exited"
    /\ sigchld
    /\ sigchld' = FALSE
    /\ child' = [c \in Conns |-> IF c \in Reapable THEN "reaped" ELSE child[c]]
    /\ parent' = IF interrupted THEN "failed" ELSE parent
    /\ errno' = IF interrupted THEN "EINTR"
                ELSE IF left = {} THEN "ECHILD" ELSE errno
    /\ UNCHANGED <<connfd, queue, cl, lines, up, down>>

Fork ==
    /\ parent = "fork"
    /\ IF Cardinality({c \in Conns : Alive(c)} \cup Zombies) < ProcLimit
       THEN /\ child' = [child EXCEPT ![connfd] = "started"]
            /\ parent' = AfterFork
            /\ UNCHANGED <<connfd, queue, sigchld, up>>
       ELSE ParentExits
    /\ UNCHANGED <<errno, cl, lines, down>>

\* A child that has ended by now has left the parent's descriptor the last.
CloseConnfd ==
    /\ parent = "close"
    /\ connfd' = NoConn
    /\ parent' = "loop"
    /\ UNCHANGED child
    /\ Released
    /\ UNCHANGED <<errno, sigchld, cl, lines, down>>

-----------------------------------------------------------------------------
(* The child that serves c.                                                *)

CloseListenfd(c) ==
    /\ child[c] = "started"
    /\ child' = [child EXCEPT ![c] = "read"]
    /\ UNCHANGED <<parent, connfd>>
    /\ Released
    /\ UNCHANGED <<errno, sigchld, cl, lines, down>>

Read(c) ==
    /\ child[c] = "read"
    /\ up[c]
    /\ up' = [up EXCEPT ![c] = FALSE]
    /\ child' = [child EXCEPT ![c] = AfterRead]
    /\ UNCHANGED <<parent, errno, connfd, queue, sigchld, cl, lines, down>>

\* The answer.  When the client is gone it is lost, without an error: it is
\* the first thing written to a connection whose client has closed it.
Write(c) ==
    /\ child[c] = "write"
    /\ down' = [down EXCEPT ![c] = (cl[c] # "gone")]
    /\ child' = [child EXCEPT ![c] = "read"]
    /\ UNCHANGED <<parent, errno, connfd, queue, sigchld, cl, lines, up>>

\* The end of a child; init reaps one whose parent has ended.
ChildEnds(c) ==
    /\ child' = [child EXCEPT ![c] = IF parent = "exited" THEN "reaped" ELSE "zombie"]
    /\ sigchld' = (parent # "exited")
    /\ UNCHANGED <<parent, connfd>>
    /\ Released
    /\ UNCHANGED <<errno, cl, lines, down>>

\* Read returns 0: Close(connfd) and return.  (On a reset Read returns -1
\* first; the Write of -1 bytes that follows fails and changes nothing.)
ReadEof(c) ==
    /\ child[c] = "read"
    /\ ~up[c]
    /\ cl[c] = "gone"
    /\ ChildEnds(c)

\* A signal ends the child, wherever it is.
Kill(c) ==
    /\ c \in Killable
    /\ Alive(c)
    /\ ChildEnds(c)

-----------------------------------------------------------------------------
(* The client of c.                                                        *)

Connect(c) ==
    /\ cl[c] = "idle"
    /\ IF Listening
       THEN cl' = [cl EXCEPT ![c] = "ready"] /\ queue' = Append(queue, c)
       ELSE cl' = [cl EXCEPT ![c] = "gone"] /\ UNCHANGED queue
    /\ UNCHANGED <<parent, errno, connfd, child, sigchld, lines, up, down>>

\* What is sent to nobody is answered with a reset.
Send(c) ==
    /\ cl[c] = "ready"
    /\ lines[c] < MaxLines
    /\ lines' = [lines EXCEPT ![c] = @ + 1]
    /\ up' = [up EXCEPT ![c] = ~HungUp(c)]
    /\ cl' = [cl EXCEPT ![c] = "waiting"]
    /\ UNCHANGED <<parent, errno, connfd, queue, child, sigchld, down>>

Receive(c) ==
    /\ cl[c] = "waiting"
    /\ down[c]
    /\ down' = [down EXCEPT ![c] = FALSE]
    /\ cl' = [cl EXCEPT ![c] = "ready"]
    /\ UNCHANGED <<parent, errno, connfd, queue, child, sigchld, lines, up>>

\* Read returns 0, after the answer that may have come before the end.  (On a
\* reset it returns -1: nothing is printed, and the Write of the next line
\* ends the client by SIGPIPE.)
Told(c) ==
    /\ cl[c] = "waiting"
    /\ ~down[c]
    /\ HungUp(c)
    /\ cl' = [cl EXCEPT ![c] = "gone"]
    /\ UNCHANGED <<parent, errno, connfd, queue, child, sigchld, lines, up, down>>

\* The end of the input, or a signal.
Leave(c) ==
    /\ cl[c] \in {"ready", "waiting"}
    /\ cl' = [cl EXCEPT ![c] = "gone"]
    /\ UNCHANGED <<parent, errno, connfd, queue, child, sigchld, lines, up, down>>

-----------------------------------------------------------------------------
ParentStep == \/ Accept \/ AcceptBlocks \/ AcceptFails \/ TestErrno
              \/ Fork \/ CloseConnfd
ChildStep(c)  == CloseListenfd(c) \/ Read(c) \/ Write(c) \/ ReadEof(c)
ClientStep(c) == Connect(c) \/ Send(c) \/ Receive(c) \/ Told(c) \/ Leave(c)

Next == \/ ParentStep \/ Handler
        \/ \E c \in Conns : ChildStep(c) \/ Kill(c) \/ ClientStep(c)

Spec == Init /\ [][Next]_vars

\* The kernel schedules every process and delivers a pending signal.
Fairness == /\ WF_vars(ParentStep)
            /\ WF_vars(Handler)
            /\ \A c \in Conns : /\ WF_vars(ChildStep(c))
                               /\ WF_vars(Receive(c) \/ Told(c))

FairSpec == Spec /\ Fairness

-----------------------------------------------------------------------------
(* Properties.                                                             *)

TypeOK ==
    /\ parent \in Parents
    /\ errno \in Errnos
    /\ connfd \in Conns \cup {NoConn}
    /\ queue \in Seq(Conns)
    /\ child \in [Conns -> Children]
    /\ sigchld \in BOOLEAN
    /\ cl \in [Conns -> {"idle", "ready", "waiting", "gone"}]
    /\ lines \in [Conns -> Nat]
    /\ up \in [Conns -> BOOLEAN]
    /\ down \in [Conns -> BOOLEAN]

\* A dead child that is not reaped has its signal still to come: however
\* many exits one signal stands for, the loop around waitpid misses none
\* (multiprocess-server.c:25).
ZombieIsSignalled == parent # "exited" /\ Zombies # {} => sigchld

\* ... so that every dead child is reaped, even one whose parent hangs.
ZombiesAreReaped == \A c \in Conns : child[c] = "zombie" ~> child[c] = "reaped"

\* A client that waits while its child has ended, or that nobody has accepted
\* when the parent has, does not wait for ever: the parent closes its own copy
\* of connfd (multiprocess-server.c:90), and the children their copies of the
\* listening socket (line 71), so that the connection ends with them.
ClientIsToldOfEnd ==
    \A c \in Conns :
        (/\ cl[c] = "waiting"
         /\ child[c] \in {"zombie", "reaped"} \/ (child[c] = "none" /\ parent = "exited"))
        ~> cl[c] # "waiting"

\* The line of a client that waits is on its way to a process or the queue of
\* one, or in the hands of the child, or its answer is on its way, and never
\* two of them: no line is answered twice.  A line is lost only when the child
\* ends that was to answer it, or when the parent ends (perr_exit) and the
\* connection with it.
LineIsSomewhere ==
    \A c \in Conns :
        /\ up[c] => ~HungUp(c)
        /\ cl[c] = "waiting" =>
              /\ \/ up[c] \/ down[c] \/ child[c] = "write"
                 \/ child[c] \in {"zombie", "reaped"}
                 \/ child[c] = "none" /\ parent = "exited" /\ HungUp(c)
              /\ ~(up[c] /\ down[c])
              /\ child[c] = "write" => ~up[c] /\ ~down[c]

\* A client with a living child gets its answer, whatever state the parent
\* is in, unless a signal ends the child: the parent's trouble is not shared.
ServedIsAnswered ==
    \A c \in Conns :
        (cl[c] = "waiting" /\ Alive(c)) ~> (cl[c] # "waiting" \/ ~Alive(c))

\* What the course says and the code does not do.

\* "For every connection request a child is created" (course text, 422).
ConnectedIsServed ==
    \A c \in Conns :
        (cl[c] # "idle" /\ \E i \in 1 .. Len(queue) : queue[i] = c)
        ~> child[c] # "none"
=============================================================================
