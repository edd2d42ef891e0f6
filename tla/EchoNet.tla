------------------------------- MODULE EchoNet -------------------------------
(***************************************************************************)
(* What the single-process echo servers of course five (select, epoll)     *)
(* share: the connections, the process's descriptors and the clients       *)
(* select-client.c and epoll-client.c.                                     *)
(*                                                                         *)
(* A client sends a line and waits for its answer; a line fits in the      *)
(* buffer of both ends (MAXLINE is 80 everywhere), so a connection holds   *)
(* at most one line and one answer.                                        *)
(***************************************************************************)
EXTENDS Integers, Sequences, FiniteSets

CONSTANTS
    Conns,      \* the connections clients make
    NoConn,     \* the descriptor is free
    FirstFd,    \* descriptors below it serve no client: 0, 1, 2, listenfd
    FdMax,      \* descriptors the process may have (RLIMIT_NOFILE)
    MaxLines    \* bound: lines a client sends

ASSUME NetAssumption == /\ NoConn \notin Conns
                        /\ FirstFd \in Nat \ {0} /\ FdMax \in Nat
                        /\ MaxLines \in Nat

VARIABLES
    queue,      \* completed connections that nobody has accepted
    conn,       \* conn[f]: the connection descriptor f stands for
    cl,         \* the client: "idle", "ready", "waiting" or "gone"
    lines,      \* lines it has sent
    up,         \* a line is on its way to the server
    down,       \* an answer is on its way to the client
    end         \* how the client's direction has ended, if it has

net == <<queue, conn, cl, lines, up, down, end>>

ListenFd == FirstFd - 1
Fds      == FirstFd .. FdMax - 1
Free     == {f \in Fds : conn[f] = NoConn}
Ends     == {"open", "fin", "rst"}

NetTypeOK ==
    /\ queue \in Seq(Conns)
    /\ conn \in [Fds -> Conns \cup {NoConn}]
    /\ cl \in [Conns -> {"idle", "ready", "waiting", "gone"}]
    /\ lines \in [Conns -> Nat]
    /\ up \in [Conns -> BOOLEAN]
    /\ down \in [Conns -> BOOLEAN]
    /\ end \in [Conns -> Ends]

NetInit ==
    /\ queue = <<>>
    /\ conn = [f \in Fds |-> NoConn]
    /\ cl = [c \in Conns |-> "idle"]
    /\ lines = [c \in Conns |-> 0]
    /\ up = [c \in Conns |-> FALSE]
    /\ down = [c \in Conns |-> FALSE]
    /\ end = [c \in Conns |-> "open"]

\* A read of f would not block.
Readable(f) ==
    IF f = ListenFd THEN queue # <<>>
                    ELSE LET c == conn[f] IN
                         c # NoConn /\ (up[c] \/ end[c] # "open")

-----------------------------------------------------------------------------
(* What the servers do to the connections.                                 *)

\* Accept: the head of the queue gets the lowest free descriptor.
TakeConn(f) ==
    /\ queue # <<>>
    /\ f \in Free
    /\ \A g \in Free : f <= g
    /\ conn' = [conn EXCEPT ![f] = Head(queue)]
    /\ queue' = Tail(queue)
    /\ UNCHANGED <<cl, lines, up, down, end>>

\* Read returns a line, which is answered.
Answer(f) ==
    LET c == conn[f] IN
    /\ up[c]
    /\ up' = [up EXCEPT ![c] = FALSE]
    /\ down' = [down EXCEPT ![c] = (cl[c] # "gone")]
    /\ UNCHANGED <<queue, conn, cl, lines, end>>

\* Read returns -1 for a reset connection, once: the following Write of -1
\* bytes fails, and the next Read returns 0.
ReadError(f) ==
    LET c == conn[f] IN
    /\ ~up[c]
    /\ end[c] = "rst"
    /\ end' = [end EXCEPT ![c] = "fin"]
    /\ UNCHANGED <<queue, conn, cl, lines, up, down>>

\* Read returns 0, and the descriptor is closed.
ReadEof(f) ==
    LET c == conn[f] IN
    /\ ~up[c]
    /\ end[c] = "fin"
    /\ conn' = [conn EXCEPT ![f] = NoConn]
    /\ UNCHANGED <<queue, cl, lines, up, down, end>>

-----------------------------------------------------------------------------
(* The client of c, as long as the server runs.                            *)

Connect(c) ==
    /\ cl[c] = "idle"
    /\ cl' = [cl EXCEPT ![c] = "ready"]
    /\ queue' = Append(queue, c)
    /\ UNCHANGED <<conn, lines, up, down, end>>

Send(c) ==
    /\ cl[c] = "ready"
    /\ lines[c] < MaxLines
    /\ lines' = [lines EXCEPT ![c] = @ + 1]
    /\ up' = [up EXCEPT ![c] = TRUE]
    /\ cl' = [cl EXCEPT ![c] = "waiting"]
    /\ UNCHANGED <<queue, conn, down, end>>

Receive(c) ==
    /\ cl[c] = "waiting"
    /\ down[c]
    /\ down' = [down EXCEPT ![c] = FALSE]
    /\ cl' = [cl EXCEPT ![c] = "ready"]
    /\ UNCHANGED <<queue, conn, lines, up, end>>

\* The end of the input, or a signal: an answer that nobody has read makes
\* the kernel reset the connection, if it has arrived.
Leave(c) ==
    /\ cl[c] \in {"ready", "waiting"}
    /\ cl' = [cl EXCEPT ![c] = "gone"]
    /\ down' = [down EXCEPT ![c] = FALSE]
    /\ \E e \in {"fin"} \cup (IF down[c] THEN {"rst"} ELSE {}) :
          end' = [end EXCEPT ![c] = e]
    /\ UNCHANGED <<queue, conn, lines, up>>

ClientStep(c) == Connect(c) \/ Send(c) \/ Receive(c) \/ Leave(c)
=============================================================================
