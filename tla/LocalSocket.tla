---------------------------- MODULE LocalSocket ----------------------------
(***************************************************************************)
(* The local socket of course four: domain-server.c and domain-client.c.   *)
(* Both ends bind their socket to a file, which stays when its process     *)
(* ends: the server to mylocal.socket, a client to a name made of its      *)
(* process number.  The server takes one client, removes its file, echoes  *)
(* its lines and ends; whoever starts it again finds the file of the last  *)
(* one.                                                                    *)
(*                                                                         *)
(* Data: a client sends a line and waits for its answer, so that a         *)
(* connection holds at most one line and one answer.                       *)
(***************************************************************************)
EXTENDS Naturals, Sequences

CONSTANTS
    Servers,    \* the server processes: one, and those started later
    Clients,    \* the client processes
    Pids,       \* process numbers
    PidOf,      \* PidOf[c]: the number of client c; numbers are used again
    NoOne,      \* there is no such file, or no such connection
    QLen,       \* connections that may wait beside one, QLEN
    MaxLines    \* bound: lines a client sends

ASSUME ProcsAssumption == NoOne \notin Servers \cup Clients
ASSUME PidsAssumption  == PidOf \in [Clients -> Pids]
ASSUME BoundsAssumption == QLen \in Nat /\ MaxLines \in Nat

VARIABLES
    srv,        \* what the server is about to do; "off" before, "done" after
    name,       \* the server whose socket mylocal.socket is
    queue,      \* queue[s]: the clients that wait to be accepted
    conn,       \* conn[s]: the client that s has accepted
    cl,         \* what the client is about to do
    to,         \* to[c]: the server whose queue c has entered
    file,       \* file[p]: the client whose socket the file of number p is
    lines,      \* lines the client has sent
    up,         \* a line is on its way to the server
    down,       \* an answer is on its way to the client
    past,       \* history: the servers that had bound when s removed the name
    admitted    \* history: the clients whose file a server has removed

vars == <<srv, name, queue, conn, cl, to, file, lines, up, down, past, admitted>>

Listening(s) == srv[s] \in {"accept", "stat", "unlink", "read", "write"}
Started(c)   == cl[c] \in {"bind", "connect", "ready", "waiting"}

\* The name mylocal.socket after the unlink at the start of a server.
MKeepsName == name
FreedName  == NoOne

\* The files after a server's unlink of the path of client c.
MKeepsFile(c) == file
FreedFile(c)  == [file EXCEPT ![PidOf[c]] = NoOne]

\* Where the server goes on once it has read a line.
MNoAnswer == "read"
AfterRead == "write"

\* The process of s ends, and its descriptors are closed: its client, if it
\* has one, and those in its queue read the end of the stream.
End(s) ==
    /\ srv' = [srv EXCEPT ![s] = "done"]
    /\ conn' = [conn EXCEPT ![s] = NoOne]
    /\ queue' = [queue EXCEPT ![s] = <<>>]

Init ==
    /\ srv = [s \in Servers |-> "off"]
    /\ name = NoOne
    /\ queue = [s \in Servers |-> <<>>]
    /\ conn = [s \in Servers |-> NoOne]
    /\ cl = [c \in Clients |-> "off"]
    /\ to = [c \in Clients |-> NoOne]
    /\ file = [p \in Pids |-> NoOne]
    /\ lines = [c \in Clients |-> 0]
    /\ up = [c \in Clients |-> FALSE]
    /\ down = [c \in Clients |-> FALSE]
    /\ past = [s \in Servers |-> {}]
    /\ admitted = {}

-----------------------------------------------------------------------------
(* The server s.                                                           *)

UnlinkName(s) ==
    /\ srv[s] = "off"
    /\ srv' = [srv EXCEPT ![s] = "bind"]
    /\ name' = FreedName
    /\ past' = [past EXCEPT ![s] = {t \in Servers : srv[t] \notin {"off", "bind"}}]
    /\ UNCHANGED <<queue, conn, cl, to, file, lines, up, down, admitted>>

\* bind fails when the file exists, and the server exits.
BindName(s) ==
    /\ srv[s] = "bind"
    /\ IF name = NoOne
       THEN /\ name' = s
            /\ srv' = [srv EXCEPT ![s] = "listen"]
            /\ UNCHANGED <<queue, conn>>
       ELSE End(s) /\ UNCHANGED name
    /\ UNCHANGED <<cl, to, file, lines, up, down, past, admitted>>

Listen(s) ==
    /\ srv[s] = "listen"
    /\ srv' = [srv EXCEPT ![s] = "accept"]
    /\ UNCHANGED <<name, queue, conn, cl, to, file, lines, up, down, past, admitted>>

Accept(s) ==
    /\ srv[s] = "accept"
    /\ queue[s] # <<>>
    /\ conn' = [conn EXCEPT ![s] = Head(queue[s])]
    /\ queue' = [queue EXCEPT ![s] = Tail(@)]
    /\ srv' = [srv EXCEPT ![s] = "stat"]
    /\ UNCHANGED <<name, cl, to, file, lines, up, down, past, admitted>>

\* A client whose file is missing is refused, and the server exits with it.
Stat(s) ==
    /\ srv[s] = "stat"
    /\ IF file[PidOf[conn[s]]] # NoOne
       THEN srv' = [srv EXCEPT ![s] = "unlink"] /\ UNCHANGED <<queue, conn>>
       ELSE End(s)
    /\ UNCHANGED <<name, cl, to, file, lines, up, down, past, admitted>>

UnlinkClient(s) ==
    /\ srv[s] = "unlink"
    /\ file' = FreedFile(conn[s])
    /\ admitted' = admitted \cup {conn[s]}
    /\ srv' = [srv EXCEPT ![s] = "read"]
    /\ UNCHANGED <<name, queue, conn, cl, to, lines, up, down, past>>

Read(s) ==
    LET c == conn[s] IN
    /\ srv[s] = "read"
    /\ up[c]
    /\ up' = [up EXCEPT ![c] = FALSE]
    /\ srv' = [srv EXCEPT ![s] = AfterRead]
    /\ UNCHANGED <<name, queue, conn, cl, to, file, lines, down, past, admitted>>

\* A write to a client that has gone raises SIGPIPE, which ends the server.
Write(s) ==
    LET c == conn[s] IN
    /\ srv[s] = "write"
    /\ IF cl[c] = "gone"
       THEN End(s) /\ UNCHANGED down
       ELSE /\ down' = [down EXCEPT ![c] = TRUE]
            /\ srv' = [srv EXCEPT ![s] = "read"]
            /\ UNCHANGED <<queue, conn>>
    /\ UNCHANGED <<name, cl, to, file, lines, up, past, admitted>>

\* read returns 0.  (When the client has left an answer unread, read returns
\* -1 first; the write of -1 bytes that follows fails and changes nothing.)
ReadEof(s) ==
    LET c == conn[s] IN
    /\ srv[s] = "read"
    /\ ~up[c]
    /\ cl[c] = "gone"
    /\ End(s)
    /\ UNCHANGED <<name, cl, to, file, lines, up, down, past, admitted>>

\* A signal, or a failure of listen or accept, in any state.
Kill(s) ==
    /\ srv[s] \notin {"off", "done"}
    /\ End(s)
    /\ UNCHANGED <<name, cl, to, file, lines, up, down, past, admitted>>

-----------------------------------------------------------------------------
(* The client c.                                                           *)

\* A process number is that of one living process.
UnlinkPath(c) ==
    /\ cl[c] = "off"
    /\ \A d \in Clients : Started(d) => PidOf[d] # PidOf[c]
    /\ cl' = [cl EXCEPT ![c] = "bind"]
    /\ file' = [file EXCEPT ![PidOf[c]] = NoOne]
    /\ UNCHANGED <<srv, name, queue, conn, to, lines, up, down, past, admitted>>

BindPath(c) ==
    /\ cl[c] = "bind"
    /\ file[PidOf[c]] = NoOne
    /\ file' = [file EXCEPT ![PidOf[c]] = c]
    /\ cl' = [cl EXCEPT ![c] = "connect"]
    /\ UNCHANGED <<srv, name, queue, conn, to, lines, up, down, past, admitted>>

\* connect is refused when there is no such file or its server does not
\* listen, waits while the queue is full, and succeeds before accept.
Connect(c) ==
    /\ cl[c] = "connect"
    /\ IF name # NoOne /\ Listening(name)
       THEN /\ Len(queue[name]) <= QLen
            /\ queue' = [queue EXCEPT ![name] = Append(@, c)]
            /\ to' = [to EXCEPT ![c] = name]
            /\ cl' = [cl EXCEPT ![c] = "ready"]
       ELSE cl' = [cl EXCEPT ![c] = "refused"] /\ UNCHANGED <<queue, to>>
    /\ UNCHANGED <<srv, name, conn, file, lines, up, down, past, admitted>>

HungUp(c) == srv[to[c]] = "done"

\* A write to a server that has ended raises SIGPIPE, which ends the client.
Send(c) ==
    /\ cl[c] = "ready"
    /\ lines[c] < MaxLines
    /\ lines' = [lines EXCEPT ![c] = @ + 1]
    /\ up' = [up EXCEPT ![c] = ~HungUp(c)]
    /\ cl' = [cl EXCEPT ![c] = IF HungUp(c) THEN "gone" ELSE "waiting"]
    /\ UNCHANGED <<srv, name, queue, conn, to, file, down, past, admitted>>

\* The answer, or the end of the stream, after which the client asks for the
\* next line all the same.
Receive(c) ==
    /\ cl[c] = "waiting"
    /\ down[c] \/ HungUp(c)
    /\ down' = [down EXCEPT ![c] = FALSE]
    /\ cl' = [cl EXCEPT ![c] = "ready"]
    /\ UNCHANGED <<srv, name, queue, conn, to, file, lines, up, past, admitted>>

\* The end of the input, or a signal; "never" has bound no file.
Leave(c) ==
    /\ Started(c)
    /\ cl' = [cl EXCEPT ![c] = IF cl[c] = "bind" THEN "never" ELSE "gone"]
    /\ down' = [down EXCEPT ![c] = FALSE]
    /\ UNCHANGED <<srv, name, queue, conn, to, file, lines, up, past, admitted>>

-----------------------------------------------------------------------------
Startup(s)    == UnlinkName(s) \/ BindName(s) \/ Listen(s)
Serving(s)    == \/ Accept(s) \/ Stat(s) \/ UnlinkClient(s)
                 \/ Read(s) \/ Write(s) \/ ReadEof(s)
ClientStep(c) == \/ UnlinkPath(c) \/ BindPath(c) \/ Connect(c)
                 \/ Send(c) \/ Receive(c) \/ Leave(c)

Next == \/ \E s \in Servers : Startup(s) \/ Serving(s) \/ Kill(s)
        \/ \E c \in Clients : ClientStep(c)

Spec == Init /\ [][Next]_vars

\* The kernel schedules every process; nobody has to start a server.
FairSpec == /\ Spec
            /\ \A s \in Servers : WF_vars(Serving(s))
            /\ \A c \in Clients : WF_vars(Receive(c))

-----------------------------------------------------------------------------
(* Properties.                                                             *)

\* The file of a server that has ended, killed or not, never keeps another
\* from starting: bind finds a name only if another server has bound it
\* between this one's unlink and its bind (domain-server.c, 30 and 39).
BindFailsOnlyInARace ==
    \A s, t \in Servers : srv[s] = "bind" /\ name = t => t \notin past[s]

\* The file of a client whose number is not used again is there from its
\* bind until a server that has accepted it removes it, so that the server
\* finds it (line 76) and leaves none of a client it has taken (line 86):
\* whoever ends meanwhile, whichever server takes whom.
OwnPid(c) == \A d \in Clients \ {c} : PidOf[d] # PidOf[c]

FileIffUntaken ==
    \A c \in Clients : OwnPid(c) =>
        (file[PidOf[c]] = c <=> /\ cl[c] \notin {"off", "bind", "never"}
                                /\ c \notin admitted)

\* A client that waits for an answer gets it, or the end of the stream, once
\* a server has accepted it or has ended: also when the server is killed,
\* or another one takes its name over meanwhile.  (In the queue of a server
\* that serves somebody else a client may wait as long as that one stays.)
EndOrAnswer ==
    \A c \in Clients :
        (cl[c] = "waiting" /\ (conn[to[c]] = c \/ HungUp(c))) ~> cl[c] # "waiting"
=============================================================================
