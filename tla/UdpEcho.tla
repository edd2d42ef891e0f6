------------------------------- MODULE UdpEcho -------------------------------
(***************************************************************************)
(* The UDP echo of course four: udp-server.c and udp-client.c.  Both       *)
(* programs bind their socket to port 8000 of the host they share, and     *)
(* look at the result of neither bind.                                     *)
(*                                                                         *)
(* The clients send to 127.0.0.1, so that a datagram is in the buffer of   *)
(* the socket that has the port, or lost, as soon as it is sent: nothing   *)
(* is reordered or duplicated.  What the kernel has no socket or no room   *)
(* for is lost without an error, since no socket is connected.             *)
(*                                                                         *)
(* Data: a datagram carries the n-th line of client who, in upper case or  *)
(* as it was typed, and the port it was sent from.                         *)
(***************************************************************************)
EXTENDS Naturals, Sequences, FiniteSets

CONSTANTS
    Clients,    \* the client processes, each of which runs once
    Server,     \* the server process, which may be ended and started again
    ServPort,   \* port 8000
    Ports,      \* the ports the kernel gives to sockets that are not bound
    Nobody,     \* the port is free
    NoPort,     \* the socket is not bound
    MaxLines,   \* bound: lines a client sends
    MaxStarts,  \* bound: times the server is started
    BufCap      \* datagrams a receive buffer has room for

ASSUME ProcsAssumption == Server \notin Clients /\ Nobody \notin Clients \cup {Server}
ASSUME PortsAssumption == ServPort \notin Ports /\ NoPort \notin Ports \cup {ServPort}
ASSUME BoundsAssumption == /\ MaxLines \in Nat /\ MaxStarts \in Nat
                           /\ BufCap \in Nat \ {0}

VARIABLES
    srv,        \* the server: "down", "recv" or "send"
    starts,     \* how often it has been started
    got,        \* the datagram the server is about to answer
    cl,         \* the client: "off", "ready", "waiting" or "gone"
    asked,      \* lines the client has sent
    port,       \* the port of the client's socket
    at,         \* at[p]: the process whose socket has port p
    buf,        \* buf[x]: the datagrams in the receive buffer of x
    former      \* history: the clients that have had port p

vars == <<srv, starts, got, cl, asked, port, at, buf, former>>

Procs     == Clients \cup {Server}
AllPorts  == Ports \cup {ServPort}
Datagrams == [who : Clients, n : Nat, text : {"typed", "upper"}, from : AllPorts]
Nothing   == [who |-> Nobody]

Line(c, n, p) == [who |-> c, n |-> n, text |-> "typed", from |-> p]

\* The buffers once datagram d has been sent to port p, the sockets being as
\* in owner: its owner has it if there is room.
Delivered(d, p, owner) ==
    LET x == owner[p] IN
    IF x # Nobody /\ Len(buf[x]) < BufCap THEN [buf EXCEPT ![x] = Append(@, d)]
                                          ELSE buf

\* The port a socket has after bind to port 8000: none if another has it.
BoundPort == IF at[ServPort] = Nobody THEN ServPort ELSE NoPort

\* Where the client goes on once it has sent its line.
MDoesNotWait == "ready"
AfterSend    == "waiting"

\* Where the server sends its answer: to the address recvfrom has filled in.
MToPort8000 == ServPort
ReplyPort   == got.from

Init ==
    /\ srv = "down" /\ starts = 0 /\ got = Nothing
    /\ cl = [c \in Clients |-> "off"]
    /\ asked = [c \in Clients |-> 0]
    /\ port = [c \in Clients |-> NoPort]
    /\ at = [p \in AllPorts |-> Nobody]
    /\ buf = [x \in Procs |-> <<>>]
    /\ former = [p \in AllPorts |-> {}]

-----------------------------------------------------------------------------
(* The server.                                                             *)

\* socket and bind.  Without its port the server goes on, and nothing ever
\* comes to the socket.
StartServer ==
    /\ srv = "down"
    /\ starts < MaxStarts
    /\ starts' = starts + 1
    /\ srv' = "recv"
    /\ at' = IF BoundPort = ServPort THEN [at EXCEPT ![ServPort] = Server] ELSE at
    /\ UNCHANGED <<got, cl, asked, port, buf, former>>

RecvFrom ==
    /\ srv = "recv"
    /\ buf[Server] # <<>>
    /\ got' = Head(buf[Server])
    /\ buf' = [buf EXCEPT ![Server] = Tail(@)]
    /\ srv' = "send"
    /\ UNCHANGED <<starts, cl, asked, port, at, former>>

SendTo ==
    /\ srv = "send"
    /\ buf' = Delivered([got EXCEPT !.text = "upper", !.from = ServPort], ReplyPort, at)
    /\ got' = Nothing
    /\ srv' = "recv"
    /\ UNCHANGED <<starts, cl, asked, port, at, former>>

\* The loop has no end: the server is ended from outside, and what it has
\* received goes with it.
KillServer ==
    /\ srv # "down"
    /\ srv' = "down"
    /\ got' = Nothing
    /\ at' = [p \in AllPorts |-> IF at[p] = Server THEN Nobody ELSE at[p]]
    /\ buf' = [buf EXCEPT ![Server] = <<>>]
    /\ UNCHANGED <<starts, cl, asked, port, former>>

-----------------------------------------------------------------------------
(* The client c.                                                           *)

StartClient(c) ==
    /\ cl[c] = "off"
    /\ cl' = [cl EXCEPT ![c] = "ready"]
    /\ port' = [port EXCEPT ![c] = BoundPort]
    /\ IF BoundPort = ServPort
       THEN /\ at' = [at EXCEPT ![ServPort] = c]
            /\ former' = [former EXCEPT ![ServPort] = @ \cup {c}]
       ELSE UNCHANGED <<at, former>>
    /\ UNCHANGED <<srv, starts, got, asked, buf>>

\* sendto: a socket that is not bound gets a free port first.
Send(c) ==
    /\ cl[c] = "ready"
    /\ asked[c] < MaxLines
    /\ asked' = [asked EXCEPT ![c] = @ + 1]
    /\ \E p \in AllPorts :
          /\ \/ p = port[c]
             \/ port[c] = NoPort /\ p \in Ports /\ at[p] = Nobody
          /\ port' = [port EXCEPT ![c] = p]
          /\ at' = [at EXCEPT ![p] = c]
          /\ former' = [former EXCEPT ![p] = @ \cup {c}]
          /\ buf' = Delivered(Line(c, asked[c] + 1, p), ServPort, at')
    /\ cl' = [cl EXCEPT ![c] = AfterSend]
    /\ UNCHANGED <<srv, starts, got>>

\* recvfrom takes a datagram from anybody for the answer.
Receive(c) ==
    /\ cl[c] = "waiting"
    /\ buf[c] # <<>>
    /\ buf' = [buf EXCEPT ![c] = Tail(@)]
    /\ cl' = [cl EXCEPT ![c] = "ready"]
    /\ UNCHANGED <<srv, starts, got, asked, port, at, former>>

\* The end of the input, or a signal.
Leave(c) ==
    /\ cl[c] \in {"ready", "waiting"}
    /\ cl' = [cl EXCEPT ![c] = "gone"]
    /\ port' = [port EXCEPT ![c] = NoPort]
    /\ at' = [p \in AllPorts |-> IF at[p] = c THEN Nobody ELSE at[p]]
    /\ buf' = [buf EXCEPT ![c] = <<>>]
    /\ UNCHANGED <<srv, starts, got, asked, former>>

-----------------------------------------------------------------------------
ServerStep    == RecvFrom \/ SendTo
ClientStep(c) == StartClient(c) \/ Send(c) \/ Receive(c) \/ Leave(c)

Next == \/ StartServer \/ ServerStep \/ KillServer
        \/ \E c \in Clients : ClientStep(c)

Spec == Init /\ [][Next]_vars

\* The kernel schedules the server, and a client in recvfrom.
FairSpec == /\ Spec
            /\ WF_vars(ServerStep)
            /\ \A c \in Clients : WF_vars(Receive(c))

-----------------------------------------------------------------------------
(* Properties.                                                             *)

\* What is on its way about client c: to the server, in it, or back.
ToServer(c) == {i \in 1 .. Len(buf[Server]) : buf[Server][i].who = c}
Held(c)     == IF got.who = c THEN {0} ELSE {}
ToClient(c) == 1 .. Len(buf[c])

\* c has a port the kernel gave it, which no client had before.
FreshPort(c) == port[c] \in Ports /\ former[port[c]] = {c}

\* A client on a fresh port has at most one datagram on its way, and only
\* while it waits: its last line or the answer to it.  The lines carry no
\* number, so this alone makes an answer belong to its question, whoever
\* else asks, leaves or restarts meanwhile (udp-client.c, 34 and 39).
AnswerIsOwn ==
    \A c \in Clients : FreshPort(c) =>
        /\ Cardinality(ToServer(c)) + Cardinality(Held(c)) + Len(buf[c])
              <= (IF cl[c] = "waiting" THEN 1 ELSE 0)
        /\ \A i \in ToServer(c) : buf[Server][i] = Line(c, asked[c], port[c])
        /\ Held(c) # {} => got = Line(c, asked[c], port[c])
        /\ \A i \in ToClient(c) :
              buf[c][i] = [Line(c, asked[c], ServPort) EXCEPT !.text = "upper"]

\* A line the server has received is answered, and the client that waits for
\* the answer goes on, unless the server is ended first.
ReceivedIsAnswered ==
    \A c \in Clients :
        (cl[c] = "waiting" /\ ToServer(c) \cup Held(c) # {} /\ FreshPort(c))
        ~> (cl[c] # "waiting" \/ srv = "down")
=============================================================================
