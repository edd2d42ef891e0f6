------------------------------- MODULE GoEcho -------------------------------
(***************************************************************************)
(* The TCP echo of course three in Go: server.go serves one client at a    *)
(* time, to its end, and client.go sends a line and waits for its answer.  *)
(*                                                                         *)
(* Nothing frames a line.  The server makes a new buffered reader for      *)
(* every Read: the reader takes at most ReaderLen bytes from the socket,   *)
(* the server at most BufLen bytes from the reader, and what the reader    *)
(* has besides is dropped.  Both run on one host, where what is sent by    *)
(* one Write arrives as a whole.                                           *)
(*                                                                         *)
(* Data: a byte of a line is the number of the line; 0 is the words        *)
(* " from server" that end an answer.  Typing q is a way to leave.         *)
(***************************************************************************)
EXTENDS Naturals, Sequences

CONSTANTS
    Clients,    \* the client processes
    NoOne,      \* the server serves nobody
    Lengths,    \* lengths of the lines that are typed
    BufLen,     \* bytes the server takes from its reader: 128
    ReaderLen,  \* bytes the reader takes from the socket: bufio's 4096
    ClientLen,  \* bytes the client takes from its socket: 512
    MaxLines    \* bound: lines a client sends

ASSUME NoOneAssumption  == NoOne \notin Clients
ASSUME LengthAssumption ==
    /\ Lengths \subseteq Nat /\ MaxLines \in Nat
    /\ BufLen \in Nat \ {0} /\ ReaderLen \in Nat /\ ClientLen \in Nat
    /\ BufLen <= ReaderLen /\ BufLen < ClientLen

VARIABLES
    srv,        \* the server: "accept", "read", "write", "close" or "down"
    conn,       \* the client it serves
    got,        \* what its last Read has returned
    queue,      \* the clients whose connections wait to be accepted
    cl,         \* the client: "off", "typing", "waiting" or "gone"
    asked,      \* the number and the length of the last line it has sent
    long,       \* (history) the clients that have sent a line longer than
                \* a reader takes
    up,         \* bytes on their way to the server
    down,       \* bytes on their way to the client
    shown       \* what the client has printed last

vars == <<srv, conn, got, queue, cl, asked, long, up, down, shown>>

\* No line sent yet.
Nothing == [line |-> 0, len |-> 0]

Least(i, j) == IF i < j THEN i ELSE j

\* The first k bytes of line n, and what the server answers to bytes s.
Line(n, k) == [i \in 1 .. k |-> n]
Answer(s)  == s \o <<0>>

\* What there is left of stream s once a reader has taken n bytes of it.
MOneReader(s, n) == SubSeq(s, Least(n, BufLen) + 1, Len(s))
Rest(s, n)       == SubSeq(s, n + 1, Len(s))

\* Where the server goes on after an error of Read.
MContinues == "read"
AfterError == "close"

Init ==
    /\ srv = "accept" /\ conn = NoOne /\ got = <<>> /\ queue = <<>>
    /\ cl = [c \in Clients |-> "off"]
    /\ asked = [c \in Clients |-> Nothing] /\ long = {}
    /\ up = [c \in Clients |-> <<>>]
    /\ down = [c \in Clients |-> <<>>]
    /\ shown = [c \in Clients |-> <<>>]

-----------------------------------------------------------------------------
(* The server.                                                             *)

\* An Accept that fails is repeated, with nothing changed.
Accept ==
    /\ srv = "accept"
    /\ queue # <<>>
    /\ conn' = Head(queue)
    /\ queue' = Tail(queue)
    /\ srv' = "read"
    /\ UNCHANGED <<got, cl, asked, long, up, down, shown>>

Read ==
    LET n == Least(Len(up[conn]), ReaderLen) IN
    /\ srv = "read"
    /\ up[conn] # <<>>
    /\ got' = SubSeq(up[conn], 1, Least(n, BufLen))
    /\ up' = [up EXCEPT ![conn] = Rest(@, n)]
    /\ srv' = "write"
    /\ UNCHANGED <<conn, queue, cl, asked, long, down, shown>>

\* The error of Write is not looked at.
Write ==
    /\ srv = "write"
    /\ down' = IF cl[conn] = "gone" THEN down
               ELSE [down EXCEPT ![conn] = @ \o Answer(got)]
    /\ got' = <<>>
    /\ srv' = "read"
    /\ UNCHANGED <<conn, queue, cl, asked, long, up, shown>>

\* Read fails when the client has gone, with EOF or otherwise.
ReadFails ==
    /\ srv = "read"
    /\ up[conn] = <<>>
    /\ cl[conn] = "gone"
    /\ srv' = AfterError
    /\ UNCHANGED <<conn, got, queue, cl, asked, long, up, down, shown>>

\* process returns, and its deferred Close runs.
Close ==
    /\ srv = "close"
    /\ conn' = NoOne
    /\ srv' = "accept"
    /\ UNCHANGED <<got, queue, cl, asked, long, up, down, shown>>

\* The loop has no end: the server is ended from outside.
Kill ==
    /\ srv # "down"
    /\ srv' = "down"
    /\ conn' = NoOne
    /\ queue' = <<>>
    /\ got' = <<>>
    /\ UNCHANGED <<cl, asked, long, up, down, shown>>

-----------------------------------------------------------------------------
(* The client c.                                                           *)

Dial(c) ==
    /\ cl[c] = "off"
    /\ cl' = [cl EXCEPT ![c] = IF srv = "down" THEN "gone" ELSE "typing"]
    /\ queue' = IF srv = "down" THEN queue ELSE Append(queue, c)
    /\ UNCHANGED <<srv, conn, got, asked, long, up, down, shown>>

\* An empty line, which is also what ReadString returns at the end of the
\* input, its error being dropped, puts nothing in the stream.
Send(c) ==
    /\ cl[c] = "typing"
    /\ asked[c].line < MaxLines
    /\ \E k \in Lengths :
          LET n == asked[c].line + 1 IN
          /\ asked' = [asked EXCEPT ![c] = [line |-> n, len |-> k]]
          /\ up' = IF srv = "down" THEN up ELSE [up EXCEPT ![c] = @ \o Line(n, k)]
          /\ long' = IF k > ReaderLen THEN long \cup {c} ELSE long
    /\ cl' = [cl EXCEPT ![c] = "waiting"]
    /\ UNCHANGED <<srv, conn, got, queue, down, shown>>

Receive(c) ==
    LET n == Least(Len(down[c]), ClientLen) IN
    /\ cl[c] = "waiting"
    /\ down[c] # <<>>
    /\ shown' = [shown EXCEPT ![c] = SubSeq(down[c], 1, n)]
    /\ down' = [down EXCEPT ![c] = SubSeq(@, n + 1, Len(@))]
    /\ cl' = [cl EXCEPT ![c] = "typing"]
    /\ UNCHANGED <<srv, conn, got, queue, asked, long, up>>

\* The client's process ends, with all that it knows.
Ends(c) ==
    /\ cl' = [cl EXCEPT ![c] = "gone"]
    /\ asked' = [asked EXCEPT ![c] = Nothing]
    /\ shown' = [shown EXCEPT ![c] = <<>>]
    /\ down' = [down EXCEPT ![c] = <<>>]
    /\ UNCHANGED <<srv, conn, got, queue, long, up>>

\* Read fails: the server has ended.
ReceiveFails(c) ==
    /\ cl[c] = "waiting"
    /\ down[c] = <<>>
    /\ srv = "down"
    /\ Ends(c)

\* q, or a signal.
Leave(c) ==
    /\ cl[c] \in {"typing", "waiting"}
    /\ Ends(c)

-----------------------------------------------------------------------------
ServerStep    == Accept \/ Read \/ Write \/ ReadFails \/ Close
ClientStep(c) == Dial(c) \/ Send(c) \/ Receive(c) \/ ReceiveFails(c) \/ Leave(c)

Next == ServerStep \/ Kill \/ \E c \in Clients : ClientStep(c)

Spec == Init /\ [][Next]_vars

\* The processes are scheduled.
FairSpec == /\ Spec
            /\ WF_vars(ServerStep)
            /\ \A c \in Clients : WF_vars(Receive(c) \/ ReceiveFails(c))

-----------------------------------------------------------------------------
(* Properties.                                                             *)

\* What a client prints before it is asked for its next line is the answer
\* to its last line, as far as the server's 128 bytes go: a line that is too
\* long for them is cut, and its rest is not taken for the next line, which
\* would put every later answer one line behind (server.go, 13 and 15).  It
\* is taken so after a line of more than the reader's 4096 bytes.
AnswersInStep ==
    \A c \in Clients \ long :
        cl[c] = "typing" /\ asked[c].line > 0
        => shown[c] = Answer(Line(asked[c].line, Least(asked[c].len, BufLen)))

\* A client that has sent a line is answered, or told of the server's end,
\* if no other one keeps the server to itself for ever: who is served leaves
\* some time, and the server lets go of it then (line 18) and comes to the
\* next in the queue.  A client that has sent an empty line may never leave.
Served(c) == conn = c /\ cl[c] # "gone"

TurnComes ==
    \A c \in Clients :
        []<>(\A d \in Clients \ {c} : ~Served(d))
        => (cl[c] = "waiting" /\ asked[c].len > 0) ~> cl[c] # "waiting"
=============================================================================
