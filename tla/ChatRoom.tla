------------------------------ MODULE ChatRoom ------------------------------
(***************************************************************************)
(* The chat room of course seven: chatRoomServer.go and chatRoomClient.go. *)
(*                                                                         *)
(* The server has a main goroutine that accepts connections and one        *)
(* goroutine per connection; all of them share the unsynchronised map      *)
(* userMgr.onlineUsers, keyed by the client's PORT.  A client has a        *)
(* goroutine that receives and a main goroutine that sends.  A TCP         *)
(* connection is a byte stream each way: a Read returns any non-empty part *)
(* of what has arrived, so that writes may be merged by a read.            *)
(*                                                                         *)
(* Data: the i-th line a client writes is the number i, the chunk a Read   *)
(* of the server returns is the interval lo..hi of lines it holds, and a   *)
(* frame is one JSON document the server writes to a client.  A line and a *)
(* frame fit in the 4096 bytes of a read buffer and are not cut.           *)
(***************************************************************************)
EXTENDS Naturals, Sequences, FiniteSets

CONSTANTS
    Conns,      \* the connections clients make (a client dials once)
    Ports,      \* client ports: the keys of onlineUsers
    PortOf,     \* PortOf[c]: the part of the client's address that line 228
                \* takes for its port; clients of two hosts may share it, and
                \* IPv6 clients all do
    Main,       \* the server's main goroutine
    NoConn,     \* "no entry under this key", "no connection"
    Talkers,    \* clients whose user types
    MaxSend,    \* bound: lines such a client sends
    Fragile,    \* connections the network may give up
    BufCap,     \* frames that fit between a server Write and a client Read
    FdLimit     \* connections the server process may hold open

ASSUME ConnsAssumption == /\ Main \notin Conns
                          /\ NoConn \notin Conns
                          /\ PortOf \in [Conns -> Ports]
                          /\ Talkers \subseteq Conns
                          /\ Fragile \subseteq Conns
ASSUME BoundsAssumption == /\ MaxSend \in Nat
                           /\ BufCap \in Nat \ {0}
                           /\ FdLimit \in Nat \ {0}

VARIABLES
    running,    \* the server process is alive
    online,     \* userMgr.onlineUsers: port -> connection, or NoConn
    backlog,    \* connections the kernel has completed, Accept has not taken
    pc,         \* what each goroutine of the server is about to do
    frame,      \* the document each goroutine broadcasts
    todo,       \* keys its range over the map is certain to produce
    seen,       \* keys its range has produced
    cur,        \* the connection its range has produced and it now writes to
    said,       \* history: frames the server began to broadcast about c
    heard,      \* history: heard[d][c], the frames about c written to d
    end,        \* how the client's direction of the stream ends, if it has
    cl,         \* the client: "idle", "up", "deaf" (receiver gone) or "gone"
    wrote,      \* lines in the stream from the client (number of the last)
    took,       \* lines the server has read from it (number of the last)
    down,       \* frames on their way to the client
    lost        \* frames the client's receiver has read and could not print

server == <<running, online, backlog, pc, frame, todo, seen, cur, said>>
client == <<end, cl, wrote>>
vars   == <<running, online, backlog, pc, frame, todo, seen, cur, said,
            heard, end, cl, wrote, took, down, lost>>

Procs  == Conns \cup {Main}
Frames == [kind : {"join", "say", "leave"}, who : Conns, lo : Nat, hi : Nat]

\* The document of JoinOrLeaveMsg, and that of lines lo..hi.
MUnknownType(kind, c) == [kind |-> "wrong", who |-> c, lo |-> 0, hi |-> 0]
Note(kind, c)         == [kind |-> kind, who |-> c, lo |-> 0, hi |-> 0]
Chunk(c, lo, hi)      == [kind |-> "say", who |-> c, lo |-> lo, hi |-> hi]

\* A goroutine that broadcasts nothing.
Blank == [kind |-> "blank"]

Keys == {k \in Ports : online[k] # NoConn}

\* userKey: the port of the client a broadcast is about, left out of it.
OwnKey(p) == PortOf[frame[p].who]

\* Connections whose descriptor the server process holds.
Open == {c \in Conns : pc[c] \notin {"none", "done"}} \cup
        (IF pc[Main] = "accept" THEN {} ELSE {frame[Main].who})

\* What the server writes to d reaches the client's kernel.
LinkUp(d) == cl[d] = "up" /\ end[d] = "open" /\ pc[d] # "done"

\* WriteData(conn of d) has to wait: the buffers between them are full.
MBlockedByDead(d) == ~LinkUp(d) \/ Len(down[d]) >= BufCap
Blocked(d)        == LinkUp(d) /\ Len(down[d]) >= BufCap

\* Keys a range in progress may still produce, its own left out.
MProducesOwn(p) == Keys \ seen[p]
Producible(p)   == Keys \ (seen[p] \cup {OwnKey(p)})

\* Nothing is left that the range has to produce.
MBreaksOff(p) == TRUE
RangeOver(p)  == todo[p] = {}

\* The map without key k.
MKeepsKey(k) == online
Without(k)   == [online EXCEPT ![k] = NoConn]

\* What main puts in the map for the connection it has accepted.
NewEntry == frame[Main].who

\* main broadcasts the join message, and starts the goroutine only then.
MGoesFirst  == [pc EXCEPT ![Main] = "range", ![frame[Main].who] = "read"]
AfterInsert == [pc EXCEPT ![Main] = "range"]

\* The error is io.EOF, which is announced.
MAnnouncesReset(c) == end[c] = "rst"
IsEof(c)           == end[c] = "fin"

Init ==
    /\ running = TRUE
    /\ online = [k \in Ports |-> NoConn]
    /\ backlog = <<>>
    /\ pc = [p \in Procs |-> IF p = Main THEN "accept" ELSE "none"]
    /\ frame = [p \in Procs |-> Blank]
    /\ todo = [p \in Procs |-> {}]
    /\ seen = [p \in Procs |-> {}]
    /\ cur = [p \in Procs |-> NoConn]
    /\ said = [c \in Conns |-> <<>>]
    /\ heard = [d \in Conns |-> [c \in Conns |-> <<>>]]
    /\ end = [c \in Conns |-> "open"]
    /\ cl = [c \in Conns |-> "idle"]
    /\ wrote = [c \in Conns |-> 0]
    /\ took = [c \in Conns |-> 0]
    /\ down = [c \in Conns |-> <<>>]
    /\ lost = [c \in Conns |-> 0]

-----------------------------------------------------------------------------
(* Server: broadcasting.  A range over a Go map produces every entry       *)
(* present when it starts, unless the entry is deleted first; it may or    *)
(* may not produce an entry added meanwhile.                               *)

\* SendMesToEachOnlineUser(PortOf[f.who], f) begins, over the keys ks.
StartBroadcast(p, f, ks) ==
    /\ frame' = [frame EXCEPT ![p] = f]
    /\ said' = [said EXCEPT ![f.who] = Append(@, f)]
    /\ todo' = [todo EXCEPT ![p] = ks \ {PortOf[f.who]}]
    /\ seen' = [seen EXCEPT ![p] = {}]

\* The range produces the entry of key k.
Range(p, k) ==
    /\ running
    /\ pc[p] = "range"
    /\ k \in Producible(p)
    /\ cur' = [cur EXCEPT ![p] = online[k]]
    /\ todo' = [todo EXCEPT ![p] = @ \ {k}]
    /\ seen' = [seen EXCEPT ![p] = @ \cup {k}]
    /\ pc' = [pc EXCEPT ![p] = "write"]
    /\ UNCHANGED <<running, online, backlog, frame, said, heard,
                   client, took, down, lost>>

\* WriteData(up.Conn, data): blocks while the buffers to the client are
\* full; an error, or a client that is gone, only costs the log line.
Write(p) ==
    LET d == cur[p] IN
    /\ running
    /\ pc[p] = "write"
    /\ ~Blocked(d)
    /\ IF LinkUp(d)
       THEN /\ down' = [down EXCEPT ![d] = Append(@, frame[p])]
            /\ heard' = [heard EXCEPT ![d][frame[p].who] = Append(@, frame[p])]
       ELSE UNCHANGED <<down, heard>>
    /\ pc' = [pc EXCEPT ![p] = "range"]
    /\ cur' = [cur EXCEPT ![p] = NoConn]
    /\ UNCHANGED <<running, online, backlog, frame, todo, seen, said,
                   client, took, lost>>

\* The range is over: main starts the connection's goroutine and accepts
\* again, a goroutine reads again or, after the leave message, closes conn.
EndRange(p) ==
    /\ running
    /\ pc[p] = "range"
    /\ RangeOver(p)
    /\ pc' = IF p = Main
             THEN [pc EXCEPT ![Main] = "accept", ![frame[Main].who] = "read"]
             ELSE [pc EXCEPT ![p] = IF frame[p].kind = "leave" THEN "done"
                                                               ELSE "read"]
    /\ frame' = [frame EXCEPT ![p] = Blank]
    /\ seen' = [seen EXCEPT ![p] = {}]
    /\ UNCHANGED <<running, online, backlog, todo, cur, said, heard,
                   client, took, down, lost>>

-----------------------------------------------------------------------------
(* Server: the main goroutine.                                             *)

Accept ==
    /\ running
    /\ pc[Main] = "accept"
    /\ backlog # <<>>
    /\ Cardinality(Open) < FdLimit
    /\ frame' = [frame EXCEPT ![Main] = Note("join", Head(backlog))]
    /\ backlog' = Tail(backlog)
    /\ pc' = [pc EXCEPT ![Main] = "insert"]
    /\ UNCHANGED <<running, online, todo, seen, cur, said, heard,
                   client, took, down, lost>>

\* Accept fails (no descriptor left): the error is printed, and conn, which
\* is nil, is used all the same: the process panics.
AcceptError ==
    /\ running
    /\ pc[Main] = "accept"
    /\ backlog # <<>>
    /\ Cardinality(Open) >= FdLimit
    /\ running' = FALSE
    /\ UNCHANGED <<online, backlog, pc, frame, todo, seen, cur, said, heard,
                   client, took, down, lost>>

\* onlineUsers[userKey] = &userProcess, then the join message.
Insert ==
    /\ running
    /\ pc[Main] = "insert"
    /\ online' = [online EXCEPT ![OwnKey(Main)] = NewEntry]
    /\ pc' = AfterInsert
    /\ StartBroadcast(Main, frame[Main], Keys)
    /\ UNCHANGED <<running, backlog, cur, heard, client, took, down, lost>>

-----------------------------------------------------------------------------
(* Server: the goroutine of connection c.                                  *)

\* ReadData returns a chunk of the stream, which is broadcast.
Read(c) ==
    /\ running
    /\ pc[c] = "read"
    /\ \E hi \in took[c] + 1 .. wrote[c] :
          /\ StartBroadcast(c, Chunk(c, took[c] + 1, hi), Keys)
          /\ pc' = [pc EXCEPT ![c] = "range"]
          /\ took' = [took EXCEPT ![c] = hi]
    /\ UNCHANGED <<running, online, backlog, cur, heard, client, down, lost>>

\* ReadData returns an error: io.EOF, or the connection was reset.
ReadErr(c) ==
    /\ running
    /\ pc[c] = "read"
    /\ took[c] = wrote[c]
    /\ end[c] # "open"
    /\ pc' = [pc EXCEPT ![c] = "delete"]
    /\ UNCHANGED <<running, online, backlog, frame, todo, seen, cur, said,
                   heard, client, took, down, lost>>

\* delete(onlineUsers, userKey); a deleted entry is forgotten by every range
\* in progress.  Only io.EOF is announced; otherwise conn is closed at once.
Delete(c) ==
    LET k == PortOf[c] IN
    /\ running
    /\ pc[c] = "delete"
    /\ online' = Without(k)
    /\ IF IsEof(c)
       THEN /\ pc' = [pc EXCEPT ![c] = "range"]
            /\ frame' = [frame EXCEPT ![c] = Note("leave", c)]
            /\ said' = [said EXCEPT ![c] = Append(@, Note("leave", c))]
            /\ todo' = [p \in Procs |-> (IF p = c THEN Keys ELSE todo[p]) \ {k}]
            /\ seen' = [p \in Procs |-> (IF p = c THEN {} ELSE seen[p]) \ {k}]
       ELSE /\ pc' = [pc EXCEPT ![c] = "done"]
            /\ todo' = [p \in Procs |-> todo[p] \ {k}]
            /\ seen' = [p \in Procs |-> seen[p] \ {k}]
            /\ UNCHANGED <<frame, said>>
    /\ UNCHANGED <<running, backlog, cur, heard, client, took, down, lost>>

\* Two goroutines use the map at once and one of them writes: the runtime
\* may notice and kill the process ("fatal error: concurrent map ..."); when
\* it does not, the other actions say what happens.
MapRace ==
    /\ running
    /\ \E p, q \in Procs : /\ p # q
                           /\ pc[p] \in {"insert", "delete"}
                           /\ pc[q] \in {"insert", "delete", "range"}
    /\ running' = FALSE
    /\ UNCHANGED <<online, backlog, pc, frame, todo, seen, cur, said, heard,
                   client, took, down, lost>>

-----------------------------------------------------------------------------
(* The clients and the network.                                            *)

\* net.Dial succeeds as soon as the kernel has queued the connection.
Dial(c) ==
    /\ cl[c] = "idle"
    /\ running
    /\ cl' = [cl EXCEPT ![c] = "up"]
    /\ backlog' = Append(backlog, c)
    /\ UNCHANGED <<running, online, pc, frame, todo, seen, cur, said, heard,
                   end, wrote, took, down, lost>>

\* net.Dial fails: the error is printed, the nil connection is used and the
\* client panics.
DialFails(c) ==
    /\ cl[c] = "idle"
    /\ ~running
    /\ cl' = [cl EXCEPT ![c] = "gone"]
    /\ UNCHANGED <<server, heard, end, wrote, took, down, lost>>

\* ClientSendMsg sends a line.  (After an error on the connection its loop
\* goes on and changes nothing any more.)
Send(c) ==
    /\ running
    /\ c \in Talkers
    /\ LinkUp(c)
    /\ wrote[c] < MaxSend
    /\ wrote' = [wrote EXCEPT ![c] = @ + 1]
    /\ UNCHANGED <<server, heard, end, cl, took, down, lost>>

\* ClientReceiveMsg: one Read takes n frames; with one the message is
\* printed, with more Unmarshal fails and none of them is.
Receive(c) ==
    /\ cl[c] = "up"
    /\ \E n \in 1 .. Len(down[c]) :
          /\ lost' = [lost EXCEPT ![c] = IF n = 1 THEN @ ELSE @ + n]
          /\ down' = [down EXCEPT ![c] = SubSeq(@, n + 1, Len(@))]
    /\ UNCHANGED <<server, heard, client, took>>

\* The client's Read fails: the receiver returns, the sender goes on.
ReceiverStops(c) ==
    /\ cl[c] = "up"
    /\ down[c] = <<>>
    /\ ~running \/ end[c] # "open" \/ pc[c] = "done"
    /\ cl' = [cl EXCEPT ![c] = "deaf"]
    /\ UNCHANGED <<server, heard, end, wrote, took, down, lost>>

\* The user ends the client.  The kernel closes the connection with a FIN,
\* or with a RST when frames have arrived that nobody read; a RST may
\* overtake lines that the server has not received.
Exit(c) ==
    /\ cl[c] \in {"up", "deaf"}
    /\ cl' = [cl EXCEPT ![c] = "gone"]
    /\ down' = [down EXCEPT ![c] = <<>>]
    /\ IF end[c] # "open"
       THEN UNCHANGED <<end, wrote>>
       ELSE \/ /\ end' = [end EXCEPT ![c] = "fin"]
               /\ UNCHANGED wrote
            \/ /\ down[c] # <<>>
               /\ end' = [end EXCEPT ![c] = "rst"]
               /\ \E n \in took[c] .. wrote[c] : wrote' = [wrote EXCEPT ![c] = n]
    /\ UNCHANGED <<server, heard, took, lost>>

\* The network gives the connection up: both ends get an error, and what
\* was on its way may be lost.
Break(c) ==
    /\ c \in Fragile
    /\ LinkUp(c)
    /\ end' = [end EXCEPT ![c] = "rst"]
    /\ \E n \in took[c] .. wrote[c] : wrote' = [wrote EXCEPT ![c] = n]
    /\ \E n \in 0 .. Len(down[c]) : down' = [down EXCEPT ![c] = SubSeq(@, 1, n)]
    /\ UNCHANGED <<server, heard, cl, took, lost>>

-----------------------------------------------------------------------------
Ranging(p) == (\E k \in Ports : Range(p, k)) \/ Write(p) \/ EndRange(p)
MainStep   == Accept \/ AcceptError \/ Insert \/ Ranging(Main)
Process(c) == Read(c) \/ ReadErr(c) \/ Delete(c) \/ Ranging(c)
Client(c)  == \/ Dial(c) \/ DialFails(c) \/ Send(c) \/ Receive(c)
              \/ ReceiverStops(c) \/ Exit(c) \/ Break(c)

Next == \/ MainStep
        \/ \E c \in Conns : Process(c) \/ Client(c)
        \/ MapRace

Spec == Init /\ [][Next]_vars

\* The Go scheduler runs every goroutine that can go on, and the receiver of
\* a client that lives keeps reading; nothing makes a user dial, send or exit.
Fairness == /\ WF_vars(MainStep)
            /\ \A c \in Conns : /\ WF_vars(Process(c))
                                /\ WF_vars(Receive(c) \/ ReceiverStops(c))

FairSpec == Spec /\ Fairness

-----------------------------------------------------------------------------
(* Properties.                                                             *)

\* Every variable holds a value the program can give it: the one type
\* invariant of this module, which the proofs start from.
TypeOK ==
    /\ running \in BOOLEAN
    /\ online \in [Ports -> Conns \cup {NoConn}]
    /\ backlog \in Seq(Conns)
    /\ pc \in [Procs -> {"none", "accept", "insert", "range", "write",
                         "read", "delete", "done"}]
    /\ frame \in [Procs -> Frames \cup {Blank}]
    /\ todo \in [Procs -> SUBSET Ports]
    /\ seen \in [Procs -> SUBSET Ports]
    /\ cur \in [Procs -> Conns \cup {NoConn}]
    /\ said \in [Conns -> Seq(Frames)]
    /\ heard \in [Conns -> [Conns -> Seq(Frames)]]
    /\ end \in [Conns -> {"open", "fin", "rst"}]
    /\ cl \in [Conns -> {"idle", "up", "deaf", "gone"}]
    /\ wrote \in [Conns -> Nat]
    /\ took \in [Conns -> Nat]
    /\ down \in [Conns -> Seq(Frames)]
    /\ lost \in [Conns -> Nat]

Registered(c) == online[PortOf[c]] = c

\* From the insertion of c in the map to the return of its failing Read.
Served(c) ==
    \/ pc[c] \in {"read", "delete"}
    \/ pc[c] \in {"range", "write"} /\ frame[c].kind = "say"
    \/ pc[Main] \in {"range", "write"} /\ frame[Main].who = c

OwnPort(c) == \A d \in Conns : PortOf[d] = PortOf[c] => d = c

\* A connection with a port of its own is in the map exactly as long as it is
\* served: no goroutine ends and leaves its entry, none removes that of another,
\* and none is served without being in the room (chatRoomServer.go 120, 229).
MapIsServed ==
    \A c \in Conns : OwnPort(c) => (Registered(c) <=> Served(c))

\* Nobody is sent what is said of himself, whichever goroutine writes, and
\* although a range picks its entry before it is written to (lines 81-87).
NoEcho ==
    \A d, c \in Conns : heard[d][c] # <<>> => PortOf[d] # PortOf[c]

\* Between two broadcasts about c, every client in the room that has heard of
\* c has heard all of it: no range misses one that stays, whoever joins,
\* leaves or is overwritten meanwhile.
UpToDate ==
    \A c, d \in Conns :
        /\ pc[c] = "read"
        /\ Registered(d) /\ LinkUp(d)
        /\ heard[d][c] # <<>>
        => heard[d][c][Len(heard[d][c])] = said[c][Len(said[c])]

\* f can come right after e in what is said of a client: its joining, its
\* lines in the order it wrote them, none twice and none left out, leaving.
Follows(e, f) ==
    /\ e.kind # "leave"
    /\ \/ f.kind = "leave"
       \/ f.kind = "say" /\ f.lo = e.hi + 1 /\ f.hi >= f.lo

\* What a client is sent about another is an uninterrupted part of the
\* other's story, although main, the other's goroutine and the map's
\* iteration order decide who writes when (lines 235, 238, 106, 126).
StoryInOrder ==
    \A d, c \in Conns : \A i \in 1 .. Len(heard[d][c]) - 1 :
        Follows(heard[d][c][i], heard[d][c][i + 1])

\* A connection whose client side has ended is taken from the backlog, read
\* to its end and closed, unless the server dies: no goroutine stays behind.
DepartedIsReleased ==
    \A c \in Conns : end[c] # "open" ~> (pc[c] = "done" \/ ~running)

Reached(d, c, n) == \E i \in 1 .. Len(heard[d][c]) : heard[d][c][i].hi >= n

\* A line the server has still to read from c reaches every other client in the
\* room, unless one of the three dies first or d loses its place to a third.
LinesReachOthers ==
    \A c, d \in Conns : \A n \in 1 .. MaxSend :
        (/\ PortOf[c] # PortOf[d] /\ LinkUp(d)
         /\ took[c] < n /\ n <= wrote[c] /\ Served(c) /\ Registered(d))
        ~> (\/ ~running \/ ~LinkUp(d) \/ ~Registered(d)
            \/ end[c] = "rst" \/ Reached(d, c, n))

HeardLeave(d, c) == \E i \in 1 .. Len(heard[d][c]) : heard[d][c][i].kind = "leave"

\* When c's stream ends with a FIN the others in the room hear that c left.
FinIsAnnounced ==
    \A c, d \in Conns :
        (/\ PortOf[c] # PortOf[d] /\ LinkUp(d)
         /\ end[c] = "fin" /\ Served(c) /\ Registered(d))
        ~> (~running \/ ~LinkUp(d) \/ ~Registered(d) \/ HeardLeave(d, c))

\* What the course says of this program and the code does not do: a client
\* prints every message it is sent (line 809, chatRoomClient.go 89).
EveryFrameIsPrinted == \A c \in Conns : lost[c] = 0

-----------------------------------------------------------------------------
(* The server implements the abstract feed.                                *)
Feed == INSTANCE RoomFeed WITH Members <- Conns

FeedSpec == Feed!Spec
=============================================================================
