# TLA+ models of the network programming course

This directory holds a formal model of the programs in the repository: eight
courses of network programming, each with its servers and clients in C or Go.
The TLA+ modules are written from the source code; TLC checks them on small
instances, and TLAPS proves every safety invariant of the servers, that they
implement their abstract specifications, and that none of them is stuck where
it could go on, for every value of the constants. `PROJECT.json` is the index:
components, runs, mutants, source lines behind every definition, findings,
hazards and theorems.

## Inventory

Paths are relative to the repository. "State" is what outlives one step.

| part | code | state | operations | what makes it correct |
|---|---|---|---|---|
| Chat room | `syl-course-seven/code/chatRoomServer.go`, `chatRoomClient.go` | the map `onlineUsers` shared by all goroutines, each goroutine's place in its loop, each client's stream | accept, insert, broadcast, read, delete, close; dial, send, receive, exit | the map holds who is served; nobody hears himself; a story is heard in order and without gaps; who leaves is released and announced |
| Multi-process server | `syl-course-five/code/multiprocess-server.c`, `multiprocess-client.c`, `socket-comm.c` | parent, children, pending SIGCHLD, `errno`, descriptors | accept, fork, close, read, write, the signal handler | dead children are reaped; a line is answered once at most; a client is told of the end |
| Socket wrappers | `syl-course-five/code/socket-comm.c` | `errno` | Accept, Read, Write, Close, Writen | a call that a signal interrupts is repeated |
| select server | `syl-course-five/code/select-server.c`, `select-client.c` | `client[]`, `allset`, `rset`, `maxi`, `maxfd`, `nready` | select, accept, scan | the tables agree with the descriptors; no event is stale; the count is exact |
| epoll server | `syl-course-five/code/epoll-server.c`, `epoll-client.c` | `client[]`, `maxi`, what is registered, the batch | epoll_wait, accept, read, close | the same, within a batch of events |
| File transfer | `syl-course-six/code/fileTranServer.go`, `fileTranClient.go` | the two programs, the connection, the stored file | name, ok, create, content, end | what is stored is in order, and all of it when both ends say so and no write failed; both end |
| Thread server | `syl-course-five/code/multithread-server.c`, `multithread-clien.c` | the array `ts[256]`, a thread per connection | accept, create, read, write, close | a thread uses its own connection; a descriptor is closed once; a line is answered to its sender |
| Goroutine server | `syl-course-five/code/goroutine-server.go`, `goroutine-client.go` | none shared | accept, echo | each client has its answers |
| UDP echo | `syl-course-four/code/udp-*` | ports, receive buffers | bind, send, receive, answer | an answer belongs to its question |
| Multicast | `syl-course-four/code/duobo-*` | none | send every second | - |
| Local socket | `syl-course-four/code/domain-*` | the socket files of servers and clients | unlink, bind, listen, accept, stat, echo | files come and go with their owners; a left-over file stops nobody |
| TCP echo | `syl-course-three/code/server.*`, `client.*` | the buffered reader, the queue of the one server | accept, read, answer | answers stay in step with lines; everyone has a turn |
| Sticky packets | `syl-course-three/code/nb-*` | the stream | 20 messages, any division into reads | shows that there is no framing |
| Byte order | `syl-course-three/code/*.cpp` | none | print | - |
| HTTP | `syl-course-eight/code` | none | one handler | - |

The parts do not call one another: each is a server with its clients, and they
interact through connections, or through files and ports. The behaviour that is
hard to test is in these places. The chat room has goroutines that share a map
without a lock and block on each other through their clients. The multi-process
server has a signal handler that runs between any two instructions of the
parent and shares `errno` with it. The servers built on select and epoll keep
several tables that have to agree while connections come and go within one turn
of the loop. The thread server hands its threads addresses into an array that
it goes on writing. The programs of course four share names that outlive them:
a port that both ends of the UDP echo bind, and socket files that nobody
removes at the end. `PROJECT.json`, `hazards`, has the list, at the lines where
each one bites.

## Modules

| module | models | runs |
|---|---|---|
| `RoomFeed` | what the chat server promises, with no map and no goroutines | as `FeedSpec` in `chat_room` |
| `ChatRoom` | the chat room, server and clients | `MCChatRoom*.cfg` |
| `ChatRoomProofs` | theorems about `ChatRoom` | |
| `MultiProcess` | the multi-process server and its clients | `MCMultiProcess*.cfg` |
| `MultiProcessProofs` | theorems about `MultiProcess` | |
| `EchoNet` | connections, descriptors and clients of the three servers below | with them |
| `EchoNetProofs` | lemmas about `EchoNet` that the proofs of the three share; what `EchoService` comes to for a client | |
| `SelectServer` | `select-server.c`, extends `EchoNet` | `MCSelectServer.cfg` |
| `SelectServerProofs` | theorems about `SelectServer` | |
| `EpollServer` | `epoll-server.c`, extends `EchoNet` | `MCEpollServer.cfg` |
| `EpollServerProofs` | theorems about `EpollServer` | |
| `ThreadServer` | `multithread-server.c`, extends `EchoNet` | `MCThreadServer.cfg` |
| `ThreadServerProofs` | theorems about `ThreadServer` | |
| `EchoService` | what an echo server promises each client, with no processes, threads or descriptors | as `EchoSpec` in `thread`; for four other servers by theorems |
| `FileTransfer` | both programs of course six | `MCFileTransfer.cfg` |
| `FileTransferProofs` | theorems about `FileTransfer` | |
| `LocalSocket` | `domain-server.c`, `domain-client.c` and the socket files | `MCLocalSocket.cfg` |
| `LocalHostProofs` | theorems about `LocalSocket`, `UdpEcho` and `GoEcho`, whose ends share a host | |
| `UdpEcho` | `udp-server.c`, `udp-client.c` and the ports of their host | `MCUdpEcho.cfg` |
| `GoEcho` | `server.go`, `client.go` of course three | `MCGoEcho.cfg` |
| `MC...` | instances: values of function constants, symmetry | |

Operators whose name begins with `M` and that stand above a definition are
mutants: what the definition would be with a plausible bug. No specification
uses them; every property of a passing run has one that violates it, which
shows that the property depends on the code.

### ChatRoom

`pc[Main]` is the main goroutine (`accept`, `insert`, `range`, `write`) and
`pc[c]` the goroutine of connection `c` (`none` before `go Process`, `read`,
`range`, `write`, `delete`, `done`). A step ends where another goroutine can
make a difference: `Insert` is the map assignment of line 229 with the start
of the join broadcast, `Range` is one iteration of the loop of line 81, which
fixes the connection, and `Write` is `conn.Write`, one step later, when the
connection may be gone. `todo` and `seen` say what the Go language says of a
range over a map that changes: entries present from the start are produced
unless they are deleted first, entries added meanwhile may be. `EndRange` goes
on where the caller does: main starts the goroutine, a goroutine reads again
or returns and closes.

`Blocked` is a `Write` that waits because the client does not read: at most
`BufCap` frames are between the two. `Read` takes any non-empty part of what
has arrived, so that lines are merged, and `Receive` on the client's side
takes any number of frames, of which it can print only a lone one. `Exit` ends
a client: with a FIN, or with a reset when frames are unread, as the kernel
does. `Break` is the network. `MapRace` is the runtime's "concurrent map"
error, possible whenever one goroutine is about to write the map and another
is about to use it. When it does not strike, an access is taken as a whole:
what else a racing map access may do (a corrupted map) is outside the model.
A line is its number, and a frame one JSON document; neither is longer than
the buffers of 4096 bytes.

`Ports` stands for what line 228 makes of an address. Two clients may have the
same: on two hosts, or because the part behind the first colon of an IPv6
address is always empty.

### MultiProcess

The parent is in its loop, blocked in accept, at the test of `errno` after a
failure, about to fork or to close `connfd`, or has exited. `Handler` runs in
any of these states. Its effects on the parent are those of `waitpid` and of
the kernel: it reaps all zombies, leaves ECHILD when no child is left, and
makes a blocked accept return EINTR (`sa_flags` is 0). The wrapper jumps
behind its call of accept, which `TestErrno` shows: with EINTR there is no
step the parent can take. A child is started, reads, writes, and is a zombie
or reaped. The client sends a line and waits for its answer; there is one
line or one answer in a connection, and so no Write that could raise SIGPIPE.

A child ends when its client has gone (`ReadEof`) or by a signal, anywhere
(`Kill`, for the connections in `Killable`); the parent ends by `perr_exit`
(`ParentExits`). `Released` is what the kernel does then, and at every close:
the listening socket goes with its last holder, and its queue with it; a
connection goes with its last holder (`HungUp`), and with it a line that nobody
has read (`up`). A child killed before the parent has closed its own copy of
the connection leaves the parent the last holder, until `CloseConnfd`. `Told`
is the client that reads the end of the connection.

### EchoNet, SelectServer, EpollServer

`conn[f]` is what descriptor `f` stands for; a new connection gets the lowest
free descriptor, which is how a closed one is reused. `FirstFd` stands for the
descriptors that serve no client (0, 1, 2 and `listenfd`). In `SelectServer`
one turn of the loop is `Select`, then `AcceptNew` if the listening socket is
ready, then one `Serve` per ready slot in the order of the slots; clients go
on between any two of these steps. `witness` is a history variable: what every
descriptor stood for when select returned, which `NoStaleEvent` compares.
`AcceptBeyondSet` is FD_SET with a descriptor the set has no bit for, after
which nothing is said. `AcceptFails` is the wrapper's exit or, with
ECONNABORTED, its endless test of `errno`; from then on the model is at rest.
In `EpollServer` the batch is handled in any order, at most `OpenMax` events
of it.

### FileTransfer

Byte `b` of the file is the number `b` and the name is the negative numbers.
`ToUpper` works on one piece, as the client does, and puts the three bytes of
U+FFFD, three zeros, for each byte of a character that the piece cuts, so that
a cut text is stored longer than it was. (The texts are such that upper case
keeps the length of a whole character.) `Recv` is one Read and the `file.Write`
of it, which may fail, keeping any part of the piece or none; nobody looks, and
the next piece comes right behind. The history variables `content` and `lost`
are all of the content the client has written and how many bytes failed writes
have left out. `ServerReturns` and `ClientReturns` include the deferred Close:
what the other end writes then is lost without an error it looks at. `Faults`
says which calls may fail in a run, and `input`, chosen once from `Inputs`,
what the text and the name are like.

### ThreadServer and EchoService

`pc` is main: in accept, between accept and `pthread_create`, hung in the
wrapper, or the end of the process. `th[c]` is the thread started for
connection `c`, and `arg[c]` the entry of `ts` whose address it was given. A
thread has no descriptor of its own: each of its calls is about
`conn[ts[arg[c]]]`, so that the model would show an entry that is overwritten
or a descriptor that is closed twice and given away between. `Read`, `Write`
and `Close` are steps of their own, between which main and the others go on.
`StartThread` may fail to start a thread (`failed`); as in the code, nobody
notices. `BeyondArray` is the entry after the last one, after which nothing is
said.

`EchoService` has one step per line: asked, replied once to whom it came from,
taken; a client may leave at any time, at once when nobody accepts it, and
what it was owed is still owed then or forgotten. What is
owed and what is an answer is the whole mapping of a server to it. For the
thread server a line is owed while it is in the connection or in the thread,
and for the two loops, which read and answer in one step, while it is in the
connection. For the multi-process server and the Go server it is owed while its
client waits and no answer is on the way: a line lost with a child, or an empty
line of the Go client, is owed as long as the client waits.

### LocalSocket

`name` is the server whose socket `mylocal.socket` is, and `file[p]` the client
whose socket the file of process number `p` is; both outlive their processes.
A server is `UnlinkName`, `BindName`, `Listen`, `Accept`, `Stat`,
`UnlinkClient`, then lines until its one client ends; `Kill` may end it
anywhere. Another member of `Servers` is the server started again, or a second
one by mistake: it takes the name away from the first, which keeps its queue.
`connect` succeeds before `accept`, so a client may send and wait while in the
queue, and `End` of a server is what those in its queue are told. The process
numbers of clients that have ended are used again (`PidOf`), which is how a
server can remove a file that is no longer its client's.

### UdpEcho

`at[p]` is the process whose socket has port `p`. Both programs bind port 8000
and drop the result; a client that has no port gets one at its first `sendto`.
A datagram is delivered or lost when it is sent (one host): lost when the port
has no socket or its buffer is full. `KillServer` loses the buffer and what
the server holds. An answer goes to the port its question came from, whoever
has that port by then; `former` is the history of each port. `recvfrom` of the
client takes a datagram from anybody.

### GoEcho

A byte of a line is the line's number, and a stream is the sequence of its
bytes. `Read` is a new reader, which takes at most `ReaderLen` bytes from the
socket (the 4096 of bufio), and a Read of at most `BufLen` of them; `Rest` is
what is left in the socket for the next turn: nothing, unless the line was
longer than a reader. client.go:23 sets no limit to a line, so such lines are
in the model: `long` is the history of who has sent one, for whom answers may
be a line behind from then on, several at once in one Read of the client
(`ClientLen`, its 512 bytes). A terminal gives its program no line longer than
4096 bytes; a pipe may. `Send` of a line of length 0 puts nothing in the stream
and waits for its answer all the same. The server goes back to `Accept` only
when its client has gone.

## What the runs check

Passing runs:

| run | instance | shows |
|---|---|---|
| `chat_safety` | 3 clients on ports of their own, one types a line and may be cut off, a buffer of one frame | `MapIsServed`, `NoEcho`, `UpToDate`, `StoryInOrder`, types |
| `chat_room` | 3 clients, two on one port, 2 descriptors, a buffer of two frames | `DepartedIsReleased`, `LinesReachOthers`, `FinIsAnnounced`; the server implements `RoomFeed` |
| `proc` | 3 clients, room for 2 children, one of which may be killed, accept fails in every way | `ZombieIsSignalled`, `LineIsSomewhere`, `ZombiesAreReaped`, `ClientIsToldOfEnd`, `ServedIsAnswered`, types |
| `select` | 3 clients, 3 descriptors, the last beyond an `fd_set` of 3 bits | `TablesAgree`, `NoStaleEvent`, `NreadyCounts`, `WaitingIsAnswered`, `GoneIsClosed`, types |
| `epoll` | 3 clients, 3 descriptors, 2 slots, batches of 2 | `TablesAgree`, `NoStaleEvent`, `WaitingIsAnswered`, `GoneIsClosed` |
| `file` | 6 bytes in 3 pieces, with and without a cut character, a name in 1 or 2 segments, every failure, writes that keep any part of a piece included | `BothAgreeMeansCopied`, `StoredInOrder`, `BothEnd`, types |
| `thread` | 3 clients, two lines each, 2 descriptors, an array of 2 entries | `OwnEntry`, `OpenIsServed`, `ServedIsAnswered`; the server implements `EchoService` |
| `local` | 2 servers, 3 clients of which 2 have one number, one line each, everybody may be killed | `BindFailsOnlyInARace`, `FileIffUntaken`, `EndOrAnswer` |
| `udp` | 3 clients, two lines each, 2 ports to share, 2 starts of the server, buffers of 2 | `AnswerIsOwn`, `ReceivedIsAnswered` |
| `goecho` | 3 clients, two lines each: empty, as long as the buffer, longer, or longer than a reader | `AnswersInStep`, `TurnComes` |

Why these bounds are enough to meet the interesting cases. In the chat room
three clients let one broadcast while a second joins and a third leaves; a
buffer of one frame makes writers wait; one descriptor less than clients makes
accept fail. For the parent three clients and room for two children make two
exits share one signal and a fork fail. With fewer bits or slots than clients
the loops hit their limits, and two descriptors that three clients share are
closed and reused, by the third through the last entry of the array or beyond
it. Two servers race between unlink and bind, or follow one another; of three
clients two share a number and one has its own, and a queue of one is full
when two wait. Two ports for three clients are used again, and a server
started twice starts before and after them. Three pieces are a first, a middle
and a last one, so that a write in the middle can fail between two that do not.
A line of 5 bytes for a reader of 4 leaves one byte in the socket, which the
next turn takes for a line. One child that may be killed is enough for a kill
before and after the parent's close, beside others that end in order. Deadlock
is not checked: each of these systems may stop, when all clients are gone or
the server is. Symmetry is used in `chat_safety` only, over the clients that
are treated alike and without a temporal property.

Violating runs, each for one statement of the course or of a comment that the
code does not meet (`findings` quotes it):

| run | statement | what happens |
|---|---|---|
| `chat_v_print` | messages are printed | two that arrive together are lost |
| `proc_v_accept` | a child for every connection | an interrupted accept spins for ever |

The models show more that the comments or the course say otherwise, without a
run of its own:

- `ChatRoom`: the map is keyed by the port alone (line 228), so that a client
  with the same port on another host replaces the first one's entry, which
  stays connected and hears nothing more (`Insert` with `SharedPort`; the
  course, seven, line 56, has every client in the queue). The runtime ends the
  server when two goroutines use the map at once (`MapRace`), and so does the
  nil connection after an accept that fails (`AcceptError`). A client that
  exits with unread messages resets its connection, and since `IsEof` is then
  false its leaving is told to nobody (`FinIsAnnounced` is about the others).
- `MultiProcess`: the handler of the last child's end leaves ECHILD in
  `errno`, and the parent that spins at `reAccept` exits (`TestErrno`).
- `SelectServer`: the test at line 83 counts slots, not descriptors, which run
  ahead of them (`AcceptBeyondSet`); the exit for "too many clients" is never
  reached.
- `FileTransfer`: a character cut by the 4096-byte piece is stored as U+FFFD
  (`ToUpper`; the course, six, line 308, has the file stored in upper case).
  "ok" is sent before the file is created; a killed client gives the EOF that
  the server takes for the end of the file; the client says "sent" although the
  server has given up. A `file.Write` that fails is not noticed: the file lacks
  its bytes, with what came later closed up behind, and both ends say that all
  went well (`BothAgreeMeansCopied` counts what is missing).
- `ThreadServer`: the 257th connection is written beyond the array, and a
  thread that cannot be started leaves its client waiting for ever.
- `LocalSocket`: a server started while another waits takes its name away, and
  the first waits for ever; a client whose number was used again may be
  refused because a server has removed its file.
- `UdpEcho`: udp-client.c:29 says that the client's bind makes no difference;
  a client started before the server owns the server's port, reads its own
  line as the answer, and the server hears nothing. An answer to a client that
  has left goes to whoever has its port.
- `GoEcho`: an empty line, or the end of the input, whose error line 23 of
  client.go drops, stops its client and everyone behind it in the queue. After a
  line longer than a reader (4096 bytes) the rest is taken for the next line,
  and answers are behind from then on.

## Fairness

`FairSpec` of `ChatRoom` has weak fairness of main, of every goroutine and of
every living client's receiver: the Go scheduler runs what can run, and the
receiver is a loop of its own that waits for nothing but the connection.
Nothing is assumed of users: they need not dial, type or exit. `MultiProcess`
assumes that the kernel schedules every process and delivers a pending signal,
and that a client that waits reads its answer, or the end of its connection
(`Receive` and `Told`). Nothing is killed by assumption. The parent that spins at
`reAccept` is scheduled too; it just has no step that changes anything.
`SelectServer` and `EpollServer` assume the one process and the waiting
clients, `ThreadServer` main and every thread besides, `FileTransfer` the two
programs, and `UdpEcho`, `LocalSocket` and `GoEcho` the servers and the clients
that wait. Nobody has to start a server, type, or leave: `TurnComes` has it as
its condition that no client stays for ever. Fairness of a part is stated for
the disjunction of its steps, never for a choice within it.

## Proofs

All theorems hold for every number of clients and every value of the constants,
under the assumptions named in the modules, which say what a constant is and no
more: markers such as "no connection" are not connections, descriptors are
numbers and the first ones (below `FirstFd`) serve no client, limits are
natural numbers (and not 0 where the code needs room for one), every connection
has a port and every client process a number, accept fails with one of two
errors, and the end of a file is the end of a character (`FileAssumption`). TLC
evaluates each of them on every run. An invariant is proved by one lemma per
action or actor; each theorem below is listed with what its invariant adds, and
why.

### ChatRoom

- `ChatRoomProofs!TypeCorrect`: `Spec => []TypeOK`. Types alone are not
  inductive: `Range` gives `cur` a connection only because it produces used
  keys, and a broadcast names a client only because a goroutine that
  broadcasts has a document. `TypeInv` adds `FrameOK` and `RoleOK`. There is
  one lemma per action.
- `ChatRoomProofs!NoEchoCorrect`: `Spec => []NoEcho`. `Write` relies on what
  `Range` saw a step earlier, so the invariant adds `TargetIsOther` (the
  connection fixed is of another port) and `EntriesKeyed` (an entry is under
  the port of its connection), which is what lets a connection that was
  replaced in the map be written to safely.
- `ChatRoomProofs!MapIsServedCorrect`: `Spec => []MapIsServed`. That no entry
  is left behind or removed by another needs `Lifecycle`: a connection is in
  the backlog once, or main's, or has a goroutine, and never two of these.
- `UpToDateCorrect`, `StoryInOrderCorrect`: what a client has heard of another
  is in order and without gaps, and is all of it whenever that other one is not
  being told of. Neither is inductive: they are disturbed by a broadcast in
  progress, and a range over a map that changes is told to entries that were
  not there when it began. `StoryInv` says where each broadcast stands.
  `RangeInv` divides the entries of the map into those the range is certain
  to produce still (`todo`: they are one frame behind, or have heard nothing),
  those it has produced (`seen`: they are up to date, or the one being written
  to), and those that came meanwhile (they have heard nothing). `SaidInv` has
  the story of a client end where its teller stands, and by `Lifecycle` only
  one goroutine tells of a client at a time, which is the reason no lock is
  needed for order. `FreshInv` has nobody sent anything before he is in the
  map; without it a new entry could be behind. `SettledInv` is `RangeInv`
  between two broadcasts. Each action is shown to change the map only by
  removing an entry or by adding one that is new to the room (`MapStep`).
- `ImplementsFeed`: `Spec => FeedSpec`. Every step is one of `RoomFeed` or a
  stutter: a `Write` delivers what its reader is missing and nothing else,
  by `RangeInv`, and a goroutine begins to speak only after it has joined.

### MultiProcess

- `TypeCorrect`: `Spec => []TypeOK`, with `HoldsConn`: the parent forks with a
  connection.
- `ZombieIsSignalledCorrect`: inductive over types: a child's exit raises the
  signal, only the handler takes it down, and the handler leaves no zombie.
- `LineIsSomewhereCorrect`: a line that is waited for is on its way to a
  process or queue that holds the connection, in the child's hands or answered,
  and in one of these only; if it is in none, the child has ended that had to
  answer it, or the parent has and nobody holds the connection. `LineInv` adds
  that nothing is left of the line before; `PlaceInv` and `Once`, that a
  connection in the queue or with the parent has no child yet, so that no
  second child is started for it, and that whoever is connected and has no
  child is with the parent or in the queue, unless the parent has ended.
- `ImplementsEcho`: `Spec => Service!Spec`, from the same invariant. Signals,
  failed calls and the parent's exit map to stutters: a line that is lost stays
  owed until its client is told of the end, and leaves.

### The servers on EchoNet

`NetInv` of `EchoNetProofs` is part of each of the three invariants: a
connection is in the queue once or has one descriptor, never both. It is why a
descriptor tells which client is meant. The lemmas show it kept by accept,
close, read and every client step, once for all three servers.

- `SelectServerProofs`: `SelectTypes`, `SelectTablesAgree`,
  `SelectEventsFresh`, `SelectCountExact`. They depend on each other: the scan
  misses no one, because by the tables no used slot is above `maxi`, and
  `nready` is exact because each pending slot is a descriptor of its own.
  `ListenFirst` says that while `main` is about the listening socket nobody has
  been served, so that the accept, which may fill a slot, uses a descriptor
  that was not reported ready. `Fresh` extends `NoStaleEvent` from the scan to
  that moment.
- `SelectFindsSlot`: a free slot is always found, because `FD_SETSIZE` slots
  would need as many descriptors below it, and the first ones serve no client.
  It justifies that `SelectServer` has no step for the exit of line 83.
- `EpollServerProofs`: `EpollTablesAgree`, `EpollEventsFresh`. Here accept may
  come in the middle of a batch, whose order is any: a descriptor that is
  closed has had its event, and one that is reused had none left.
- `ThreadServerProofs`: `ThreadOwnsEntry`, `OpenDescriptorIsServed`. The
  invariant follows a connection from the queue to main (`MainHolds`) to one
  thread (`EntriesInv`), whose entry is below `i` and so never written again,
  and from there to one close, after which it owns no descriptor
  (`ServedOnce`).
- `SelectImplementsEcho`, `EpollImplementsEcho`, and `ImplementsEcho` of the
  thread server: each implements `EchoService`. For the loops every step is
  one of the service's given `NetInv` and the tables, for the threads the
  invariant adds `OneLine`: one line of a client is on its way at a time.
- `ServiceKeepsStep` in `EchoNetProofs`: what a promise of `EchoService` is
  worth to a client. While it waits there is its line or its answer on the way
  and not both; while it types there is neither. It is proved of the service
  alone, once, and `SelectKeepsStep` and `EpollKeepsStep` follow from the
  refinements without a look at either loop.
- `SelectNeverDeaf`, `EpollNeverDeaf`: the loop never sleeps while there is
  something for it to do. For every client that waits without an answer, and
  for every connection that its client has left, a descriptor is ready that
  select or epoll_wait watches (for select, one in `allset` and not above
  `maxfd`). The invariant `PlaceInv` has a connection in the queue or on a
  descriptor until its client has gone, and gone means an end to be read;
  the tables and `WaitsForOne` give the rest. It is what `WaitingIsAnswered`
  and `GoneIsClosed` need besides fairness.
- `NobodyIsForgotten` of the thread server: the line of a client that waits is
  with a thread about to read or answer it, or its connection waits for main,
  or no thread could be started for it. It adds `LineStays` and `EndsAlone`
  (a thread ends only when its client has gone) to `PlaceInv`.

### FileTransfer

`TransferTypes`, `StoredKeepsOrder` and `AgreementMeansCopied`. `InStep` and
`Ends` say what the two programs know of each other: before the "ok" nothing
of the content is sent, "complete" is said only after the client is done, and
a FIN comes from nobody else. `Written` is about all that the client has
written: its bytes rise, U+FFFD aside, and where no character is cut they are
the file's. It has `off` at a multiple of the chunk, since `ToUpper` depends on
where a piece begins: only there is a character known to be whole. `InOrder` is
about a name that arrives alone (`NameLen = 1`): what the server has read is
`Len(stored) + lost` bytes of what was written, what is on its way are the ones
after them (`Coming`), all of them unless the connection was reset, and
everything stored comes before them in the file. That is what makes what is
stored rise, holes and all, and be a beginning until a write fails.

`TransferNeverStuck`: the two programs never wait for each other. The server
waits for the name and then for the content, the client for "ok", and each
ends its stream on every path, so that one of the two can go on, whatever was
lost (`SomeoneMoves`). It is what `BothEnd` needs besides fairness.
`ServerWaits` and `ClientWaits` say, without ENABLED, that a program has no
step to take.

### LocalSocket, UdpEcho and GoEcho

`LocalHostProofs` extends `LocalSocket` and has the other two as instances;
each theorem is about one specification: `Udp!AnswerIsOwn` and
`Go!AnswersInStep` are the properties of the runs `udp` and `goecho`.

`LeftoverNeverBlocks`: with `PastIsPast`, servers that had come past their
bind when this one removed the name do not have it again. `FileUntilTaken`,
and from it `StatSucceeds`: the stat of domain-server.c:76 finds the file of
the client it has accepted, unless its number was used again. They rest on
a client being in at most one queue, once (`ServerInv`), and admitted only
after it was accepted. `LocalAnswersInStep`: a client's line is on its way, in
its server or answered, and in one of the three only (`LineOnce`), although
several servers run; `WriterIsOwn` has none but the server it connected to
answer it. What a server owed when it ended is never answered, and its client
is told of the end.

`UdpAnswerIsOwn`: `Udp!Spec => []AnswerIsOwn`. Datagrams carry the port they
came from and nothing else, so the invariant is about ports: a port has one
socket, and whoever has it knows (`PortsAgree`); who has sent nothing has left
nothing in any buffer (`NoTrace`), so that a first line meets no older one;
the server gets lines only, from ports it never has itself, and so never an
answer of its own (`OnlyLines`). `OneOnItsWay` is the property made inductive:
for a client on a port nobody else has had, there is one datagram, in the
server's buffer, in its hands or in the client's, and only while the client
waits. Losing it, a restart of the server and a full buffer only take it away.

`GoAnswersInStep`: `Go!Spec => []AnswersInStep`. `StreamOf` says where the line
of a client is: nothing is on its way between two lines (`Quiet`), and while
it waits there is one piece in one place (`OnePiece`), whole on its way to the
server, cut in the server's hands and on its way back; the server has a client
exactly when it is not in accept (`Turn`). It says so of the clients that have
sent no line longer than a reader (`long`): the invariant fails if a read may
leave a rest of a line behind, which is why the reader made anew for each line
matters, and why its 4096 bytes do. `GoImplementsEcho` follows from it where no
line is longer than a reader (`LinesFit`, its assumption). `OnlyEmptyLineStops`
is about the hazard that is left, for lines of any length: a client that has
not gone is served or in the queue, and while it waits bytes of its lines are
on their way, unless its line is empty (`HasTurn`, `LineMoves`; `LetsGo` has
the server drop nobody who is still there). So both ends wait for each other
after an empty line, and then only.

### Model-checked only

Liveness, which needs fairness and ENABLED, beyond the prover:
`DepartedIsReleased`, `LinesReachOthers`, `FinIsAnnounced`, `ZombiesAreReaped`,
`ClientIsToldOfEnd`, `ServedIsAnswered`, `WaitingIsAnswered`, `GoneIsClosed`,
`BothEnd`, `EndOrAnswer`, `ReceivedIsAnswered`, `TurnComes`.

Of most of them a theorem above has the safety half: that the step the property
waits for can be taken (`SelectNeverDeaf`, `EpollNeverDeaf`,
`NobodyIsForgotten`, `TransferNeverStuck`, `OnlyEmptyLineStops`,
`ZombieIsSignalledCorrect`, `LineIsSomewhereCorrect`).

## Not modelled

Multicast, byte order and HTTP have no state of their own that a property
could be about, and the sticky-packet pair shows that a stream has no message
boundaries, about which nothing else holds. The Go pair of the UDP echo sends
one datagram and ends; the C pair of the TCP echo serves one client that sends
five fixed lines, after which the server, which does not test the result of
read (server.c:56), turns in its loop for ever. The goroutine server gives each
client a goroutine that shares nothing with the others. The text of messages,
logging, address parsing and the failures of socket, bind and listen at
start-up are left out, where the code looks at them. Within `ChatRoom`,
documents longer than a buffer are; within the C servers, lines longer than a
buffer. `GoEcho` has no line that a Read finds in part but for a reader's limit:
the server listens on 127.0.0.1 only, where one Write arrives as a whole. A
signal that ends the parent of `MultiProcess` is not modelled (`ParentExits` has
the same effect, at fewer places), nor are texts in `FileTransfer` whose whole
characters change their length in upper case.

## Plan

Every server with state of its own has its module, every safety invariant its
theorem, and every server that answers lines implements `EchoService`, but for
the UDP echo, which may lose them, and the local socket, whose client goes on
to its next line without an answer when the server has ended. What is left is
`GoroutineServer`: the client's two goroutines, and its loop at the end of the
input (goroutine-client.go:20).
