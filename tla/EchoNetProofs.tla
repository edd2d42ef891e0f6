---------------------------- MODULE EchoNetProofs ----------------------------
(***************************************************************************)
(* Lemmas about EchoNet that the proofs of the three servers that stand on *)
(* it share: a connection is in one place, and the steps of a client and   *)
(* of accept, close and read keep it so.                                   *)
(***************************************************************************)
EXTENDS EchoNet, SequenceTheorems, TLAPS

\* A connection is in the queue once or has one descriptor, never both, and
\* neither before its client has connected.
Queued(c) == \E k \in 1 .. Len(queue) : queue[k] = c

QueuedOnce == \A j, k \in 1 .. Len(queue) : queue[j] = queue[k] => j = k

OneFd == \A f, g \in Fds : conn[f] = conn[g] /\ conn[f] # NoConn => f = g

NotBoth == \A f \in Fds : ~Queued(conn[f])

Connected == /\ \A c \in Conns : Queued(c) => cl[c] # "idle"
             /\ \A f \in Fds : conn[f] # NoConn => cl[conn[f]] # "idle"

NetInv == NetTypeOK /\ QueuedOnce /\ OneFd /\ NotBoth /\ Connected

\* The environment begins with no connection in any place.
LEMMA NetInitInv == NetInit => NetInv
<1> SUFFICES ASSUME NetInit
             PROVE  NetInv
  OBVIOUS
<1>1. up \in [Conns -> BOOLEAN] /\ down \in [Conns -> BOOLEAN]
  BY Zenon DEF NetInit
<1>2. /\ queue \in Seq(Conns) /\ lines \in [Conns -> Nat]
      /\ cl \in [Conns -> {"idle", "ready", "waiting", "gone"}]
      /\ end \in [Conns -> Ends]
      /\ conn \in [Fds -> Conns \cup {NoConn}]
  BY DEF NetInit, Ends
<1>3. \A c : ~Queued(c)
  BY DEF NetInit, Queued
<1>4. QueuedOnce
  BY DEF NetInit, QueuedOnce
<1>5. OneFd /\ NotBoth /\ Connected
  BY <1>3 DEF NetInit, OneFd, NotBoth, Connected
<1> QED
  BY <1>1, <1>2, <1>4, <1>5 DEF NetInv, NetTypeOK

\* What is left of the queue when its head is taken, and what is added.
LEMMA QueueTail ==
    ASSUME NetTypeOK, QueuedOnce, queue # <<>>, queue' = Tail(queue)
    PROVE  /\ Head(queue) \in Conns
           /\ queue' \in Seq(Conns)
           /\ QueuedOnce'
           /\ \A c : Queued(c)' => Queued(c) /\ c # Head(queue)
           /\ \A c : Queued(c) => Queued(c)' \/ c = Head(queue)
           /\ Queued(Head(queue))
<1>1. /\ Head(queue) \in Conns /\ Tail(queue) \in Seq(Conns)
      /\ Len(queue) \in Nat \ {0}
      /\ Len(Tail(queue)) = Len(queue) - 1
      /\ \A k \in 1 .. Len(Tail(queue)) : Tail(queue)[k] = queue[k + 1]
  BY HeadTailProperties, EmptySeq DEF NetTypeOK
<1>2. Head(queue) = queue[1]
  BY DEF NetTypeOK
<1>3. QueuedOnce'
  BY <1>1 DEF QueuedOnce
<1>4. ASSUME NEW c, Queued(c)'
      PROVE  Queued(c) /\ c # Head(queue)
  <2>1. PICK k \in 1 .. Len(queue) - 1 : queue[k + 1] = c
    BY <1>1, <1>4 DEF Queued
  <2>2. k + 1 \in 1 .. Len(queue) /\ 1 \in 1 .. Len(queue) /\ k + 1 # 1
    BY <1>1
  <2> QED
    BY <2>1, <2>2, <1>2 DEF Queued, QueuedOnce
<1>5. ASSUME NEW c, Queued(c)
      PROVE  Queued(c)' \/ c = Head(queue)
  <2>1. PICK k \in 1 .. Len(queue) : queue[k] = c
    BY <1>5 DEF Queued
  <2>2. CASE k = 1
    BY <2>1, <2>2, <1>2
  <2>3. CASE k # 1
    <3>1. k - 1 \in 1 .. Len(Tail(queue)) /\ Tail(queue)[k - 1] = c
      BY <1>1, <2>1, <2>3
    <3> QED
      BY <3>1 DEF Queued
  <2> QED
    BY <2>2, <2>3
<1>6. Queued(Head(queue))
  BY <1>1, <1>2 DEF Queued
<1> QED
  BY <1>1, <1>3, <1>4, <1>5, <1>6

LEMMA QueueAppend ==
    ASSUME NetTypeOK, QueuedOnce, NEW c \in Conns, ~Queued(c),
           queue' = Append(queue, c)
    PROVE  /\ queue' \in Seq(Conns)
           /\ QueuedOnce'
           /\ \A d : Queued(d)' => Queued(d) \/ d = c
           /\ \A d : Queued(d) => Queued(d)'
<1>1. /\ queue' \in Seq(Conns) /\ Len(queue) \in Nat
      /\ Len(queue') = Len(queue) + 1
      /\ \A k \in 1 .. Len(queue) : queue'[k] = queue[k]
      /\ queue'[Len(queue) + 1] = c
  BY DEF NetTypeOK
<1>2. \A k \in 1 .. Len(queue') : k \in 1 .. Len(queue) \/ k = Len(queue) + 1
  BY <1>1
<1>3. QueuedOnce'
  BY <1>1, <1>2 DEF QueuedOnce, Queued
<1>4. \A d : Queued(d)' => Queued(d) \/ d = c
  BY <1>1, <1>2 DEF Queued
<1>5. \A d : Queued(d) => Queued(d)'
  BY <1>1 DEF Queued
<1> QED
  BY <1>1, <1>3, <1>4, <1>5

\* accept moves the head of the queue to a free descriptor.
LEMMA TakeConnInv ==
    ASSUME NetInv, NEW f \in Fds, TakeConn(f)
    PROVE  /\ NetInv'
           /\ Head(queue) \in Conns
           /\ conn' = [conn EXCEPT ![f] = Head(queue)]
           /\ conn[f] = NoConn
           /\ \A g \in Fds : conn[g] # Head(queue)
           /\ Queued(Head(queue))
           /\ \A c : Queued(c)' => Queued(c) /\ c # Head(queue)
<1>1. /\ queue # <<>> /\ queue' = Tail(queue)
      /\ conn' = [conn EXCEPT ![f] = Head(queue)] /\ conn[f] = NoConn
      /\ UNCHANGED <<cl, lines, up, down, end>>
  BY DEF TakeConn, Free
<1>2. /\ Head(queue) \in Conns /\ queue' \in Seq(Conns) /\ QueuedOnce'
      /\ \A c : Queued(c)' => Queued(c) /\ c # Head(queue)
      /\ Queued(Head(queue))
  BY <1>1, QueueTail DEF NetInv
<1>3. \A g \in Fds : conn[g] # Head(queue)
  BY <1>2 DEF NetInv, NotBoth
<1>4. NetTypeOK'
  BY <1>1, <1>2 DEF NetInv, NetTypeOK
<1>5. \A g \in Fds : conn'[g] = IF g = f THEN Head(queue) ELSE conn[g]
  BY <1>1 DEF NetInv, NetTypeOK
<1>6. OneFd'
  BY <1>3, <1>5 DEF NetInv, OneFd
<1>7. NotBoth'
  BY <1>2, <1>5 DEF NetInv, NotBoth
<1>8. Connected'
  BY <1>1, <1>2, <1>5 DEF NetInv, Connected
<1> QED
  BY <1>1, <1>2, <1>3, <1>4, <1>6, <1>7, <1>8 DEF NetInv

\* Close of a descriptor.
LEMMA CloseInv ==
    ASSUME NetInv, NEW f \in Fds, conn' = [conn EXCEPT ![f] = NoConn],
           UNCHANGED <<queue, cl, lines, up, down, end>>
    PROVE  NetInv'
<1>1. NoConn \notin Conns
  BY NetAssumption
<1>2. NetTypeOK'
  BY DEF NetInv, NetTypeOK
<1>3. \A g \in Fds : conn'[g] = IF g = f THEN NoConn ELSE conn[g]
  BY DEF NetInv, NetTypeOK
<1>4. \A c : Queued(c)' <=> Queued(c)
  BY DEF Queued
<1>5. ~Queued(NoConn)
  BY <1>1, LenProperties, ElementOfSeq DEF NetInv, NetTypeOK, Queued
<1>6. OneFd' /\ NotBoth' /\ QueuedOnce'
  BY <1>3, <1>4, <1>5 DEF NetInv, OneFd, NotBoth, QueuedOnce
<1>7. Connected'
  BY <1>3, <1>4 DEF NetInv, Connected
<1> QED
  BY <1>2, <1>6, <1>7 DEF NetInv

LEMMA NetUnchanged ==
    ASSUME NetInv, UNCHANGED net
    PROVE  NetInv' /\ \A c : Queued(c)' <=> Queued(c)
  BY DEF net, NetInv, NetTypeOK, QueuedOnce, OneFd, NotBoth, Connected, Queued

\* A step that moves only lines, answers and ends.
LEMMA TrafficInv ==
    ASSUME NetInv, UNCHANGED <<queue, conn, cl, lines>>,
           up' \in [Conns -> BOOLEAN], down' \in [Conns -> BOOLEAN],
           end' \in [Conns -> Ends]
    PROVE  NetInv'
<1>1. NetTypeOK'
  BY DEF NetInv, NetTypeOK
<1> QED
  BY <1>1 DEF NetInv, QueuedOnce, OneFd, NotBoth, Connected, Queued

LEMMA ClientStepType ==
    ASSUME NetTypeOK, NEW c \in Conns, ClientStep(c), queue' \in Seq(Conns)
    PROVE  NetTypeOK'
<1>1. up' \in [Conns -> BOOLEAN] /\ down' \in [Conns -> BOOLEAN]
  BY Zenon DEF NetTypeOK, ClientStep, Connect, Send, Receive, Leave
<1>2. conn' \in [Fds -> Conns \cup {NoConn}]
  BY DEF NetTypeOK, ClientStep, Connect, Send, Receive, Leave
<1>3. PICK s \in {"ready", "waiting", "gone"} : cl' = [cl EXCEPT ![c] = s]
  BY DEF ClientStep, Connect, Send, Receive, Leave
<1>4. cl' \in [Conns -> {"idle", "ready", "waiting", "gone"}]
  BY <1>3 DEF NetTypeOK
<1>5. lines' = lines \/ lines' = [lines EXCEPT ![c] = lines[c] + 1]
  BY DEF ClientStep, Connect, Send, Receive, Leave
<1>6. lines' \in [Conns -> Nat]
  <2>1. lines \in [Conns -> Nat] /\ lines[c] + 1 \in Nat
    BY DEF NetTypeOK
  <2> QED
    BY <1>5, <2>1
<1>7. end' \in [Conns -> Ends]
  <2>1. CASE Leave(c)
    <3>1. PICK e \in Ends : end' = [end EXCEPT ![c] = e]
      BY <2>1 DEF Leave, Ends
    <3> QED
      BY <3>1 DEF NetTypeOK
  <2>2. CASE ~Leave(c)
    BY <2>2 DEF NetTypeOK, ClientStep, Connect, Send, Receive
  <2> QED
    BY <2>1, <2>2
<1> QED
  BY <1>1, <1>2, <1>4, <1>6, <1>7 DEF NetTypeOK

\* A client's step moves no descriptor, and queues at most its own connection.
LEMMA ClientStepInv ==
    ASSUME NetInv, NEW c \in Conns, ClientStep(c)
    PROVE  /\ NetInv'
           /\ conn' = conn
           /\ \A d : Queued(d)' => Queued(d) \/ (d = c /\ cl[c] = "idle")
           /\ \A d \in Conns : cl[d] # "idle" => cl'[d] # "idle"
<1>1. \A d \in Conns : cl[d] # "idle" => cl'[d] # "idle"
  BY DEF NetInv, NetTypeOK, ClientStep, Connect, Send, Receive, Leave
<1>2. CASE Connect(c)
  <2>1. ~Queued(c) /\ \A f \in Fds : conn[f] # c
    BY <1>2, NetAssumption DEF Connect, NetInv, Connected
  <2>2. /\ queue' \in Seq(Conns) /\ QueuedOnce'
        /\ \A d : Queued(d)' => Queued(d) \/ d = c
    BY <1>2, <2>1, QueueAppend DEF Connect, NetInv
  <2>3. NetTypeOK'
    BY <2>2, ClientStepType DEF NetInv
  <2>4. conn' = conn /\ cl'[c] = "ready" /\ cl[c] = "idle"
    BY <1>2 DEF Connect, NetInv, NetTypeOK
  <2>5. OneFd' /\ NotBoth'
    BY <2>1, <2>2, <2>4 DEF NetInv, OneFd, NotBoth
  <2>6. Connected'
    BY <1>1, <2>2, <2>4 DEF NetInv, NetTypeOK, Connected
  <2> QED
    BY <1>1, <2>2, <2>3, <2>4, <2>5, <2>6 DEF NetInv
<1>3. CASE Send(c) \/ Receive(c) \/ Leave(c)
  <2>1. UNCHANGED <<queue, conn>>
    BY <1>3 DEF Send, Receive, Leave
  <2>2. NetTypeOK'
    BY <2>1, ClientStepType DEF NetInv, NetTypeOK
  <2>3. \A d : Queued(d)' <=> Queued(d)
    BY <2>1 DEF Queued
  <2>4. QueuedOnce' /\ OneFd' /\ NotBoth'
    BY <2>1, <2>3 DEF NetInv, QueuedOnce, OneFd, NotBoth
  <2>5. Connected'
    BY <1>1, <2>1, <2>3 DEF NetInv, NetTypeOK, Connected
  <2> QED
    BY <1>1, <2>1, <2>2, <2>3, <2>4, <2>5 DEF NetInv
<1> QED
  BY <1>1, <1>2, <1>3 DEF ClientStep

-----------------------------------------------------------------------------
(* What a step does to what a read would find: select and epoll_wait have  *)
(* reported it, and the handlers rely on it later.                         *)

LEMMA ListenApart == ListenFd \notin Fds /\ ListenFd \in Nat
  BY NetAssumption DEF ListenFd, Fds

\* No client's step takes away what was there to read.
LEMMA ClientStepReadable ==
    ASSUME NetInv, NEW c \in Conns, ClientStep(c),
           NEW f \in Fds \cup {ListenFd}, Readable(f)
    PROVE  Readable(f)'
<1>1. conn' = conn
  BY ClientStepInv
<1>2. CASE f = ListenFd
  <2>1. queue' = queue \/ queue' = Append(queue, c)
    BY DEF ClientStep, Connect, Send, Receive, Leave
  <2>2. queue \in Seq(Conns) /\ queue # <<>>
    BY <1>2 DEF NetInv, NetTypeOK, Readable
  <2>3. queue' # <<>>
    BY <2>1, <2>2
  <2> QED
    BY <2>3, <1>2 DEF Readable, ListenFd
<1>3. CASE f # ListenFd
  <2> DEFINE d == conn[f]
  <2>1. d \in Conns /\ d # NoConn /\ (up[d] \/ end[d] # "open")
    BY <1>3 DEF Readable, NetInv, NetTypeOK
  <2>2. up[d] => up'[d]
    BY <2>1 DEF ClientStep, Connect, Send, Receive, Leave, NetInv, NetTypeOK
  <2>3. end[d] # "open" => end'[d] # "open"
    <3>1. end' = end \/ \E e \in {"fin", "rst"} : end' = [end EXCEPT ![c] = e]
      BY DEF ClientStep, Connect, Send, Receive, Leave
    <3> QED
      BY <2>1, <3>1 DEF NetInv, NetTypeOK
  <2> QED
    BY <1>1, <1>3, <2>1, <2>2, <2>3 DEF Readable, ListenFd
<1> QED
  BY <1>2, <1>3

\* accept leaves what the other descriptors have to read.
LEMMA TakeConnReadable ==
    ASSUME NetInv, NEW f \in Fds, TakeConn(f), NEW g \in Fds, Readable(g)
    PROVE  /\ g # f /\ conn'[g] = conn[g]
           /\ Readable(g)'
<1>1. g # ListenFd /\ conn[g] # NoConn
  BY ListenApart DEF Readable
<1>2. /\ conn[f] = NoConn /\ conn' = [conn EXCEPT ![f] = Head(queue)]
      /\ UNCHANGED <<up, end>>
  BY DEF TakeConn, Free
<1>3. g # f /\ conn'[g] = conn[g]
  BY <1>1, <1>2 DEF NetInv, NetTypeOK
<1> QED
  BY <1>1, <1>2, <1>3 DEF Readable, ListenFd

\* Serving a descriptor leaves what the others have to read.
LEMMA ServeInv ==
    ASSUME NetInv, NEW f \in Fds, conn[f] # NoConn,
           Answer(f) \/ ReadError(f) \/ ReadEof(f)
    PROVE  /\ NetInv'
           /\ queue' = queue
           /\ conn' = IF ReadEof(f) THEN [conn EXCEPT ![f] = NoConn] ELSE conn
           /\ \A g \in Fds \cup {ListenFd} : g # f /\ Readable(g) => Readable(g)'
<1> DEFINE c == conn[f]
<1>1. c \in Conns /\ \A g \in Fds : g # f => conn[g] # c
  BY DEF NetInv, NetTypeOK, OneFd
<1>2. CASE Answer(f)
  <2>1. /\ up' = [up EXCEPT ![c] = FALSE]
        /\ down' = [down EXCEPT ![c] = (cl[c] # "gone")]
        /\ UNCHANGED <<queue, conn, cl, lines, end>>
        /\ up[c]
    BY <1>2 DEF Answer
  <2>2. up' \in [Conns -> BOOLEAN]
    BY <2>1, Zenon DEF NetInv, NetTypeOK
  <2>3. down' \in [Conns -> BOOLEAN]
    <3>1. (cl[c] # "gone") \in BOOLEAN
      OBVIOUS
    <3> QED
      BY <2>1, <3>1, Zenon DEF NetInv, NetTypeOK
  <2>4. NetInv'
    BY <2>1, <2>2, <2>3, TrafficInv DEF NetInv, NetTypeOK
  <2>5. ~ReadEof(f)
    BY <2>1 DEF ReadEof
  <2>6. \A d \in Conns \ {c} : up'[d] = up[d]
    BY <2>1 DEF NetInv, NetTypeOK
  <2>7. ASSUME NEW g \in Fds \cup {ListenFd}, g # f, Readable(g)
        PROVE  Readable(g)'
    BY <1>1, <2>1, <2>6, <2>7 DEF Readable, ListenFd, NetInv, NetTypeOK
  <2> QED
    BY <2>1, <2>4, <2>5, <2>7
<1>3. CASE ReadError(f)
  <2>1. /\ end' = [end EXCEPT ![c] = "fin"] /\ end[c] = "rst"
        /\ UNCHANGED <<queue, conn, cl, lines, up, down>>
    BY <1>3 DEF ReadError
  <2>2. end' \in [Conns -> Ends]
    BY <2>1 DEF NetInv, NetTypeOK, Ends
  <2>3. NetInv'
    BY <2>1, <2>2, TrafficInv DEF NetInv, NetTypeOK
  <2>4. ~ReadEof(f)
    BY <2>1 DEF ReadEof
  <2>5. ASSUME NEW g \in Fds \cup {ListenFd}, g # f, Readable(g)
        PROVE  Readable(g)'
    BY <1>1, <2>1, <2>5 DEF Readable, ListenFd, NetInv, NetTypeOK
  <2> QED
    BY <2>1, <2>3, <2>4, <2>5
<1>4. CASE ReadEof(f)
  <2>1. /\ conn' = [conn EXCEPT ![f] = NoConn]
        /\ UNCHANGED <<queue, cl, lines, up, down, end>>
    BY <1>4 DEF ReadEof
  <2>2. NetInv'
    BY <2>1, CloseInv
  <2>3. ASSUME NEW g \in Fds \cup {ListenFd}, g # f, Readable(g)
        PROVE  Readable(g)'
    BY <1>1, <2>1, <2>3 DEF Readable, ListenFd, NetInv, NetTypeOK
  <2> QED
    BY <1>4, <2>1, <2>2, <2>3
<1> QED
  BY <1>2, <1>3, <1>4

-----------------------------------------------------------------------------
(* A server that reads a line and answers it in one step, as select-server *)
(* and epoll-server do, owes the lines that are on their way to it: what   *)
(* its steps and those of the clients are in EchoService.                  *)
Prompt == INSTANCE EchoService WITH state <- cl, owed <- up, answer <- down

LEMMA NetInitServes == NetInit => Prompt!Init
  BY DEF NetInit, Prompt!Init

LEMMA ClientServes ==
    ASSUME NEW c \in Conns, ClientStep(c)
    PROVE  Prompt!Next
<1>1. Connect(c) => Prompt!Connect(c)
  BY DEF Connect, Prompt!Connect
<1>2. Send(c) => Prompt!Ask(c)
  BY DEF Send, Prompt!Ask
<1>3. Receive(c) => Prompt!Take(c)
  BY DEF Receive, Prompt!Take
<1>4. Leave(c) => Prompt!Leave(c)
  BY DEF Leave, Prompt!Leave
<1> QED
  BY <1>1, <1>2, <1>3, <1>4 DEF ClientStep, Prompt!Next

\* An answer is that of a line of the connection the descriptor stands for.
LEMMA ServerServes ==
    ASSUME NetInv, NEW f \in Fds, conn[f] # NoConn,
           Answer(f) \/ ReadError(f) \/ ReadEof(f)
    PROVE  Prompt!Next \/ UNCHANGED <<cl, up, down>>
<1>1. PICK c \in Conns : c = conn[f]
  BY DEF NetInv, NetTypeOK
<1>2. Answer(f) => Prompt!Reply(c)
  BY <1>1 DEF Answer, Prompt!Reply
<1>3. ReadError(f) \/ ReadEof(f) => UNCHANGED <<cl, up, down>>
  BY DEF ReadError, ReadEof
<1> QED
  BY <1>2, <1>3 DEF Prompt!Next

\* What EchoService comes to for a client: while it waits there is either its
\* line or the answer to it, and when it does not there is nothing on the way
\* that it could take for the answer to its next line.
WaitsForOne ==
    \A c \in Conns : /\ cl[c] = "waiting" => up[c] # down[c]
                     /\ cl[c] \in {"idle", "ready"} => ~up[c] /\ ~down[c]
                     /\ cl[c] = "gone" => ~down[c]

\* Every system that implements EchoService keeps lines and answers in step.
THEOREM ServiceKeepsStep == Prompt!Spec => []WaitsForOne
<1> DEFINE Typed == /\ cl \in [Conns -> {"idle", "ready", "waiting", "gone"}]
                    /\ up \in [Conns -> BOOLEAN] /\ down \in [Conns -> BOOLEAN]
<1>1. Prompt!Init => Typed /\ WaitsForOne
  BY DEF Prompt!Init, WaitsForOne
<1>2. Typed /\ WaitsForOne /\ [Prompt!Next]_(Prompt!abstract) => (Typed /\ WaitsForOne)'
  <2> SUFFICES ASSUME Typed, WaitsForOne, [Prompt!Next]_(Prompt!abstract)
               PROVE  (Typed /\ WaitsForOne)'
    OBVIOUS
  <2>1. CASE UNCHANGED <<cl, up, down>>
    BY <2>1 DEF WaitsForOne
  <2>2. ASSUME NEW c \in Conns, Prompt!Connect(c)
        PROVE  (Typed /\ WaitsForOne)'
    BY <2>2 DEF Prompt!Connect, WaitsForOne
  <2>3. ASSUME NEW c \in Conns, Prompt!Ask(c)
        PROVE  (Typed /\ WaitsForOne)'
    BY <2>3 DEF Prompt!Ask, WaitsForOne
  <2>4. ASSUME NEW c \in Conns, Prompt!Reply(c)
        PROVE  (Typed /\ WaitsForOne)'
    BY <2>4 DEF Prompt!Reply, WaitsForOne
  <2>5. ASSUME NEW c \in Conns, Prompt!Take(c)
        PROVE  (Typed /\ WaitsForOne)'
    BY <2>5 DEF Prompt!Take, WaitsForOne
  <2>6. ASSUME NEW c \in Conns, Prompt!Leave(c)
        PROVE  (Typed /\ WaitsForOne)'
    BY <2>6 DEF Prompt!Leave, WaitsForOne
  <2> QED
    BY <2>1, <2>2, <2>3, <2>4, <2>5, <2>6 DEF Prompt!Next, Prompt!abstract
<1> HIDE DEF Typed
<1> QED
  BY <1>1, <1>2, PTL DEF Prompt!Spec

-----------------------------------------------------------------------------
(* No connection is lost: one whose client has not gone is in the queue or *)
(* has a descriptor, and a connection has ended when its client has gone.  *)
Placed(c) == Queued(c) \/ \E f \in Fds : conn[f] = c

PlaceInv ==
    \A c \in Conns : /\ end[c] # "open" <=> cl[c] = "gone"
                     /\ cl[c] \in {"ready", "waiting"} => Placed(c)

\* There is something to be done for c: it waits for an answer that has not
\* been sent, or has gone and its connection is not closed.
Calls(c) == \/ cl[c] = "waiting" /\ ~down[c]
            \/ cl[c] = "gone" /\ Placed(c)

\* One of the descriptors fds is ready because of c.
HeardOn(fds, c) ==
    \E f \in fds : Readable(f) /\ IF f = ListenFd THEN Queued(c) ELSE conn[f] = c

LEMMA PlaceInit == NetInit => PlaceInv
  BY DEF NetInit, PlaceInv

LEMMA PlaceUnchanged ==
    ASSUME NetInv, PlaceInv, UNCHANGED net
    PROVE  PlaceInv'
  BY NetUnchanged DEF net, PlaceInv, Placed

LEMMA TakeConnPlaces ==
    ASSUME NetInv, PlaceInv, NEW f \in Fds, TakeConn(f)
    PROVE  PlaceInv'
<1>1. queue # <<>> /\ queue' = Tail(queue) /\ UNCHANGED <<cl, end>>
  BY DEF TakeConn
<1>2. conn' = [conn EXCEPT ![f] = Head(queue)] /\ conn[f] = NoConn
  BY TakeConnInv
<1>3. \A c : Queued(c) => Queued(c)' \/ c = Head(queue)
  BY <1>1, QueueTail DEF NetInv
<1>4. ASSUME NEW c \in Conns, Placed(c)  PROVE Placed(c)'
  <2>1. CASE Queued(c)
    BY <1>2, <1>3, <2>1 DEF Placed, NetInv, NetTypeOK
  <2>2. CASE \E g \in Fds : conn[g] = c
    <3>1. PICK g \in Fds : conn[g] = c
      BY <2>2
    <3>2. g # f
      BY <1>2, <3>1, NetAssumption
    <3> QED
      BY <1>2, <3>1, <3>2 DEF Placed, NetInv, NetTypeOK
  <2> QED
    BY <1>4, <2>1, <2>2 DEF Placed
<1> QED
  BY <1>1, <1>4 DEF PlaceInv

\* A descriptor is closed only when its client has gone.
LEMMA ServePlaces ==
    ASSUME NetInv, PlaceInv, NEW f \in Fds, conn[f] # NoConn,
           Answer(f) \/ ReadError(f) \/ ReadEof(f)
    PROVE  PlaceInv'
<1>1. PICK c \in Conns : c = conn[f]
  BY DEF NetInv, NetTypeOK
<1>2. \A d : Queued(d)' <=> Queued(d)
  BY ServeInv DEF Queued
<1>3. CASE Answer(f)
  BY <1>2, <1>3 DEF Answer, PlaceInv, Placed
<1>4. CASE ReadError(f)
  <2>1. end' = [end EXCEPT ![c] = "fin"] /\ end[c] = "rst" /\ UNCHANGED <<conn, cl>>
    BY <1>1, <1>4 DEF ReadError
  <2> QED
    BY <1>2, <2>1 DEF PlaceInv, Placed, NetInv, NetTypeOK
<1>5. CASE ReadEof(f)
  <2>1. /\ conn' = [conn EXCEPT ![f] = NoConn] /\ end[c] = "fin"
        /\ UNCHANGED <<cl, end>>
    BY <1>1, <1>5 DEF ReadEof
  <2>2. cl[c] = "gone"
    BY <2>1 DEF PlaceInv
  <2>3. \A d \in Conns \ {c} : Placed(d) => Placed(d)'
    BY <1>1, <1>2, <2>1 DEF Placed, NetInv, NetTypeOK
  <2> QED
    BY <2>1, <2>2, <2>3 DEF PlaceInv
<1> QED
  BY <1>3, <1>4, <1>5

LEMMA ClientPlaces ==
    ASSUME NetInv, PlaceInv, NEW c \in Conns, ClientStep(c)
    PROVE  PlaceInv'
<1>1. conn' = conn
  BY ClientStepInv
<1>2. CASE Connect(c)
  <2>1. queue' = Append(queue, c) /\ cl' = [cl EXCEPT ![c] = "ready"] /\ end' = end
        /\ cl[c] = "idle"
    BY <1>2 DEF Connect
  <2>2. \A d \in Conns : Queued(d) => Queued(d)'
    BY <2>1, AppendProperties DEF Queued, NetInv, NetTypeOK
  <2>3. Queued(c)'
    BY <2>1, AppendProperties, LenProperties DEF Queued, NetInv, NetTypeOK
  <2> QED
    BY <1>1, <2>1, <2>2, <2>3 DEF PlaceInv, Placed, NetInv, NetTypeOK
<1>3. CASE ~Connect(c)
  <2>1. queue' = queue /\ \A d \in Conns \ {c} : cl'[d] = cl[d] /\ end'[d] = end[d]
    BY <1>3 DEF ClientStep, Send, Receive, Leave, NetInv, NetTypeOK
  <2>2. \A d : Placed(d)' <=> Placed(d)
    BY <1>1, <2>1 DEF Placed, Queued
  <2>3. /\ cl[c] \in {"ready", "waiting"}
        /\ end'[c] # "open" <=> cl'[c] = "gone"
    BY <1>3 DEF ClientStep, Send, Receive, Leave, PlaceInv, NetInv, NetTypeOK
  <2> QED
    BY <2>1, <2>2, <2>3 DEF PlaceInv
<1> QED
  BY <1>2, <1>3

\* Whoever calls is heard by a server that watches every connection.
LEMMA CallIsHeard ==
    ASSUME NetInv, PlaceInv, WaitsForOne, NEW c \in Conns, Calls(c)
    PROVE  HeardOn({ListenFd} \cup {f \in Fds : conn[f] # NoConn}, c)
<1>1. Placed(c) /\ (up[c] \/ end[c] # "open")
  <2>1. CASE cl[c] = "waiting" /\ ~down[c]
    <3>1. up[c] # down[c] /\ Placed(c)
      BY <2>1 DEF PlaceInv, WaitsForOne
    <3>2. up[c] \in BOOLEAN /\ down[c] \in BOOLEAN
      BY DEF NetInv, NetTypeOK
    <3>3. up[c]
      BY <2>1, <3>1, <3>2, Zenon
    <3> QED
      BY <3>1, <3>3
  <2>2. CASE cl[c] = "gone" /\ Placed(c)
    BY <2>2 DEF PlaceInv
  <2> QED
    BY <2>1, <2>2 DEF Calls
<1>2. CASE Queued(c)
  <2>1. queue # <<>>
    BY <1>2, EmptySeq, LenProperties DEF Queued
  <2> QED
    BY <1>2, <2>1 DEF HeardOn, Readable
<1>3. CASE \E f \in Fds : conn[f] = c
  <2>1. PICK f \in Fds : conn[f] = c
    BY <1>3
  <2>2. c # NoConn /\ f # ListenFd
    BY NetAssumption, ListenApart
  <2> QED
    BY <1>1, <2>1, <2>2 DEF HeardOn, Readable
<1> QED
  BY <1>1, <1>2, <1>3 DEF Placed
=============================================================================
