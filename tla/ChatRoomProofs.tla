--------------------------- MODULE ChatRoomProofs ---------------------------
(***************************************************************************)
(* Theorems about ChatRoom, for any number of clients, any assignment of   *)
(* ports and any bounds.                                                   *)
(***************************************************************************)
EXTENDS ChatRoom, TLAPS

\* A goroutine that broadcasts has a document, and one of a connection only
\* tells what its own client says or that it leaves.
FrameOK ==
    /\ pc[Main] \in {"insert", "range", "write"} => frame[Main] \in Frames
    /\ \A c \in Conns : pc[c] \in {"range", "write"} =>
          /\ frame[c] \in Frames
          /\ frame[c].who = c
          /\ frame[c].kind # "join"
    /\ \A p \in Procs : pc[p] = "write" => cur[p] \in Conns

\* main only accepts, inserts and broadcasts; the others never do the first
\* two.
RoleOK ==
    /\ pc[Main] \in {"accept", "insert", "range", "write"}
    /\ \A c \in Conns : pc[c] \notin {"accept", "insert"}

TypeInv == TypeOK /\ FrameOK /\ RoleOK

-----------------------------------------------------------------------------
LEMMA InitType == Init => TypeInv
  BY ConnsAssumption DEF Init, TypeInv, TypeOK, FrameOK, RoleOK, Procs, Frames, Blank

LEMMA SubSeqType ==
    ASSUME NEW S, NEW s \in Seq(S), NEW m \in Nat \ {0}, NEW n \in Nat, n <= Len(s)
    PROVE  SubSeq(s, m, n) \in Seq(S)
  OBVIOUS

LEMMA ProcsFacts ==
    /\ Main \in Procs
    /\ \A c \in Conns : c \in Procs /\ c # Main /\ PortOf[c] \in Ports /\ c # NoConn
    /\ \A p \in Procs : p = Main \/ p \in Conns
  BY ConnsAssumption DEF Procs

LEMMA NoteType ==
    ASSUME NEW c \in Conns, NEW k \in {"join", "say", "leave"}
    PROVE  Note(k, c) \in Frames /\ Note(k, c).who = c /\ Note(k, c).kind = k
  BY DEF Note, Frames

LEMMA ChunkType ==
    ASSUME NEW c \in Conns, NEW lo \in Nat, NEW hi \in Nat
    PROVE  /\ Chunk(c, lo, hi) \in Frames
           /\ Chunk(c, lo, hi).who = c
           /\ Chunk(c, lo, hi).kind = "say"
  BY DEF Chunk, Frames

LEMMA RangeType ==
    ASSUME TypeInv, NEW p \in Procs, NEW k \in Ports, Range(p, k)
    PROVE  TypeInv'
<1>1. TypeOK'
  BY ProcsFacts DEF Range, Producible, Keys, client, TypeInv, TypeOK, FrameOK, RoleOK
<1>2. FrameOK'
  BY ProcsFacts DEF Range, Producible, Keys, client, TypeInv, TypeOK, FrameOK, RoleOK
<1>3. RoleOK'
  BY ProcsFacts DEF Range, Producible, Keys, client, TypeInv, TypeOK, FrameOK, RoleOK
<1> QED
  BY <1>1, <1>2, <1>3 DEF TypeInv

LEMMA WriteType ==
    ASSUME TypeInv, NEW p \in Procs, Write(p)
    PROVE  TypeInv'
<1>1. cur[p] \in Conns /\ frame[p] \in Frames
  BY ProcsFacts DEF Write, TypeInv, FrameOK, RoleOK
<1>2. frame[p].who \in Conns
  BY <1>1 DEF Frames
<1>3. down' \in [Conns -> Seq(Frames)]
  <2>1. down[cur[p]] \in Seq(Frames)
    BY <1>1 DEF TypeInv, TypeOK
  <2>2. Append(down[cur[p]], frame[p]) \in Seq(Frames)
    BY <1>1, <2>1
  <2>3. CASE LinkUp(cur[p])
    BY <1>1, <2>2, <2>3 DEF Write, TypeInv, TypeOK
  <2>4. CASE ~LinkUp(cur[p])
    BY <2>4 DEF Write, TypeInv, TypeOK
  <2> QED
    BY <2>3, <2>4
<1>4. heard' \in [Conns -> [Conns -> Seq(Frames)]]
  <2>1. CASE LinkUp(cur[p])
    <3> DEFINE d == cur[p]
               c == frame[p].who
    <3>1. heard[d] \in [Conns -> Seq(Frames)] /\ heard[d][c] \in Seq(Frames)
      BY <1>1, <1>2 DEF TypeInv, TypeOK
    <3>2. Append(heard[d][c], frame[p]) \in Seq(Frames)
      BY <3>1, <1>1
    <3>3. heard' = [heard EXCEPT ![d][c] = Append(@, frame[p])]
      BY <2>1 DEF Write
    <3> QED
      BY <3>1, <3>2, <3>3, <1>1, <1>2 DEF TypeInv, TypeOK
  <2>2. CASE ~LinkUp(cur[p])
    BY <2>2 DEF Write, TypeInv, TypeOK
  <2> QED
    BY <2>1, <2>2
<1>5. TypeOK'
  BY ProcsFacts, <1>3, <1>4 DEF Write, client, TypeInv, TypeOK
<1>6. FrameOK'
  BY ProcsFacts DEF Write, client, TypeInv, TypeOK, FrameOK, RoleOK
<1>7. RoleOK'
  BY ProcsFacts DEF Write, client, TypeInv, TypeOK, FrameOK, RoleOK
<1> QED
  BY <1>5, <1>6, <1>7 DEF TypeInv

LEMMA EndRangeType ==
    ASSUME TypeInv, NEW p \in Procs, EndRange(p)
    PROVE  TypeInv'
<1>1. TypeOK'
  BY ProcsFacts DEF EndRange, client, TypeInv, TypeOK, FrameOK, RoleOK
<1>2. FrameOK'
  BY ProcsFacts DEF EndRange, client, TypeInv, TypeOK, FrameOK, RoleOK
<1>3. RoleOK'
  BY ProcsFacts DEF EndRange, client, TypeInv, TypeOK, FrameOK, RoleOK
<1> QED
  BY <1>1, <1>2, <1>3 DEF TypeInv

LEMMA AcceptType ==
    ASSUME TypeInv, Accept
    PROVE  TypeInv'
<1>1. Head(backlog) \in Conns /\ backlog' \in Seq(Conns)
  BY DEF Accept, TypeInv, TypeOK
<1>2. Note("join", Head(backlog)) \in Frames
  BY <1>1, NoteType
<1>3. frame' \in [Procs -> Frames \cup {Blank}]
  BY <1>2 DEF Accept, TypeInv, TypeOK
<1>4. TypeOK'
  BY ProcsFacts, <1>1, <1>3 DEF Accept, client, TypeInv, TypeOK
<1>5. FrameOK'
  BY ProcsFacts, <1>2 DEF Accept, client, TypeInv, TypeOK, FrameOK, RoleOK
<1>6. RoleOK'
  BY ProcsFacts DEF Accept, client, TypeInv, TypeOK, RoleOK
<1> QED
  BY <1>4, <1>5, <1>6 DEF TypeInv

LEMMA StartBroadcastType ==
    ASSUME TypeOK, NEW p \in Procs, NEW f \in Frames, NEW ks \in SUBSET Ports,
           StartBroadcast(p, f, ks)
    PROVE  /\ frame' \in [Procs -> Frames \cup {Blank}]
           /\ said' \in [Conns -> Seq(Frames)]
           /\ todo' \in [Procs -> SUBSET Ports]
           /\ seen' \in [Procs -> SUBSET Ports]
           /\ frame'[p] = f
           /\ \A q \in Procs \ {p} : frame'[q] = frame[q]
<1>1. f.who \in Conns
  BY DEF Frames
<1>2. said' \in [Conns -> Seq(Frames)]
  BY <1>1 DEF StartBroadcast, TypeOK
<1> QED
  BY <1>2 DEF StartBroadcast, TypeOK

LEMMA InsertType ==
    ASSUME TypeInv, Insert
    PROVE  TypeInv'
<1>1. frame[Main] \in Frames
  BY DEF Insert, TypeInv, FrameOK
<1>2. frame[Main].who \in Conns
  BY <1>1 DEF Frames
<1>3. Keys \in SUBSET Ports /\ TypeOK /\ StartBroadcast(Main, frame[Main], Keys)
  BY DEF Insert, Keys, TypeInv
<1>4. /\ frame' \in [Procs -> Frames \cup {Blank}]
      /\ said' \in [Conns -> Seq(Frames)]
      /\ todo' \in [Procs -> SUBSET Ports]
      /\ seen' \in [Procs -> SUBSET Ports]
      /\ frame'[Main] = frame[Main]
      /\ \A q \in Procs \ {Main} : frame'[q] = frame[q]
  BY <1>1, <1>3, StartBroadcastType, ProcsFacts
<1>5. online' \in [Ports -> Conns \cup {NoConn}]
  BY <1>2, <1>3, ProcsFacts DEF Insert, OwnKey, NewEntry, TypeOK
<1>6. pc' = [pc EXCEPT ![Main] = "range"]
  BY DEF Insert, AfterInsert
<1>7. TypeOK'
  BY <1>3, <1>4, <1>5, <1>6, ProcsFacts DEF Insert, client, TypeOK
<1>8. FrameOK'
  BY <1>1, <1>3, <1>4, <1>6, ProcsFacts DEF Insert, client, TypeInv, TypeOK, FrameOK
<1>9. RoleOK'
  BY <1>3, <1>6, ProcsFacts DEF TypeInv, TypeOK, RoleOK
<1> QED
  BY <1>7, <1>8, <1>9 DEF TypeInv

LEMMA ReadType ==
    ASSUME TypeInv, NEW c \in Conns, Read(c)
    PROVE  TypeInv'
<1>1. PICK hi \in took[c] + 1 .. wrote[c] :
         /\ StartBroadcast(c, Chunk(c, took[c] + 1, hi), Keys)
         /\ pc' = [pc EXCEPT ![c] = "range"]
         /\ took' = [took EXCEPT ![c] = hi]
  BY DEF Read
<1> DEFINE f == Chunk(c, took[c] + 1, hi)
<1>2. took[c] \in Nat /\ wrote[c] \in Nat /\ TypeOK
  BY DEF TypeInv, TypeOK
<1>3. hi \in Nat /\ took[c] + 1 \in Nat
  BY <1>1, <1>2
<1>4. f \in Frames /\ f.who = c /\ f.kind = "say"
  BY <1>3, ChunkType
<1>5. Keys \in SUBSET Ports
  BY DEF Keys
<1> HIDE DEF f
<1>6. /\ frame' \in [Procs -> Frames \cup {Blank}]
      /\ said' \in [Conns -> Seq(Frames)]
      /\ todo' \in [Procs -> SUBSET Ports]
      /\ seen' \in [Procs -> SUBSET Ports]
      /\ frame'[c] = f
      /\ \A q \in Procs \ {c} : frame'[q] = frame[q]
  BY <1>1, <1>2, <1>4, <1>5, StartBroadcastType, ProcsFacts DEF f
<1>7. TypeOK'
  BY <1>1, <1>2, <1>3, <1>6, ProcsFacts DEF Read, client, TypeOK
<1>8. FrameOK'
  <2>1. cur' = cur /\ c \in Procs /\ c # Main /\ frame'[c] = f
    BY <1>6, ProcsFacts DEF Read
  <2>2. pc'[c] = "range" /\ \A q \in Procs \ {c} : pc'[q] = pc[q] /\ frame'[q] = frame[q]
    BY <1>1, <1>2, <1>6, <2>1 DEF TypeOK
  <2> QED
    BY <1>4, <2>1, <2>2, ProcsFacts DEF TypeInv, FrameOK
<1>9. RoleOK'
  BY <1>1, <1>2, ProcsFacts DEF TypeInv, TypeOK, RoleOK
<1> QED
  BY <1>7, <1>8, <1>9 DEF TypeInv

LEMMA ReadErrType ==
    ASSUME TypeInv, NEW c \in Conns, ReadErr(c)
    PROVE  TypeInv'
<1>1. TypeOK'
  BY ProcsFacts DEF ReadErr, client, TypeInv, TypeOK, FrameOK, RoleOK
<1>2. FrameOK'
  BY ProcsFacts DEF ReadErr, client, TypeInv, TypeOK, FrameOK, RoleOK
<1>3. RoleOK'
  BY ProcsFacts DEF ReadErr, client, TypeInv, TypeOK, FrameOK, RoleOK
<1> QED
  BY <1>1, <1>2, <1>3 DEF TypeInv

LEMMA DeleteType ==
    ASSUME TypeInv, NEW c \in Conns, Delete(c)
    PROVE  TypeInv'
<1> DEFINE f == Note("leave", c)
<1>1. f \in Frames /\ f.who = c /\ f.kind = "leave"
  BY NoteType
<1> HIDE DEF f
<1>2. TypeOK /\ c \in Procs /\ c # Main /\ Keys \in SUBSET Ports /\ PortOf[c] \in Ports
  BY ProcsFacts DEF TypeInv, Keys
<1>3. online' \in [Ports -> Conns \cup {NoConn}]
  BY <1>2 DEF Delete, Without, TypeOK
<1>4. /\ todo' \in [Procs -> SUBSET Ports]
      /\ seen' \in [Procs -> SUBSET Ports]
  <2>1. CASE IsEof(c)
    BY <1>2, <2>1 DEF Delete, TypeOK
  <2>2. CASE ~IsEof(c)
    BY <1>2, <2>2 DEF Delete, TypeOK
  <2> QED
    BY <2>1, <2>2
<1>5. /\ said' \in [Conns -> Seq(Frames)]
      /\ frame' \in [Procs -> Frames \cup {Blank}]
      /\ \A q \in Procs \ {c} : frame'[q] = frame[q] /\ pc'[q] = pc[q]
      /\ pc'[c] \in {"range", "done"}
      /\ pc'[c] = "range" => frame'[c] = f
      /\ pc' \in [Procs -> {"none", "accept", "insert", "range", "write",
                            "read", "delete", "done"}]
  <2>1. CASE IsEof(c)
    <3>1. /\ pc' = [pc EXCEPT ![c] = "range"]
          /\ frame' = [frame EXCEPT ![c] = f]
          /\ said' = [said EXCEPT ![c] = Append(@, f)]
      BY <2>1 DEF Delete, f
    <3>2. said' \in [Conns -> Seq(Frames)]
      BY <1>1, <1>2, <3>1 DEF TypeOK
    <3> QED
      BY <1>1, <1>2, <3>1, <3>2 DEF TypeOK
  <2>2. CASE ~IsEof(c)
    <3>1. pc' = [pc EXCEPT ![c] = "done"] /\ frame' = frame /\ said' = said
      BY <2>2 DEF Delete
    <3> QED
      BY <1>2, <3>1 DEF TypeOK
  <2> QED
    BY <2>1, <2>2
<1>6. TypeOK'
  BY <1>2, <1>3, <1>4, <1>5 DEF Delete, client, TypeOK
<1>7. FrameOK'
  BY <1>1, <1>2, <1>5, ProcsFacts DEF Delete, TypeInv, FrameOK
<1>8. RoleOK'
  BY <1>2, <1>5, ProcsFacts DEF TypeInv, RoleOK
<1> QED
  BY <1>6, <1>7, <1>8 DEF TypeInv

LEMMA DialType ==
    ASSUME TypeInv, NEW c \in Conns, Dial(c)
    PROVE  TypeInv'
<1>1. TypeOK'
  BY ProcsFacts DEF Dial, TypeInv, TypeOK, FrameOK, RoleOK
<1>2. FrameOK'
  BY ProcsFacts DEF Dial, TypeInv, TypeOK, FrameOK, RoleOK
<1>3. RoleOK'
  BY ProcsFacts DEF Dial, TypeInv, TypeOK, FrameOK, RoleOK
<1> QED
  BY <1>1, <1>2, <1>3 DEF TypeInv

LEMMA SendType ==
    ASSUME TypeInv, NEW c \in Conns, Send(c)
    PROVE  TypeInv'
<1>1. TypeOK'
  BY ProcsFacts DEF Send, server, TypeInv, TypeOK, FrameOK, RoleOK
<1>2. FrameOK'
  BY ProcsFacts DEF Send, server, TypeInv, TypeOK, FrameOK, RoleOK
<1>3. RoleOK'
  BY ProcsFacts DEF Send, server, TypeInv, TypeOK, FrameOK, RoleOK
<1> QED
  BY <1>1, <1>2, <1>3 DEF TypeInv

LEMMA ReceiveType ==
    ASSUME TypeInv, NEW c \in Conns, Receive(c)
    PROVE  TypeInv'
<1>1. TypeOK'
  BY ProcsFacts DEF Receive, server, client, TypeInv, TypeOK, FrameOK, RoleOK
<1>2. FrameOK'
  BY ProcsFacts DEF Receive, server, client, TypeInv, TypeOK, FrameOK, RoleOK
<1>3. RoleOK'
  BY ProcsFacts DEF Receive, server, client, TypeInv, TypeOK, FrameOK, RoleOK
<1> QED
  BY <1>1, <1>2, <1>3 DEF TypeInv

LEMMA ExitType ==
    ASSUME TypeInv, NEW c \in Conns, Exit(c)
    PROVE  TypeInv'
<1>1. wrote' \in [Conns -> Nat]
  BY DEF Exit, TypeInv, TypeOK
<1>2. end' \in [Conns -> {"open", "fin", "rst"}]
  <2>1. \/ end' = end
        \/ end' = [end EXCEPT ![c] = "fin"]
        \/ end' = [end EXCEPT ![c] = "rst"]
    BY DEF Exit
  <2> QED
    BY <2>1 DEF TypeInv, TypeOK
<1>3. /\ down' \in [Conns -> Seq(Frames)]
      /\ cl' \in [Conns -> {"idle", "up", "deaf", "gone"}]
  BY DEF Exit, TypeInv, TypeOK
<1>4. UNCHANGED <<server, heard, took, lost>>
  BY DEF Exit
<1>5. TypeOK'
  BY <1>1, <1>2, <1>3, <1>4 DEF server, TypeInv, TypeOK
<1>6. FrameOK' /\ RoleOK'
  BY <1>4, ProcsFacts DEF server, TypeInv, TypeOK, FrameOK, RoleOK
<1> QED
  BY <1>5, <1>6 DEF TypeInv

LEMMA BreakType ==
    ASSUME TypeInv, NEW c \in Conns, Break(c)
    PROVE  TypeInv'
<1>1. TypeOK'
  BY ProcsFacts DEF Break, server, TypeInv, TypeOK, FrameOK, RoleOK
<1>2. FrameOK'
  BY ProcsFacts DEF Break, server, TypeInv, TypeOK, FrameOK, RoleOK
<1>3. RoleOK'
  BY ProcsFacts DEF Break, server, TypeInv, TypeOK, FrameOK, RoleOK
<1> QED
  BY <1>1, <1>2, <1>3 DEF TypeInv

LEMMA RestType ==
    ASSUME TypeInv
    PROVE  /\ AcceptError => TypeInv'
           /\ MapRace => TypeInv'
           /\ \A c \in Conns : DialFails(c) => TypeInv'
           /\ \A c \in Conns : ReceiverStops(c) => TypeInv'
           /\ UNCHANGED vars => TypeInv'
<1>1. ASSUME AcceptError \/ MapRace
      PROVE  TypeInv'
  BY <1>1 DEF AcceptError, MapRace, client, TypeInv, TypeOK, FrameOK, RoleOK
<1>2. ASSUME NEW c \in Conns, DialFails(c) \/ ReceiverStops(c)
      PROVE  TypeInv'
  BY <1>2 DEF DialFails, ReceiverStops, server, TypeInv, TypeOK, FrameOK, RoleOK
<1>3. ASSUME UNCHANGED vars
      PROVE  TypeInv'
  BY <1>3 DEF vars, TypeInv, TypeOK, FrameOK, RoleOK
<1> QED
  BY <1>1, <1>2, <1>3

LEMMA NextType == TypeInv /\ [Next]_vars => TypeInv'
<1> SUFFICES ASSUME TypeInv, [Next]_vars
             PROVE  TypeInv'
  OBVIOUS
<1>1. ASSUME NEW p \in Procs, Ranging(p)
      PROVE  TypeInv'
  BY <1>1, RangeType, WriteType, EndRangeType DEF Ranging
<1>2. CASE MainStep
  BY <1>1, <1>2, AcceptType, InsertType, RestType, ProcsFacts DEF MainStep
<1>3. ASSUME NEW c \in Conns, Process(c)
      PROVE  TypeInv'
  BY <1>1, <1>3, ReadType, ReadErrType, DeleteType, ProcsFacts DEF Process
<1>4. ASSUME NEW c \in Conns, Client(c)
      PROVE  TypeInv'
  BY <1>4, DialType, SendType, ReceiveType, ExitType, BreakType, RestType DEF Client
<1> QED
  BY <1>2, <1>3, <1>4, RestType DEF Next

\* Every variable keeps its type, whatever the clients and the goroutines do:
\* a range only ever produces a connection, a goroutine that broadcasts has a
\* document (chatRoomServer.go 79-93).
THEOREM TypeCorrect == Spec => []TypeOK
<1>1. TypeInv => TypeOK
  BY DEF TypeInv
<1> QED
  BY InitType, NextType, <1>1, PTL DEF Spec
-----------------------------------------------------------------------------
(* Nobody hears of himself.  A range fixes the connection it writes to one *)
(* step before it writes, and the map may change in between; the proof     *)
(* needs that every entry is under its own port and that the connection    *)
(* fixed is of another port than the broadcast.                            *)

EntriesKeyed == \A k \in Ports : online[k] # NoConn => PortOf[online[k]] = k

TargetIsOther == \A p \in Procs : pc[p] = "write" => PortOf[cur[p]] # OwnKey(p)

EchoInv == EntriesKeyed /\ TargetIsOther /\ NoEcho

LEMMA InitEcho == Init => EchoInv
  BY ConnsAssumption DEF Init, EchoInv, EntriesKeyed, TargetIsOther, NoEcho, Procs

LEMMA RangeEcho ==
    ASSUME TypeInv, EchoInv, NEW p \in Procs, NEW k \in Ports, Range(p, k)
    PROVE  EchoInv'
<1>1. EntriesKeyed' /\ NoEcho'
  BY DEF Range, EchoInv, EntriesKeyed, NoEcho
<1>2. k # OwnKey(p) /\ cur'[p] = online[k] /\ PortOf[cur'[p]] = k
  BY DEF Range, Producible, Keys, EchoInv, EntriesKeyed, TypeInv, TypeOK
<1>3. ASSUME NEW q \in Procs, pc'[q] = "write"
      PROVE  PortOf[cur'[q]] # OwnKey(q)'
  <2>1. CASE q = p
    BY <1>2, <2>1 DEF Range, OwnKey
  <2>2. CASE q # p
    BY <1>3, <2>2 DEF Range, OwnKey, EchoInv, TargetIsOther, TypeInv, TypeOK
  <2> QED
    BY <2>1, <2>2
<1> QED
  BY <1>1, <1>3 DEF EchoInv, TargetIsOther

LEMMA WriteEcho ==
    ASSUME TypeInv, EchoInv, NEW p \in Procs, Write(p)
    PROVE  EchoInv'
<1>1. EntriesKeyed'
  BY DEF Write, EchoInv, EntriesKeyed
<1>2. TargetIsOther'
  BY DEF Write, EchoInv, TargetIsOther, OwnKey, TypeInv, TypeOK
<1>3. cur[p] \in Conns /\ frame[p] \in Frames /\ frame[p].who \in Conns
  BY ProcsFacts DEF Write, Frames, TypeInv, FrameOK, RoleOK
<1>4. PortOf[cur[p]] # PortOf[frame[p].who]
  BY DEF Write, EchoInv, TargetIsOther, OwnKey
<1>5. ASSUME NEW d \in Conns, NEW c \in Conns, heard'[d][c] # <<>>
      PROVE  PortOf[d] # PortOf[c]
  <2>1. CASE d = cur[p] /\ c = frame[p].who
    BY <1>4, <2>1
  <2>2. CASE ~(d = cur[p] /\ c = frame[p].who)
    <3>1. heard'[d][c] = heard[d][c]
      <4>1. CASE LinkUp(cur[p])
        <5>1. heard' = [heard EXCEPT ![cur[p]][frame[p].who] = Append(@, frame[p])]
          BY <4>1 DEF Write
        <5>2. heard[cur[p]] \in [Conns -> Seq(Frames)]
          BY <1>3 DEF TypeInv, TypeOK
        <5>3. CASE d = cur[p]
          BY <1>3, <2>2, <5>1, <5>2, <5>3 DEF TypeInv, TypeOK
        <5>4. CASE d # cur[p]
          BY <1>3, <5>1, <5>4 DEF TypeInv, TypeOK
        <5> QED
          BY <5>3, <5>4
      <4>2. CASE ~LinkUp(cur[p])
        BY <4>2 DEF Write
      <4> QED
        BY <4>1, <4>2
    <3> QED
      BY <1>5, <3>1 DEF EchoInv, NoEcho
  <2> QED
    BY <2>1, <2>2
<1> QED
  BY <1>1, <1>2, <1>5 DEF EchoInv, NoEcho

LEMMA EndRangeEcho ==
    ASSUME TypeInv, EchoInv, NEW p \in Procs, EndRange(p)
    PROVE  EchoInv'
<1>1. EntriesKeyed' /\ NoEcho'
  BY DEF EndRange, EchoInv, EntriesKeyed, NoEcho
<1>2. ASSUME NEW q \in Procs, pc'[q] = "write"
      PROVE  q # p /\ pc[q] = "write"
  BY <1>2 DEF EndRange, TypeInv, TypeOK
<1>3. TargetIsOther'
  BY <1>2 DEF EndRange, EchoInv, TargetIsOther, OwnKey, TypeInv, TypeOK
<1> QED
  BY <1>1, <1>3 DEF EchoInv

LEMMA InsertEcho ==
    ASSUME TypeInv, EchoInv, Insert
    PROVE  EchoInv'
<1>1. frame[Main].who \in Conns
  BY DEF Insert, Frames, TypeInv, FrameOK
<1>2. EntriesKeyed'
  BY <1>1, ProcsFacts DEF Insert, NewEntry, OwnKey, EchoInv, EntriesKeyed, TypeInv, TypeOK
<1>3. NoEcho'
  BY DEF Insert, EchoInv, NoEcho
<1>4. TargetIsOther'
  BY ProcsFacts DEF Insert, AfterInsert, StartBroadcast, OwnKey, EchoInv, TargetIsOther, TypeInv, TypeOK
<1> QED
  BY <1>2, <1>3, <1>4 DEF EchoInv

\* A step of main or of a goroutine that neither writes nor ranges, and
\* leaves map entries as they were or removes one.
LEMMA OtherEcho ==
    ASSUME TypeInv, EchoInv, NEW p \in Procs,
           \A k \in Ports : online'[k] \in {online[k], NoConn},
           heard' = heard, cur' = cur,
           pc'[p] # "write",
           \A q \in Procs \ {p} : pc'[q] = pc[q] /\ frame'[q] = frame[q]
    PROVE  EchoInv'
  BY DEF EchoInv, EntriesKeyed, TargetIsOther, NoEcho, OwnKey

LEMMA NextEcho == TypeInv /\ EchoInv /\ [Next]_vars => EchoInv'
<1> SUFFICES ASSUME TypeInv, EchoInv, [Next]_vars
             PROVE  EchoInv'
  OBVIOUS
<1>1. ASSUME NEW p \in Procs, Ranging(p)
      PROVE  EchoInv'
  BY <1>1, RangeEcho, WriteEcho, EndRangeEcho DEF Ranging
<1>2. CASE Accept
  BY <1>2, OtherEcho, ProcsFacts DEF Accept, TypeInv, TypeOK
<1>3. ASSUME UNCHANGED <<online, pc, frame, cur, heard>>
      PROVE  EchoInv'
  BY <1>3 DEF EchoInv, EntriesKeyed, TargetIsOther, NoEcho, OwnKey
<1>4. CASE MainStep
  BY <1>1, <1>2, <1>3, <1>4, InsertEcho, ProcsFacts DEF MainStep, AcceptError
<1>5. ASSUME NEW c \in Conns, Read(c)
      PROVE  EchoInv'
  BY <1>5, OtherEcho, ProcsFacts DEF Read, StartBroadcast, TypeInv, TypeOK
<1>6. ASSUME NEW c \in Conns, ReadErr(c)
      PROVE  EchoInv'
  BY <1>6, OtherEcho, ProcsFacts DEF ReadErr, TypeInv, TypeOK
<1>7. ASSUME NEW c \in Conns, Delete(c)
      PROVE  EchoInv'
  BY <1>7, OtherEcho, ProcsFacts DEF Delete, Without, TypeInv, TypeOK
<1>8. ASSUME NEW c \in Conns, Process(c)
      PROVE  EchoInv'
  BY <1>1, <1>5, <1>6, <1>7, <1>8, ProcsFacts DEF Process
<1>9. ASSUME NEW c \in Conns, Client(c)
      PROVE  EchoInv'
  BY <1>3, <1>9 DEF Client, Dial, DialFails, Send, Receive, ReceiverStops, Exit, Break, server
<1> QED
  BY <1>3, <1>4, <1>8, <1>9 DEF Next, MapRace, vars

\* What is said of a client is written to no connection of that client's port
\* (chatRoomServer.go 81-87), with any number of goroutines broadcasting at
\* once and main replacing entries of the map under them.
THEOREM NoEchoCorrect == Spec => []NoEcho
<1>1. EchoInv => NoEcho
  BY DEF EchoInv
<1> QED
  BY InitType, NextType, InitEcho, NextEcho, <1>1, PTL DEF Spec
-----------------------------------------------------------------------------
(* The map holds the connections being served.  The proof needs the life   *)
(* of a connection: dialled, in the backlog once, taken by main, and only  *)
(* then given a goroutine.                                                 *)

Lifecycle ==
    /\ \A c \in Conns : pc[c] # "none" => cl[c] # "idle"
    /\ \A i \in 1 .. Len(backlog) :
          /\ pc[backlog[i]] = "none"
          /\ cl[backlog[i]] # "idle"
          /\ pc[Main] # "accept" => backlog[i] # frame[Main].who
    /\ \A i, j \in 1 .. Len(backlog) : i # j => backlog[i] # backlog[j]
    /\ pc[Main] # "accept" =>
          /\ pc[frame[Main].who] = "none"
          /\ cl[frame[Main].who] # "idle"

MapInv == Lifecycle /\ MapIsServed

LEMMA InitMap == Init => MapInv
  BY ConnsAssumption, ProcsFacts DEF Init, MapInv, Lifecycle, MapIsServed, Registered, Served, Procs

\* The connection main deals with, and that of a goroutine.
LEMMA MainConn ==
    ASSUME TypeInv, pc[Main] # "accept"
    PROVE  frame[Main] \in Frames /\ frame[Main].who \in Conns
  BY DEF TypeInv, RoleOK, FrameOK, Frames

LEMMA BacklogConns ==
    ASSUME TypeInv
    PROVE  /\ Len(backlog) \in Nat
           /\ \A i \in 1 .. Len(backlog) : backlog[i] \in Conns
  BY DEF TypeInv, TypeOK

LEMMA MapKept ==
    ASSUME MapIsServed, online' = online, \A c \in Conns : Served(c)' <=> Served(c)
    PROVE  MapIsServed'
  BY DEF MapIsServed, Registered

\* A step of the goroutine of c that neither starts nor ends its service.
LEMMA GoroutineLife ==
    ASSUME TypeInv, Lifecycle, NEW c \in Conns, pc[c] # "none", pc'[c] # "none",
           backlog' = backlog, cl' = cl,
           \A q \in Procs \ {c} : pc'[q] = pc[q] /\ frame'[q] = frame[q]
    PROVE  Lifecycle'
<1>1. c # Main /\ pc'[Main] = pc[Main] /\ frame'[Main] = frame[Main]
  BY ProcsFacts
<1>2. \A i \in 1 .. Len(backlog) : backlog[i] # c /\ backlog[i] \in Procs
  BY BacklogConns, ProcsFacts DEF Lifecycle
<1>3. pc[Main] # "accept" => frame[Main].who # c /\ frame[Main].who \in Procs
  BY MainConn, ProcsFacts DEF Lifecycle
<1> QED
  BY <1>1, <1>2, <1>3, ProcsFacts DEF Lifecycle

LEMMA GoroutineServed ==
    ASSUME TypeInv, NEW c \in Conns, NEW d \in Conns \ {c},
           \A q \in Procs \ {c} : pc'[q] = pc[q] /\ frame'[q] = frame[q]
    PROVE  Served(d)' <=> Served(d)
  BY ProcsFacts DEF Served

LEMMA RangeWriteMap ==
    ASSUME TypeInv, MapInv, NEW p \in Procs,
           Write(p) \/ \E k \in Ports : Range(p, k)
    PROVE  MapInv'
<1>1. /\ UNCHANGED <<online, backlog, cl, frame>>
      /\ pc[p] \in {"range", "write"} /\ pc'[p] \in {"range", "write"}
      /\ \A q \in Procs \ {p} : pc'[q] = pc[q]
  BY DEF Range, Write, client, TypeInv, TypeOK
<1>2. Lifecycle'
  <2>1. CASE p = Main
    BY <1>1, <2>1, MainConn, BacklogConns, ProcsFacts DEF MapInv, Lifecycle
  <2>2. CASE p \in Conns
    BY <1>1, <2>2, GoroutineLife DEF MapInv
  <2> QED
    BY <2>1, <2>2, ProcsFacts
<1>3. \A d \in Conns : Served(d)' <=> Served(d)
  BY <1>1, ProcsFacts DEF Served
<1> QED
  BY <1>1, <1>2, <1>3, MapKept DEF MapInv

LEMMA EndRangeMap ==
    ASSUME TypeInv, MapInv, NEW p \in Procs, EndRange(p)
    PROVE  MapInv'
<1>1. UNCHANGED <<online, backlog, cl>> /\ \A q \in Procs \ {p} : frame'[q] = frame[q]
  BY DEF EndRange, client, TypeInv, TypeOK
<1>2. CASE p = Main
  <2> DEFINE w == frame[Main].who
  <2>1. w \in Conns /\ pc[w] = "none" /\ cl[w] # "idle" /\ pc[Main] = "range"
    BY <1>2, MainConn DEF EndRange, MapInv, Lifecycle
  <2>2. /\ pc'[Main] = "accept" /\ pc'[w] = "read"
        /\ \A q \in Procs \ {Main, w} : pc'[q] = pc[q]
    BY <1>2, <2>1, ProcsFacts DEF EndRange, TypeInv, TypeOK
  <2>3. Lifecycle'
    <3>1. \A i \in 1 .. Len(backlog) : backlog[i] \in Conns \ {w}
      BY <2>1, BacklogConns DEF MapInv, Lifecycle
    <3> QED
      BY <1>1, <2>1, <2>2, <3>1, ProcsFacts DEF MapInv, Lifecycle
  <2>4. ASSUME NEW d \in Conns
        PROVE  Served(d)' <=> Served(d)
    BY <1>1, <1>2, <2>1, <2>2, ProcsFacts DEF Served
  <2> QED
    BY <1>1, <2>3, <2>4, MapKept DEF MapInv
<1>3. CASE p \in Conns
  <2>1. /\ pc[p] = "range" /\ pc'[p] = IF frame[p].kind = "leave" THEN "done" ELSE "read"
        /\ \A q \in Procs \ {p} : pc'[q] = pc[q]
    BY <1>3, ProcsFacts DEF EndRange, TypeInv, TypeOK
  <2>2. Lifecycle'
    BY <1>1, <1>3, <2>1, GoroutineLife DEF MapInv
  <2>3. frame[p].kind \in {"say", "leave"}
    BY <1>3, <2>1 DEF TypeInv, FrameOK, Frames
  <2>4. pc[Main] # "accept" => frame[Main].who # p
    BY <2>1 DEF MapInv, Lifecycle
  <2>5. Served(p)' <=> Served(p)
    BY <1>1, <1>3, <2>1, <2>3, <2>4, ProcsFacts DEF Served
  <2>6. ASSUME NEW d \in Conns \ {p}
        PROVE  Served(d)' <=> Served(d)
    BY <1>1, <1>3, <2>1, GoroutineServed
  <2> QED
    BY <1>1, <2>2, <2>5, <2>6, MapKept DEF MapInv
<1> QED
  BY <1>2, <1>3, ProcsFacts

LEMMA AcceptMap ==
    ASSUME TypeInv, MapInv, Accept
    PROVE  MapInv'
<1> DEFINE w == Head(backlog)
<1>1. /\ backlog \in Seq(Conns) /\ backlog # <<>> /\ backlog' = Tail(backlog)
      /\ UNCHANGED <<online, cl>>
      /\ pc[Main] = "accept" /\ pc'[Main] = "insert" /\ frame'[Main].who = w
      /\ \A q \in Procs \ {Main} : pc'[q] = pc[q] /\ frame'[q] = frame[q]
  BY ProcsFacts DEF Accept, client, Note, TypeInv, TypeOK
<1>2. w = backlog[1] /\ Len(backlog) \in Nat \ {0} /\ Len(backlog') = Len(backlog) - 1
  BY <1>1
<1>3. \A i \in 1 .. Len(backlog') :
         i + 1 \in 2 .. Len(backlog) /\ backlog'[i] = backlog[i + 1]
  BY <1>1, <1>2
<1>4. w \in Conns /\ pc[w] = "none" /\ cl[w] # "idle"
  BY <1>1, <1>2 DEF MapInv, Lifecycle
<1>5. \A i \in 1 .. Len(backlog') :
         /\ backlog'[i] \in Conns
         /\ backlog'[i] # w
         /\ pc[backlog'[i]] = "none"
         /\ cl[backlog'[i]] # "idle"
  <2>1. \A j \in 2 .. Len(backlog) :
           /\ backlog[j] \in Conns
           /\ backlog[j] # backlog[1]
           /\ pc[backlog[j]] = "none"
           /\ cl[backlog[j]] # "idle"
    BY <1>2, BacklogConns DEF MapInv, Lifecycle
  <2>2. ASSUME NEW i \in 1 .. Len(backlog'), NEW j \in 2 .. Len(backlog),
               backlog'[i] = backlog[j]
        PROVE  /\ backlog'[i] \in Conns
               /\ backlog'[i] # backlog[1]
               /\ pc[backlog'[i]] = "none"
               /\ cl[backlog'[i]] # "idle"
    BY <2>1, <2>2
  <2> QED
    BY <1>2, <1>3, <2>2
<1>6. \A i, j \in 1 .. Len(backlog') : i # j => backlog'[i] # backlog'[j]
  BY <1>2, <1>3 DEF MapInv, Lifecycle
<1>7. Lifecycle'
  BY <1>1, <1>4, <1>5, <1>6, ProcsFacts DEF MapInv, Lifecycle
<1>8. \A d \in Conns : Served(d)' <=> Served(d)
  BY <1>1, ProcsFacts DEF Served
<1> QED
  BY <1>1, <1>7, <1>8, MapKept DEF MapInv

LEMMA InsertMap ==
    ASSUME TypeInv, MapInv, Insert
    PROVE  MapInv'
<1> DEFINE w == frame[Main].who
<1>1. /\ pc[Main] = "insert" /\ pc'[Main] = "range" /\ frame' = frame
      /\ UNCHANGED <<backlog, cl>>
      /\ \A q \in Procs \ {Main} : pc'[q] = pc[q]
      /\ online' = [online EXCEPT ![PortOf[w]] = w]
  BY ProcsFacts DEF Insert, AfterInsert, StartBroadcast, OwnKey, NewEntry, client, TypeInv, TypeOK
<1>2. w \in Conns /\ PortOf[w] \in Ports
  BY <1>1, MainConn, ProcsFacts
<1>3. Lifecycle'
  BY <1>1, <1>2, BacklogConns, ProcsFacts DEF MapInv, Lifecycle
<1>4. ASSUME NEW c \in Conns, OwnPort(c)
      PROVE  Registered(c)' <=> Served(c)'
  <2>1. CASE c = w
    BY <1>1, <1>2, <2>1 DEF Registered, Served, TypeInv, TypeOK
  <2>2. CASE c # w
    <3>1. PortOf[c] # PortOf[w] /\ PortOf[c] \in Ports
      BY <1>2, <1>4, <2>2, ProcsFacts DEF OwnPort
    <3>2. Registered(c)' <=> Registered(c)
      BY <1>1, <3>1 DEF Registered, TypeInv, TypeOK
    <3>3. Served(c)' <=> Served(c)
      BY <1>1, <2>2, ProcsFacts DEF Served
    <3> QED
      BY <1>4, <3>2, <3>3 DEF MapInv, MapIsServed
  <2> QED
    BY <2>1, <2>2
<1> QED
  BY <1>3, <1>4 DEF MapInv, MapIsServed

LEMMA ReadMap ==
    ASSUME TypeInv, MapInv, NEW c \in Conns, Read(c) \/ ReadErr(c)
    PROVE  MapInv'
<1>1. /\ pc[c] = "read"
      /\ \/ pc'[c] = "delete"
         \/ pc'[c] = "range" /\ frame'[c].kind = "say"
      /\ UNCHANGED <<online, backlog, cl>>
      /\ \A q \in Procs \ {c} : pc'[q] = pc[q] /\ frame'[q] = frame[q]
  <2>1. c \in Procs /\ UNCHANGED <<online, backlog, cl>> /\ pc[c] = "read"
    BY ProcsFacts DEF Read, ReadErr, client
  <2>2. CASE Read(c)
    <3>1. PICK hi : StartBroadcast(c, Chunk(c, took[c] + 1, hi), Keys)
      BY <2>2 DEF Read
    <3>2. frame' = [frame EXCEPT ![c] = Chunk(c, took[c] + 1, hi)]
      BY <3>1 DEF StartBroadcast
    <3>3. frame'[c].kind = "say" /\ \A q \in Procs \ {c} : frame'[q] = frame[q]
      BY <2>1, <3>2 DEF Chunk, TypeInv, TypeOK
    <3>4. pc' = [pc EXCEPT ![c] = "range"]
      BY <2>2 DEF Read
    <3> QED
      BY <2>1, <3>3, <3>4 DEF TypeInv, TypeOK
  <2>3. CASE ReadErr(c)
    BY <2>1, <2>3 DEF ReadErr, TypeInv, TypeOK
  <2> QED
    BY <2>2, <2>3
<1>2. Lifecycle'
  BY <1>1, GoroutineLife DEF MapInv
<1>3. Served(c)' /\ Served(c)
  BY <1>1 DEF Served
<1>4. \A d \in Conns \ {c} : Served(d)' <=> Served(d)
  BY <1>1, GoroutineServed
<1> QED
  BY <1>1, <1>2, <1>3, <1>4, MapKept DEF MapInv

LEMMA DeleteMap ==
    ASSUME TypeInv, MapInv, NEW c \in Conns, Delete(c)
    PROVE  MapInv'
<1>1. /\ pc[c] = "delete"
      /\ \/ pc'[c] = "done"
         \/ pc'[c] = "range" /\ frame'[c].kind = "leave"
      /\ UNCHANGED <<backlog, cl>>
      /\ \A q \in Procs \ {c} : pc'[q] = pc[q] /\ frame'[q] = frame[q]
      /\ online' = [online EXCEPT ![PortOf[c]] = NoConn]
  BY ProcsFacts DEF Delete, Without, Note, client, TypeInv, TypeOK
<1>2. Lifecycle'
  BY <1>1, GoroutineLife DEF MapInv
<1>3. ASSUME NEW d \in Conns, OwnPort(d)
      PROVE  Registered(d)' <=> Served(d)'
  <2>1. CASE d = c
    <3>1. ~Registered(c)'
      BY <1>1, ProcsFacts DEF Registered, TypeInv, TypeOK
    <3>2. pc[Main] # "accept" => frame[Main].who # c
      BY <1>1 DEF MapInv, Lifecycle
    <3>3. ~Served(c)'
      BY <1>1, <3>2, ProcsFacts DEF Served
    <3> QED
      BY <2>1, <3>1, <3>3
  <2>2. CASE d # c
    <3>1. PortOf[d] # PortOf[c] /\ PortOf[d] \in Ports
      BY <1>3, <2>2, ProcsFacts DEF OwnPort
    <3>2. Registered(d)' <=> Registered(d)
      BY <1>1, <3>1 DEF Registered, TypeInv, TypeOK
    <3>3. Served(d)' <=> Served(d)
      BY <1>1, <2>2, GoroutineServed
    <3> QED
      BY <1>3, <3>2, <3>3 DEF MapInv, MapIsServed
  <2> QED
    BY <2>1, <2>2
<1> QED
  BY <1>2, <1>3 DEF MapInv, MapIsServed

LEMMA ClientMap ==
    ASSUME TypeInv, MapInv, NEW c \in Conns, Client(c)
    PROVE  MapInv'
<1>1. UNCHANGED <<online, pc, frame>>
  BY DEF Client, Dial, DialFails, Send, Receive, ReceiverStops, Exit, Break, server
<1>2. \A d \in Conns : Served(d)' <=> Served(d)
  BY <1>1 DEF Served
<1>3. \A d \in Conns : cl[d] # "idle" => cl'[d] # "idle"
  BY DEF Client, Dial, DialFails, Send, Receive, ReceiverStops, Exit, Break, client, TypeInv, TypeOK
<1>4. Lifecycle'
  <2>1. CASE Dial(c)
    <3>1. /\ backlog \in Seq(Conns) /\ backlog' = Append(backlog, c)
          /\ cl[c] = "idle" /\ cl'[c] # "idle"
      BY <2>1 DEF Dial, TypeInv, TypeOK
    <3>2. /\ Len(backlog) \in Nat /\ Len(backlog') = Len(backlog) + 1
          /\ backlog'[Len(backlog')] = c
          /\ \A i \in 1 .. Len(backlog') :
                i # Len(backlog') => i \in 1 .. Len(backlog) /\ backlog'[i] = backlog[i]
      BY <3>1
    <3>3. pc[c] = "none" /\ \A i \in 1 .. Len(backlog) : backlog[i] # c
      BY <3>1 DEF MapInv, Lifecycle
    <3>4. pc[Main] # "accept" => frame[Main].who # c
      BY <3>1 DEF MapInv, Lifecycle
    <3>5. \A i \in 1 .. Len(backlog') :
             /\ pc[backlog'[i]] = "none"
             /\ cl'[backlog'[i]] # "idle"
             /\ pc[Main] # "accept" => backlog'[i] # frame[Main].who
      BY <1>3, <3>1, <3>2, <3>3, <3>4, BacklogConns DEF MapInv, Lifecycle
    <3>6. \A i, j \in 1 .. Len(backlog') : i # j => backlog'[i] # backlog'[j]
      BY <3>2, <3>3 DEF MapInv, Lifecycle
    <3> QED
      BY <1>1, <1>3, <3>5, <3>6, MainConn DEF MapInv, Lifecycle
  <2>2. CASE backlog' = backlog
    BY <1>1, <1>3, <2>2, BacklogConns, MainConn DEF MapInv, Lifecycle
  <2>3. Dial(c) \/ backlog' = backlog
    BY DEF Client, DialFails, Send, Receive, ReceiverStops, Exit, Break, server
  <2> QED
    BY <2>1, <2>2, <2>3
<1> QED
  BY <1>1, <1>2, <1>4, MapKept DEF MapInv

LEMMA NextMap == TypeInv /\ MapInv /\ [Next]_vars => MapInv'
<1> SUFFICES ASSUME TypeInv, MapInv, [Next]_vars
             PROVE  MapInv'
  OBVIOUS
<1>1. ASSUME NEW p \in Procs, Ranging(p)
      PROVE  MapInv'
  BY <1>1, RangeWriteMap, EndRangeMap DEF Ranging
<1>2. ASSUME UNCHANGED <<online, backlog, pc, frame, cl>>
      PROVE  MapInv'
  BY <1>2 DEF MapInv, Lifecycle, MapIsServed, Registered, Served
<1>3. CASE MainStep
  BY <1>1, <1>2, <1>3, AcceptMap, InsertMap, ProcsFacts DEF MainStep, AcceptError, client
<1>4. ASSUME NEW c \in Conns, Process(c)
      PROVE  MapInv'
  BY <1>1, <1>4, ReadMap, DeleteMap, ProcsFacts DEF Process
<1> QED
  BY <1>2, <1>3, <1>4, ClientMap DEF Next, MapRace, vars, client

\* A connection that shares its port with no other is in onlineUsers from line
\* 229 on exactly until line 120 takes it out, and is served just as long.
THEOREM MapIsServedCorrect == Spec => []MapIsServed
<1>1. MapInv => MapIsServed
  BY DEF MapInv
<1> QED
  BY InitType, NextType, InitMap, NextMap, <1>1, PTL DEF Spec
-----------------------------------------------------------------------------
(* What is said of c, and who has heard it.  The proof needs what a range  *)
(* in progress has done and has still to do for each entry of the map.     *)

Newest(s) == s[Len(s)]

\* Process p broadcasts about c.
Tells(p, c) == pc[p] \in {"range", "write"} /\ frame[p].who = c

\* c is not in the room yet.
Untold(c) == pc[c] = "none" /\ ~Tells(Main, c)

\* d has heard of c nothing; or all but the last that was said; or all.
Nothing(d, c) == heard[d][c] = <<>>
Behind(d, c)  == \/ Nothing(d, c)
                 \/ /\ Len(said[c]) > 1
                    /\ Newest(heard[d][c]) = said[c][Len(said[c]) - 1]
Current(d, c) == Nothing(d, c) \/ Newest(heard[d][c]) = Newest(said[c])

\* The story so far is in order, and its end is where its teller stands.
SaidInv(c) ==
    /\ \A i \in 1 .. Len(said[c]) - 1 : Follows(said[c][i], said[c][i + 1])
    /\ Untold(c) => said[c] = <<>>
    /\ pc[c] = "none" => took[c] = 0
    /\ pc[c] \in {"read", "delete"} =>
          said[c] # <<>> /\ Newest(said[c]).kind # "leave" /\ Newest(said[c]).hi = took[c]
    /\ \A p \in Procs : Tells(p, c) =>
          /\ said[c] # <<>> /\ Newest(said[c]) = frame[p]
          /\ frame[p].kind # "leave" => frame[p].hi = took[c]

JoinFirst == pc[Main] # "accept" => frame[Main] = Note("join", frame[Main].who)

\* Nobody is sent anything before he is in the room, nor anything of one who
\* is not.
FreshInv(d) ==
    /\ Untold(d) => /\ \A k \in Ports : online[k] # d
                    /\ \A p \in Procs : pc[p] = "write" => cur[p] # d
                    /\ \A c \in Conns : Nothing(d, c)
    /\ \A c \in Conns : said[c] = <<>> => Nothing(d, c)

\* Between two broadcasts about c.
SettledInv(c) ==
    pc[c] \in {"read", "delete"} =>
        \A k \in Keys : LinkUp(online[k]) => Current(online[k], c)

\* During one: the keys its range has produced, those it is certain to
\* produce, and those that have come since it began.
RangeInv(p) ==
    LET c == frame[p].who IN
    pc[p] \in {"range", "write"} =>
        /\ todo[p] \cap seen[p] = {}
        /\ \A k \in Keys : LinkUp(online[k]) =>
              /\ k \in todo[p] => Behind(online[k], c)
              /\ k \in seen[p] => \/ pc[p] = "write" /\ cur[p] = online[k]
                                  \/ Current(online[k], c)
              /\ k \notin todo[p] \cup seen[p] => Nothing(online[k], c)
        /\ pc[p] = "write" =>
              /\ LinkUp(cur[p]) => Behind(cur[p], c)
              /\ online[PortOf[cur[p]]] = cur[p] => PortOf[cur[p]] \in seen[p]

StoryInv ==
    /\ StoryInOrder /\ JoinFirst
    /\ \A c \in Conns : SaidInv(c) /\ FreshInv(c) /\ SettledInv(c)
    /\ \A p \in Procs : RangeInv(p)

\* A step leaves an entry of the map alone, removes it, or puts one there
\* that is new to the room; and no connection comes up that has heard things.
MapStep == \A k \in Ports : \/ online'[k] = online[k]
                            \/ online'[k] = NoConn
                            \/ (online'[k] \in Conns /\ Untold(online'[k]))
LinkStep == \A d \in Conns : LinkUp(d)' => \/ LinkUp(d)
                                           \/ \A c \in Conns : Nothing(d, c)

\* Nothing is said or heard of c.
Silent(c) == said'[c] = said[c] /\ \A d \in Conns : heard'[d][c] = heard[d][c]

LEMMA Subject ==
    ASSUME TypeInv, NEW p \in Procs, pc[p] \in {"range", "write"}
    PROVE  /\ frame[p] \in Frames /\ frame[p].who \in Conns
           /\ Tells(p, frame[p].who)
BY ProcsFacts DEF TypeInv, FrameOK, Frames, Tells

\* Of each client one process tells, if any: main until the goroutine is
\* started, and that goroutine later.
LEMMA OneTeller ==
    ASSUME TypeInv, Lifecycle, NEW c \in Conns, NEW p \in Procs, Tells(p, c)
    PROVE  /\ (p = Main /\ pc[c] = "none") \/ p = c
           /\ pc[c] \notin {"read", "delete", "done"}
           /\ \A q \in Procs : Tells(q, c) => q = p
           /\ ~Untold(c)
<1>1. \A q \in Procs : Tells(q, c) => (q = Main /\ pc[c] = "none") \/ q = c
  BY ProcsFacts DEF Tells, TypeInv, FrameOK, Lifecycle
<1>2. Tells(c, c) => pc[c] \in {"range", "write"}
  BY DEF Tells
<1> QED  BY <1>1, <1>2, ProcsFacts DEF Untold

LEMMA KeysType ==
    ASSUME TypeInv, NEW k \in Keys
    PROVE  k \in Ports /\ online[k] \in Conns
BY DEF Keys, TypeInv, TypeOK

LEMMA SilentSame ==
    ASSUME NEW c \in Conns, Silent(c), NEW d \in Conns
    PROVE  /\ Nothing(d, c)' <=> Nothing(d, c)
           /\ Behind(d, c)' <=> Behind(d, c)
           /\ Current(d, c)' <=> Current(d, c)
BY DEF Silent, Nothing, Behind, Current, Newest

LEMMA NothingIsAll ==
    ASSUME NEW c, NEW d, Nothing(d, c)
    PROVE  Behind(d, c) /\ Current(d, c)
BY DEF Behind, Current

LEMMA SaidKept ==
    ASSUME NEW c \in Conns, SaidInv(c),
           said'[c] = said[c], took'[c] = took[c],
           pc'[c] = "none" => pc[c] = "none",
           pc'[c] \in {"read", "delete"} => pc[c] \in {"read", "delete"},
           Tells(Main, c) => Tells(Main, c)' \/ pc'[c] # "none",
           \A p \in Procs : Tells(p, c)' => Tells(p, c) /\ frame'[p] = frame[p]
    PROVE  SaidInv(c)'
<1>1. Untold(c)' => Untold(c)
  BY DEF Untold
<1> QED  BY <1>1 DEF SaidInv, Newest

LEMMA SaidTold ==
    ASSUME TypeInv, NEW c \in Conns, SaidInv(c), NEW p \in Procs, NEW f \in Frames,
           said'[c] = Append(said[c], f),
           said[c] # <<>> => Follows(Newest(said[c]), f),
           frame'[p] = f, f.kind # "leave" => f.hi = took'[c],
           \A q \in Procs : Tells(q, c)' => q = p,
           pc'[c] \notin {"read", "delete"}, ~Untold(c)',
           pc'[c] = "none" => took'[c] = 0
    PROVE  SaidInv(c)'
<1> DEFINE s == said[c]
           t == Append(s, f)
<1>0. s \in Seq(Frames)
  BY DEF TypeInv, TypeOK
<1> HIDE DEF s
<1>1. /\ Len(s) \in Nat
      /\ Len(t) = Len(s) + 1 /\ t[Len(s) + 1] = f /\ t # <<>>
      /\ \A i \in 1 .. Len(s) : t[i] = s[i]
  BY <1>0
<1> HIDE DEF t
<1>2. ASSUME NEW i \in 1 .. Len(t) - 1
      PROVE  Follows(t[i], t[i + 1])
  <2>1. CASE i < Len(s)
    <3>1. i \in 1 .. Len(s) - 1 /\ t[i] = s[i] /\ t[i + 1] = s[i + 1]
      BY <1>1, <2>1
    <3> QED  BY <3>1 DEF SaidInv, s
  <2>2. CASE i = Len(s)
    BY <1>1, <2>2 DEF Newest, s
  <2> QED  BY <1>1, <2>1, <2>2
<1>3. said'[c] = t /\ Newest(said'[c]) = f
  BY <1>1 DEF s, t, Newest
<1>4. \A i \in 1 .. Len(said'[c]) - 1 : Follows(said'[c][i], said'[c][i + 1])
  BY <1>2, <1>3
<1>5. \A q \in Procs : Tells(q, c)' =>
         /\ said'[c] # <<>> /\ Newest(said'[c]) = frame'[q]
         /\ frame'[q].kind # "leave" => frame'[q].hi = took'[c]
  BY <1>1, <1>3
<1> QED  BY <1>4, <1>5 DEF SaidInv, Newest, Follows

LEMMA FreshKept ==
    ASSUME NEW d \in Conns, FreshInv(d),
           Untold(d)' => Untold(d),
           \A k \in Ports : online'[k] = d => online[k] = d \/ ~Untold(d)',
           \A p \in Procs : pc'[p] = "write" =>
              \/ pc[p] = "write" /\ cur'[p] = cur[p]
              \/ \E k \in Ports : online[k] = cur'[p],
           \A c \in Conns : \/ heard'[d][c] = heard[d][c]
                            \/ ~Untold(d)' /\ said'[c] # <<>>,
           \A c \in Conns : said'[c] = <<>> => said[c] = <<>>
    PROVE  FreshInv(d)'
<1>1. \A c \in Conns : said'[c] = <<>> => Nothing(d, c)'
  BY DEF FreshInv, Nothing
<1>2. Untold(d)' => \A c \in Conns : Nothing(d, c)'
  BY DEF FreshInv, Nothing
<1>3. Untold(d)' => \A k \in Ports : online'[k] # d
  BY DEF FreshInv
<1>4. Untold(d)' => \A p \in Procs : pc'[p] = "write" => cur'[p] # d
  BY DEF FreshInv
<1> QED  BY <1>1, <1>2, <1>3, <1>4 DEF FreshInv

LEMMA SettledKept ==
    ASSUME TypeInv, TypeInv', \A d \in Conns : FreshInv(d), MapStep, LinkStep,
           NEW c \in Conns, SettledInv(c), Silent(c),
           pc'[c] \in {"read", "delete"} => pc[c] \in {"read", "delete"}
    PROVE  SettledInv(c)'
<1> SUFFICES ASSUME pc'[c] \in {"read", "delete"}, NEW k \in Keys',
                    LinkUp(online[k])'
             PROVE  Current(online[k], c)'
  BY DEF SettledInv
<1>1. k \in Ports /\ online'[k] \in Conns /\ online'[k] # NoConn
  BY ConnsAssumption DEF Keys, TypeInv, TypeOK
<1>2. CASE Nothing(online'[k], c)
  BY <1>1, <1>2, SilentSame, NothingIsAll
<1>3. CASE online'[k] = online[k] /\ LinkUp(online[k])
  <2>1. k \in Keys
    BY <1>1, <1>3 DEF Keys
  <2>2. Current(online[k], c)
    BY <1>3, <2>1 DEF SettledInv
  <2> QED  BY <1>1, <1>3, <2>2, SilentSame
<1>4. Nothing(online'[k], c) \/ (online'[k] = online[k] /\ LinkUp(online[k]))
  BY <1>1 DEF MapStep, LinkStep, FreshInv
<1> QED  BY <1>2, <1>3, <1>4

LEMMA RangeKept ==
    ASSUME TypeInv, TypeInv', \A d \in Conns : FreshInv(d), MapStep, LinkStep,
           NEW p \in Procs, RangeInv(p),
           pc'[p] = pc[p], frame'[p] = frame[p], cur'[p] = cur[p],
           pc[p] \in {"range", "write"} => Silent(frame[p].who),
           todo'[p] \subseteq todo[p], seen'[p] \subseteq seen[p],
           \A k \in Ports : online'[k] # NoConn =>
               /\ k \in todo[p] => k \in todo'[p]
               /\ k \in seen[p] => k \in seen'[p]
    PROVE  RangeInv(p)'
<1> SUFFICES ASSUME pc[p] \in {"range", "write"}
             PROVE  RangeInv(p)'
  BY DEF RangeInv
<1>1. PICK c \in Conns : c = frame[p].who /\ Silent(c) /\ frame'[p].who = c
  BY Subject
<1>2. todo'[p] \cap seen'[p] = {}
  BY DEF RangeInv
<1>3. ASSUME NEW k \in Keys', LinkUp(online[k])'
      PROVE  /\ k \in todo'[p] => Behind(online[k], c)'
             /\ k \in seen'[p] => \/ pc'[p] = "write" /\ cur'[p] = online'[k]
                                  \/ Current(online[k], c)'
             /\ k \notin todo'[p] \cup seen'[p] => Nothing(online[k], c)'
  <2>1. k \in Ports /\ online'[k] \in Conns /\ online'[k] # NoConn
    BY ConnsAssumption DEF Keys, TypeInv, TypeOK
  <2>2. CASE Nothing(online'[k], c)
    <3>1. Nothing(online[k], c)'
      BY <1>1, <2>1, <2>2 DEF Silent, Nothing
    <3>2. Behind(online[k], c)' /\ Current(online[k], c)'
      BY <3>1 DEF Behind, Current
    <3> QED  BY <3>1, <3>2
  <2>3. CASE online'[k] = online[k] /\ LinkUp(online[k])
    <3>1. k \in Keys
      BY <2>1, <2>3 DEF Keys
    <3>2. /\ k \in todo[p] => Behind(online[k], c)
          /\ k \in seen[p] => \/ pc[p] = "write" /\ cur[p] = online[k]
                              \/ Current(online[k], c)
          /\ k \notin todo[p] \cup seen[p] => Nothing(online[k], c)
      BY <1>1, <2>3, <3>1 DEF RangeInv
    <3>3. /\ Behind(online[k], c) => Behind(online[k], c)'
          /\ Current(online[k], c) => Current(online[k], c)'
          /\ Nothing(online[k], c) => Nothing(online[k], c)'
      BY <1>1, <2>1, <2>3 DEF Silent, Nothing, Behind, Current, Newest
    <3>4. /\ k \in todo[p] <=> k \in todo'[p]
          /\ k \in seen[p] <=> k \in seen'[p]
      BY <2>1
    <3> QED  BY <2>3, <3>2, <3>3, <3>4
  <2>4. Nothing(online'[k], c) \/ (online'[k] = online[k] /\ LinkUp(online[k]))
    <3>1. LinkUp(online[k]) \/ online'[k] # online[k] \/ Nothing(online'[k], c)
      BY <1>1, <1>3, <2>1 DEF LinkStep, LinkUp
    <3>2. online'[k] = online[k] \/ Untold(online'[k])
      BY <2>1 DEF MapStep
    <3> QED  BY <1>1, <2>1, <3>1, <3>2 DEF FreshInv
  <2> QED  BY <2>2, <2>3, <2>4
<1>4. ASSUME pc'[p] = "write"
      PROVE  /\ LinkUp(cur[p])' => Behind(cur[p], c)'
             /\ online'[PortOf[cur'[p]]] = cur'[p] => PortOf[cur'[p]] \in seen'[p]
  <2>1. cur[p] \in Conns /\ PortOf[cur[p]] \in Ports /\ cur[p] # NoConn
    BY <1>4, ProcsFacts DEF TypeInv, FrameOK
  <2>2. ASSUME LinkUp(cur[p])'  PROVE Behind(cur[p], c)'
    <3>1. LinkUp(cur[p]) \/ Nothing(cur[p], c)
      BY <1>1, <2>1, <2>2 DEF LinkStep, LinkUp
    <3>2. Behind(cur[p], c)
      BY <1>1, <1>4, <3>1, NothingIsAll DEF RangeInv
    <3> QED  BY <1>1, <2>1, <3>2 DEF Silent, Nothing, Behind, Newest
  <2>3. ASSUME online'[PortOf[cur[p]]] = cur[p]  PROVE PortOf[cur[p]] \in seen'[p]
    <3>1. ~Untold(cur[p])
      BY <1>4, <2>1 DEF FreshInv
    <3>2. online[PortOf[cur[p]]] = cur[p]
      BY <2>1, <2>3, <3>1 DEF MapStep
    <3> QED  BY <1>4, <2>1, <2>3, <3>2 DEF RangeInv
  <2>4. LinkUp(cur[p])' => Behind(cur[p], c)'
    BY <2>2
  <2>5. online'[PortOf[cur'[p]]] = cur'[p] => PortOf[cur'[p]] \in seen'[p]
    BY <2>3
  <2> QED  BY <2>4, <2>5
<1> QED  BY <1>1, <1>2, <1>3, <1>4 DEF RangeInv

\* The range that starts with an announcement.
LEMMA RangeStarts ==
    ASSUME TypeInv, TypeInv', EchoInv', NEW c \in Conns, FreshInv(c), SaidInv(c),
           \A d \in Conns : FreshInv(d), NEW p \in Procs, NEW f \in Frames,
           pc'[p] = "range", frame'[p].who = c, seen'[p] = {},
           \A k \in Keys' : k \in todo'[p] \/ k = PortOf[c],
           said'[c] = Append(said[c], f), heard' = heard,
           \A k \in Keys' : LinkUp(online[k])' => Current(online'[k], c)
    PROVE  RangeInv(p)'
<1> DEFINE s == said[c]
<1>1. s \in Seq(Frames)
  BY DEF TypeInv, TypeOK
<1>2. ASSUME NEW d \in Conns, Current(d, c)
      PROVE  Behind(d, c)'
  <2>1. CASE Nothing(d, c)
    BY <2>1 DEF Nothing, Behind
  <2>2. CASE ~Nothing(d, c)
    <3>1. s # <<>> /\ Newest(heard[d][c]) = Newest(s)
      BY <1>2, <2>2 DEF FreshInv, Current
    <3> HIDE DEF s
    <3>2. /\ Len(Append(s, f)) > 1
          /\ Append(s, f)[Len(Append(s, f)) - 1] = s[Len(s)]
      BY <1>1, <3>1
    <3> QED  BY <3>1, <3>2 DEF Behind, Newest, s
  <2> QED  BY <2>1, <2>2
<1>3. ASSUME NEW k \in Keys', LinkUp(online[k])'
      PROVE  /\ k \in todo'[p] => Behind(online[k], c)'
             /\ k \notin todo'[p] => Nothing(online[k], c)'
  <2>1. k \in Ports /\ online'[k] \in Conns /\ PortOf[online'[k]] = k
    BY DEF Keys, TypeInv, TypeOK, EchoInv, EntriesKeyed
  <2>2. Behind(online[k], c)'
    BY <1>2, <1>3, <2>1
  <2>3. k = PortOf[c] => Nothing(online[k], c)'
    BY <2>1 DEF EchoInv, NoEcho, Nothing
  <2> QED  BY <2>2, <2>3
<1> QED  BY <1>3 DEF RangeInv

\* A range over the entries the map keeps: nothing is added to what it has
\* produced or has to produce, and only removed entries are taken away.
RangeStep(p) ==
    /\ todo'[p] \subseteq todo[p] /\ seen'[p] \subseteq seen[p]
    /\ \A k \in Ports : online'[k] # NoConn =>
           /\ k \in todo[p] => k \in todo'[p]
           /\ k \in seen[p] => k \in seen'[p]

\* A step that says nothing and writes nothing.
LEMMA QuietStory ==
    ASSUME TypeInv, TypeInv', StoryInv, JoinFirst', LinkStep,
           UNCHANGED <<said, heard, took, cur>>,
           \A k \in Ports : online'[k] \in {online[k], NoConn},
           \A p \in Procs : /\ RangeStep(p)
                            /\ \/ pc'[p] = pc[p] /\ frame'[p] = frame[p]
                               \/ /\ pc[p] \notin {"range", "write"}
                                  /\ pc'[p] \notin {"range", "write"},
           \A c \in Conns : /\ pc'[c] = "none" <=> pc[c] = "none"
                            /\ pc'[c] \in {"read", "delete"} =>
                                  pc[c] \in {"read", "delete"}
    PROVE  StoryInv'
<1>1. StoryInOrder'
  BY DEF StoryInv, StoryInOrder
<1>2. MapStep /\ \A c \in Conns : Silent(c) /\ FreshInv(c)
  BY DEF MapStep, Silent, StoryInv
<1>3. \A p \in Procs : \A c : /\ Tells(p, c)' <=> Tells(p, c)
                              /\ Tells(p, c) => frame'[p] = frame[p]
  BY DEF Tells
<1>4. \A c \in Conns : Untold(c)' <=> Untold(c)
  BY <1>3, ProcsFacts DEF Untold
<1>5. ASSUME NEW c \in Conns  PROVE SaidInv(c)'
  BY <1>3, SaidKept, ProcsFacts DEF StoryInv
<1>6. ASSUME NEW d \in Conns  PROVE FreshInv(d)'
  <2>1. \A k \in Ports : online'[k] = d => online[k] = d
    BY ConnsAssumption
  <2>2. \A p \in Procs : pc'[p] = "write" => pc[p] = "write" /\ cur'[p] = cur[p]
    OBVIOUS
  <2> QED  BY <1>4, <2>1, <2>2, FreshKept DEF StoryInv
<1>7. ASSUME NEW c \in Conns  PROVE SettledInv(c)'
  BY <1>2, SettledKept DEF StoryInv
<1>8. ASSUME NEW p \in Procs  PROVE RangeInv(p)'
  <2>1. CASE pc'[p] = pc[p] /\ frame'[p] = frame[p]
    BY <1>2, <2>1, RangeKept, Subject DEF StoryInv, RangeStep
  <2>2. CASE pc'[p] \notin {"range", "write"}
    BY <2>2 DEF RangeInv
  <2> QED  BY <2>1, <2>2
<1> QED  BY <1>1, <1>5, <1>6, <1>7, <1>8 DEF StoryInv

\* Process p begins to broadcast f, about c.
LEMMA AnnouncedStory ==
    ASSUME TypeInv, TypeInv', EchoInv', Lifecycle, StoryInv, JoinFirst',
           MapStep, LinkStep,
           NEW p \in Procs, NEW c \in Conns, NEW f \in Frames, f.who = c,
           \/ p = Main /\ pc[Main] = "insert" /\ pc[c] = "none"
           \/ p = c /\ pc[c] \in {"read", "delete"},
           UNCHANGED <<heard, cur>>, said' = [said EXCEPT ![c] = Append(@, f)],
           pc'[p] = "range", frame'[p] = f, seen'[p] = {},
           \A q \in Procs \ {p} : /\ pc'[q] = pc[q] /\ frame'[q] = frame[q]
                                  /\ RangeStep(q),
           \A d \in Conns \ {c} : took'[d] = took[d],
           pc[c] = "none" => took'[c] = 0,
           said[c] # <<>> => Follows(Newest(said[c]), f),
           f.kind # "leave" => f.hi = took'[c],
           \A k \in Ports : online'[k] \in {online[k], NoConn, c},
           \A k \in Keys' : k \in todo'[p] \/ k = PortOf[c],
           \A k \in Keys' : LinkUp(online[k])' => Current(online'[k], c)
    PROVE  StoryInv'
<1>1. StoryInOrder'
  BY DEF StoryInv, StoryInOrder
<1>2. /\ \A d \in Conns : FreshInv(d)
      /\ \A d \in Conns \ {c} : Silent(d)
      /\ said'[c] = Append(said[c], f) /\ said'[c] # <<>>
      /\ c \in Procs /\ Main \in Procs /\ c # Main
  BY ProcsFacts DEF Silent, StoryInv, TypeInv, TypeOK
<1>3. /\ \A q \in Procs \ {p} : \A d : Tells(q, d)' <=> Tells(q, d)
      /\ \A d : Tells(p, d)' <=> d = c
      /\ \A d : ~Tells(p, d)
  BY DEF Tells
<1>4. \A q \in Procs \ {p} : ~Tells(q, c)
  BY OneTeller DEF Tells
<1>5. \A d \in Conns : Untold(d)' => Untold(d) /\ d # c
  BY <1>2, ProcsFacts DEF Untold, Tells
<1>6. ASSUME NEW d \in Conns  PROVE SaidInv(d)'
  <2>1. CASE d = c
    <3>1. \A q \in Procs : Tells(q, c)' => q = p
      BY <1>3, <1>4
    <3>2. pc'[c] \notin {"read", "delete"} /\ (pc'[c] = "none" => took'[c] = 0)
      BY <1>2
    <3>3. ~Untold(c)'
      BY <1>5
    <3> QED  BY <1>2, <2>1, <3>1, <3>2, <3>3, SaidTold DEF StoryInv
  <2>2. CASE d # c
    <3>1. /\ said'[d] = said[d] /\ took'[d] = took[d] /\ pc'[d] = pc[d]
      BY <1>2, <2>2, ProcsFacts DEF Silent
    <3>2. \A q \in Procs : Tells(q, d)' => Tells(q, d) /\ frame'[q] = frame[q]
      BY <1>3, <2>2
    <3>3. Tells(Main, d) => Tells(Main, d)'
      BY <1>2, <1>3
    <3> QED  BY <3>1, <3>2, <3>3, SaidKept DEF StoryInv
  <2> QED  BY <2>1, <2>2
<1>7. ASSUME NEW d \in Conns  PROVE FreshInv(d)'
  <2>1. \A k \in Ports : online'[k] = d => online[k] = d \/ ~Untold(d)'
    BY <1>5, ConnsAssumption
  <2>2. \A q \in Procs : pc'[q] = "write" => pc[q] = "write" /\ cur'[q] = cur[q]
    OBVIOUS
  <2>3. \A e \in Conns : said'[e] = <<>> => said[e] = <<>>
    BY <1>2 DEF Silent
  <2> QED  BY <1>5, <2>1, <2>2, <2>3, FreshKept DEF StoryInv
<1>8. ASSUME NEW d \in Conns  PROVE SettledInv(d)'
  <2>1. CASE d = c
    <3>1. pc'[c] \notin {"read", "delete"}
      BY <1>2
    <3> QED  BY <2>1, <3>1 DEF SettledInv
  <2>2. CASE d # c
    BY <1>2, <2>2, SettledKept, ProcsFacts DEF StoryInv
  <2> QED  BY <2>1, <2>2
<1>9. ASSUME NEW q \in Procs  PROVE RangeInv(q)'
  <2>1. CASE q = p
    BY <1>2, <2>1, RangeStarts DEF StoryInv
  <2>2. CASE q # p
    <3>1. pc[q] \in {"range", "write"} => Silent(frame[q].who)
      BY <1>2, <1>4, <2>2, Subject
    <3> QED  BY <1>2, <2>2, <3>1, RangeKept DEF StoryInv, RangeStep
  <2> QED  BY <2>1, <2>2
<1> QED  BY <1>1, <1>6, <1>7, <1>8, <1>9 DEF StoryInv

LEMMA RangeStory ==
    ASSUME TypeInv, TypeInv', EchoInv, StoryInv,
           NEW p \in Procs, NEW k \in Ports, Range(p, k)
    PROVE  StoryInv'
<1>1. /\ UNCHANGED <<online, frame, said, heard, took, cl, end>>
      /\ pc[p] = "range" /\ pc'[p] = "write"
      /\ \A q \in Procs \ {p} : /\ pc'[q] = pc[q] /\ cur'[q] = cur[q]
                                /\ todo'[q] = todo[q] /\ seen'[q] = seen[q]
      /\ cur'[p] = online[k] /\ k \in Keys /\ k \notin seen[p]
      /\ todo'[p] = todo[p] \ {k} /\ seen'[p] = seen[p] \cup {k}
  BY DEF Range, Producible, client, TypeInv, TypeOK
<1>2. PICK c \in Conns : c = frame[p].who /\ frame'[p].who = c
  BY <1>1, Subject
<1>3. /\ \A d \in Conns : FreshInv(d) /\ Silent(d) /\ (LinkUp(d)' <=> LinkUp(d))
      /\ \A q \in Procs : \A d : Tells(q, d)' <=> Tells(q, d)
      /\ \A d \in Conns : Untold(d)' <=> Untold(d)
  <2>1. \A q \in Procs : \A d : Tells(q, d)' <=> Tells(q, d)
    BY <1>1 DEF Tells
  <2>2. \A d \in Conns : pc'[d] = "done" <=> pc[d] = "done"
    BY <1>1, ProcsFacts
  <2>3. \A d \in Conns : Untold(d)' <=> Untold(d)
    BY <1>1, <2>1, ProcsFacts DEF Untold
  <2> QED  BY <1>1, <2>1, <2>2, <2>3 DEF Silent, LinkUp, StoryInv
<1>4. MapStep /\ LinkStep
  BY <1>1, <1>3 DEF MapStep, LinkStep
<1>5. StoryInOrder' /\ JoinFirst'
  BY <1>1, ProcsFacts DEF StoryInv, StoryInOrder, JoinFirst
<1>6. ASSUME NEW d \in Conns  PROVE SaidInv(d)'
  BY <1>1, <1>3, SaidKept, ProcsFacts DEF StoryInv
<1>7. ASSUME NEW d \in Conns  PROVE FreshInv(d)'
  <2>1. \A q \in Procs : pc'[q] = "write" =>
           \/ pc[q] = "write" /\ cur'[q] = cur[q]
           \/ \E j \in Ports : online[j] = cur'[q]
    BY <1>1
  <2> QED  BY <1>1, <1>3, <2>1, FreshKept
<1>8. ASSUME NEW d \in Conns  PROVE SettledInv(d)'
  BY <1>1, <1>3, <1>4, SettledKept, ProcsFacts DEF StoryInv
<1>9. ASSUME NEW q \in Procs  PROVE RangeInv(q)'
  <2>1. CASE q = p
    <3>1. /\ \A j \in Keys : LinkUp(online[j]) =>
                /\ j \in todo[p] => Behind(online[j], c)
                /\ j \in seen[p] => Current(online[j], c)
                /\ j \notin todo[p] \cup seen[p] => Nothing(online[j], c)
          /\ todo[p] \cap seen[p] = {}
      BY <1>1, <1>2 DEF StoryInv, RangeInv
    <3>2. Keys' = Keys
      BY <1>1 DEF Keys
    <3>3. \A j \in Keys : /\ Behind(online[j], c)' <=> Behind(online[j], c)
                          /\ Current(online[j], c)' <=> Current(online[j], c)
                          /\ Nothing(online[j], c)' <=> Nothing(online[j], c)
      BY <1>1 DEF Behind, Current, Nothing, Newest
    <3>4. \A j \in Keys : online[j] \in Conns /\ PortOf[online[j]] = j
      BY KeysType DEF EchoInv, EntriesKeyed, Keys
    <3>5. \A j \in Keys : LinkUp(online[j])' => LinkUp(online[j])
      BY <1>1, <1>3, <3>4 DEF LinkUp
    <3>6. ASSUME NEW j \in Keys, LinkUp(online[j])'
          PROVE  /\ j \in todo'[p] => Behind(online[j], c)'
                 /\ j \in seen'[p] => \/ pc'[p] = "write" /\ cur'[p] = online'[j]
                                      \/ Current(online[j], c)'
                 /\ j \notin todo'[p] \cup seen'[p] => Nothing(online[j], c)'
      <4>1. LinkUp(online[j])
        BY <3>5, <3>6
      <4>2. /\ j \in todo'[p] => Behind(online[j], c)
            /\ j # k /\ j \in seen'[p] => Current(online[j], c)
            /\ j \notin todo'[p] \cup seen'[p] => Nothing(online[j], c)
        BY <1>1, <3>1, <4>1
      <4>3. j = k => pc'[p] = "write" /\ cur'[p] = online'[j]
        BY <1>1
      <4> QED  BY <3>3, <4>2, <4>3
    <3>7. LinkUp(cur[p])' => Behind(cur[p], c)'
      <4>1. LinkUp(cur[p])' => LinkUp(online[k])
        BY <1>1, <3>5 DEF LinkUp
      <4>2. LinkUp(online[k]) => Behind(online[k], c)
        BY <1>1, <3>1, NothingIsAll
      <4> QED  BY <1>1, <4>1, <4>2 DEF Behind, Nothing, Newest
    <3>8. PortOf[cur'[p]] \in seen'[p]
      BY <1>1, <3>4
    <3>9. todo'[p] \cap seen'[p] = {}
      BY <1>1, <3>1
    <3> QED  BY <1>2, <2>1, <3>2, <3>6, <3>7, <3>8, <3>9 DEF RangeInv
  <2>2. CASE q # p
    <3>1. pc[q] \in {"range", "write"} => Silent(frame[q].who)
      BY <1>3, Subject
    <3> QED  BY <1>1, <1>3, <1>4, <2>2, <3>1, RangeKept DEF StoryInv
  <2> QED  BY <2>1, <2>2
<1> QED  BY <1>5, <1>6, <1>7, <1>8, <1>9 DEF StoryInv

LEMMA EndRangeStory ==
    ASSUME TypeInv, TypeInv', EchoInv, Lifecycle, StoryInv,
           NEW p \in Procs, EndRange(p)
    PROVE  StoryInv'
<1>1. PICK c \in Conns : c = frame[p].who /\ Tells(p, c) /\ frame[p] \in Frames
  BY Subject DEF EndRange
<1>2. /\ UNCHANGED <<online, said, heard, took, cl, end, cur>>
      /\ pc[p] = "range" /\ todo[p] = {}
      /\ \A q \in Procs \ {p} : /\ frame'[q] = frame[q]
                                /\ todo'[q] = todo[q] /\ seen'[q] = seen[q]
      /\ c \in Procs /\ c # Main
  BY <1>1, ProcsFacts DEF EndRange, RangeOver, client, TypeInv, TypeOK
<1>3. /\ pc'[p] \notin {"range", "write"}
      /\ pc[c] \notin {"read", "delete", "done"}
      /\ pc'[c] = IF frame[p].kind = "leave" THEN "done" ELSE "read"
      /\ \A q \in Procs \ {p, c} : pc'[q] = pc[q]
  <2>1. CASE p = Main
    <3>1. frame[Main].kind = "join" /\ pc[c] = "none"
      BY <1>1, <1>2, <2>1, OneTeller DEF StoryInv, JoinFirst, Note
    <3> QED  BY <1>1, <1>2, <2>1, <3>1 DEF EndRange, TypeInv, TypeOK
  <2>2. CASE p # Main
    <3>1. p = c /\ pc[c] \notin {"read", "delete", "done"}
      BY <1>1, <2>2, OneTeller
    <3> QED  BY <1>1, <1>2, <2>2, <3>1 DEF EndRange, TypeInv, TypeOK
  <2> QED  BY <2>1, <2>2
<1>4. /\ \A q \in Procs \ {p} : ~Tells(q, c)
      /\ c # p => pc[c] \notin {"range", "write"}
  <2>1. \A q \in Procs \ {p} : ~Tells(q, c)
    BY <1>1, OneTeller
  <2> QED  BY <1>1, <1>2, <2>1, OneTeller
<1>5. /\ \A d \in Conns : FreshInv(d) /\ Silent(d)
      /\ \A d \in Conns : LinkUp(d)' => LinkUp(d)
      /\ \A q \in Procs : \A d : Tells(q, d)' => Tells(q, d) /\ q # p
      /\ \A d \in Conns : Untold(d)' => Untold(d)
  <2>1. \A q \in Procs : \A d : Tells(q, d)' => Tells(q, d) /\ q # p
    BY <1>2, <1>3 DEF Tells
  <2>2. \A d \in Conns : LinkUp(d)' => LinkUp(d)
    BY <1>2, <1>3, ProcsFacts DEF LinkUp
  <2>3. \A d \in Conns : Untold(d)' => Untold(d)
    <3>1. ASSUME NEW d \in Conns, Untold(d)'  PROVE Untold(d)
      <4>1. d # c /\ (d # p => pc[d] = "none") /\ d # Main /\ pc'[d] = "none"
        BY <1>2, <1>3, <3>1, ProcsFacts DEF Untold
      <4>2. d # p
        BY <1>1, <1>2, <4>1, OneTeller
      <4>3. ~Tells(Main, d)
        <5>1. CASE p = Main
          BY <1>1, <4>1, <5>1 DEF Tells
        <5>2. CASE p # Main
          BY <1>2, <1>3, <3>1, <5>2, ProcsFacts DEF Untold, Tells
        <5> QED  BY <5>1, <5>2
      <4> QED  BY <4>1, <4>2, <4>3 DEF Untold
    <3> QED  BY <3>1
  <2> QED  BY <1>2, <2>1, <2>2, <2>3 DEF Silent, StoryInv
<1>6. MapStep /\ LinkStep
  BY <1>2, <1>5 DEF MapStep, LinkStep
<1>7. StoryInOrder' /\ JoinFirst'
  <2>1. pc'[Main] # "accept" => p # Main /\ pc'[Main] = pc[Main] /\ frame'[Main] = frame[Main]
    BY <1>2, <1>3, ProcsFacts DEF EndRange, TypeInv, TypeOK
  <2> QED  BY <1>2, <2>1 DEF StoryInv, StoryInOrder, JoinFirst
<1>8. ASSUME NEW d \in Conns  PROVE SaidInv(d)'
  <2>1. CASE d = c
    <3>1. /\ said[c] # <<>> /\ Newest(said[c]) = frame[p]
          /\ frame[p].kind # "leave" => frame[p].hi = took[c]
      BY <1>1 DEF StoryInv, SaidInv
    <3>2. \A q \in Procs : ~Tells(q, c)'
      BY <1>4, <1>5
    <3>3. ~Untold(c)' /\ pc'[c] # "none"
      BY <1>3 DEF Untold
    <3>4. \A i \in 1 .. Len(said'[c]) - 1 : Follows(said'[c][i], said'[c][i + 1])
      BY <1>2 DEF StoryInv, SaidInv
    <3> QED  BY <1>2, <1>3, <2>1, <3>1, <3>2, <3>3, <3>4 DEF SaidInv, Newest
  <2>2. CASE d # c
    <3>1. pc'[d] = pc[d]
      BY <1>1, <1>3, <2>2, OneTeller, ProcsFacts
    <3>2. Tells(Main, d) => Tells(Main, d)'
      BY <1>1, <1>2, <1>3, <2>2, ProcsFacts DEF Tells
    <3>3. \A q \in Procs : Tells(q, d)' => Tells(q, d) /\ frame'[q] = frame[q]
      BY <1>2, <1>5
    <3> QED  BY <1>2, <3>1, <3>2, <3>3, SaidKept DEF StoryInv
  <2> QED  BY <2>1, <2>2
<1>9. ASSUME NEW d \in Conns  PROVE FreshInv(d)'
  <2>1. \A q \in Procs : pc'[q] = "write" => pc[q] = "write"
    BY <1>3
  <2> QED  BY <1>2, <1>5, <2>1, FreshKept
<1>10. ASSUME NEW d \in Conns  PROVE SettledInv(d)'
  <2>1. CASE d = c
    <3>1. \A j \in Keys : LinkUp(online[j]) => Current(online[j], c)
      BY <1>1, <1>2, NothingIsAll DEF StoryInv, RangeInv
    <3>2. ASSUME NEW j \in Keys', LinkUp(online[j])'
          PROVE  Current(online[j], c)'
      <4>1. j \in Keys /\ online[j] \in Conns
        BY <1>2, KeysType DEF Keys
      <4>2. LinkUp(online[j])
        BY <1>2, <1>3, <3>2, <4>1, <1>5 DEF LinkUp
      <4> QED  BY <1>2, <3>1, <4>1, <4>2 DEF Current, Nothing, Newest
    <3> QED  BY <2>1, <3>2 DEF SettledInv
  <2>2. CASE d # c
    <3>1. pc'[d] = pc[d]
      BY <1>1, <1>3, <2>2, OneTeller, ProcsFacts
    <3> QED  BY <1>5, <1>6, <3>1, SettledKept DEF StoryInv
  <2> QED  BY <2>1, <2>2
<1>11. ASSUME NEW q \in Procs  PROVE RangeInv(q)'
  <2>1. CASE pc'[q] = pc[q] /\ q # p
    <3>1. pc[q] \in {"range", "write"} => Silent(frame[q].who)
      BY <1>5, Subject
    <3> QED  BY <1>2, <1>5, <1>6, <2>1, <3>1, RangeKept DEF StoryInv
  <2>2. CASE q = p \/ q = c
    BY <1>3, <2>2 DEF RangeInv
  <2> QED  BY <1>3, <2>1, <2>2
<1> QED  BY <1>7, <1>8, <1>9, <1>10, <1>11 DEF StoryInv

\* What is written continues what its receiver has heard, if the connection
\* can still carry it.
LEMMA Written ==
    ASSUME TypeInv, StoryInv, NEW p \in Procs, NEW c \in Conns, NEW d \in Conns,
           pc[p] = "write", c = frame[p].who, d = cur[p], Write(p)
    PROVE  /\ said[c] # <<>>
           /\ ~LinkUp(d) => heard' = heard
           /\ LinkUp(d) => /\ heard'[d][c] # <<>>
                           /\ Newest(heard'[d][c]) = Newest(said[c])
                           /\ \A i \in 1 .. Len(heard'[d][c]) - 1 :
                                 Follows(heard'[d][c][i], heard'[d][c][i + 1])
           /\ \A e, b \in Conns : e # d \/ b # c => heard'[e][b] = heard[e][b]
<1> DEFINE h == heard[d][c]
           f == frame[p]
           s == said[c]
<1>1. h \in Seq(Frames) /\ f \in Frames /\ s \in Seq(Frames)
  BY Subject DEF TypeInv, TypeOK
<1>2. s # <<>> /\ Newest(s) = f
  BY Subject DEF StoryInv, SaidInv
<1>3. heard' = IF LinkUp(d) THEN [heard EXCEPT ![d][c] = Append(@, f)] ELSE heard
  BY DEF Write
<1>4. \A e, b \in Conns : e # d \/ b # c => heard'[e][b] = heard[e][b]
  BY <1>3 DEF TypeInv, TypeOK
<1>5. ASSUME LinkUp(d)
      PROVE  /\ heard'[d][c] # <<>>
             /\ Newest(heard'[d][c]) = Newest(s)
             /\ \A i \in 1 .. Len(heard'[d][c]) - 1 :
                   Follows(heard'[d][c][i], heard'[d][c][i + 1])
  <2>1. heard'[d][c] = Append(h, f)
    BY <1>3, <1>5 DEF TypeInv, TypeOK
  <2>2. h # <<>> => Follows(Newest(h), f)
    <3>1. Behind(d, c)
      BY <1>5 DEF StoryInv, RangeInv
    <3>2. h # <<>> => /\ Len(s) - 1 \in 1 .. Len(s) - 1
                      /\ Newest(h) = s[Len(s) - 1]
                      /\ s[(Len(s) - 1) + 1] = f
      <4>1. Len(s) \in Nat /\ s[Len(s)] = f
        BY <1>1, <1>2 DEF Newest
      <4>2. h # <<>> => Len(s) > 1 /\ Newest(h) = s[Len(s) - 1]
        BY <3>1 DEF Behind, Nothing
      <4> HIDE DEF s, f, h
      <4> QED  BY <4>1, <4>2
    <3>3. \A i \in 1 .. Len(s) - 1 : Follows(s[i], s[i + 1])
      BY DEF StoryInv, SaidInv
    <3> HIDE DEF s, f, h
    <3> QED  BY <3>2, <3>3
  <2>3. \A i \in 1 .. Len(h) - 1 : Follows(h[i], h[i + 1])
    BY DEF StoryInv, StoryInOrder
  <2> DEFINE t == Append(h, f)
  <2> HIDE DEF h, f, s
  <2>4. /\ Len(h) \in Nat
        /\ Len(t) = Len(h) + 1 /\ t[Len(h) + 1] = f /\ t # <<>>
        /\ \A i \in 1 .. Len(h) : t[i] = h[i]
        /\ h = <<>> <=> Len(h) = 0
    BY <1>1
  <2> HIDE DEF t
  <2>5. ASSUME NEW i \in 1 .. Len(t) - 1
        PROVE  Follows(t[i], t[i + 1])
    <3>1. CASE i < Len(h)
      <4>1. i \in 1 .. Len(h) - 1 /\ t[i] = h[i] /\ t[i + 1] = h[i + 1]
        BY <2>4, <3>1
      <4> QED  BY <4>1, <2>3
    <3>2. CASE i = Len(h)
      BY <2>2, <2>4, <3>2 DEF Newest
    <3> QED  BY <2>4, <3>1, <3>2
  <2>6. Newest(t) = Newest(s)
    BY <1>2, <2>4 DEF Newest
  <2>7. heard'[d][c] = t
    BY <2>1 DEF t
  <2> QED  BY <2>4, <2>5, <2>6, <2>7
<1> QED  BY <1>2, <1>3, <1>4, <1>5

LEMMA WriteStory ==
    ASSUME TypeInv, TypeInv', EchoInv, Lifecycle, StoryInv,
           NEW p \in Procs, Write(p)
    PROVE  StoryInv'
<1>1. /\ UNCHANGED <<online, frame, todo, seen, said, took, cl, end>>
      /\ pc[p] = "write" /\ pc'[p] = "range"
      /\ \A q \in Procs \ {p} : pc'[q] = pc[q] /\ cur'[q] = cur[q]
  BY DEF Write, client, TypeInv, TypeOK
<1>2. PICK c \in Conns : c = frame[p].who /\ Tells(p, c)
  BY <1>1, Subject
<1>3. PICK d \in Conns : d = cur[p]
  BY <1>1 DEF TypeInv, FrameOK
<1>4. /\ said[c] # <<>>
      /\ ~LinkUp(d) => heard' = heard
      /\ LinkUp(d) => /\ heard'[d][c] # <<>>
                      /\ Newest(heard'[d][c]) = Newest(said[c])
                      /\ \A i \in 1 .. Len(heard'[d][c]) - 1 :
                            Follows(heard'[d][c][i], heard'[d][c][i + 1])
      /\ \A e, b \in Conns : e # d \/ b # c => heard'[e][b] = heard[e][b]
  BY <1>1, <1>2, <1>3, Written
<1>5. /\ \A e \in Conns : FreshInv(e)
      /\ \A e \in Conns \ {c} : Silent(e)
      /\ \A e \in Conns : LinkUp(e)' <=> LinkUp(e)
      /\ \A q \in Procs : \A e : Tells(q, e)' <=> Tells(q, e)
      /\ \A e \in Conns : Untold(e)' <=> Untold(e)
  <2>1. \A q \in Procs : \A e : Tells(q, e)' <=> Tells(q, e)
    BY <1>1 DEF Tells
  <2>2. \A e \in Conns : /\ pc'[e] = "done" <=> pc[e] = "done"
                         /\ pc'[e] = "none" <=> pc[e] = "none"
    BY <1>1, ProcsFacts
  <2>3. \A e \in Conns : LinkUp(e)' <=> LinkUp(e)
    BY <1>1, <2>2 DEF LinkUp
  <2>4. \A e \in Conns : Untold(e)' <=> Untold(e)
    BY <2>1, <2>2, ProcsFacts DEF Untold
  <2> QED  BY <1>1, <1>4, <2>1, <2>3, <2>4 DEF Silent, StoryInv
<1>6. MapStep /\ LinkStep
  BY <1>1, <1>5 DEF MapStep, LinkStep
<1>7. StoryInOrder' /\ JoinFirst'
  <2>1. JoinFirst'
    BY <1>1, ProcsFacts DEF StoryInv, JoinFirst, TypeInv, RoleOK
  <2>2. ASSUME NEW e \in Conns, NEW b \in Conns
        PROVE  \A i \in 1 .. Len(heard'[e][b]) - 1 :
                  Follows(heard'[e][b][i], heard'[e][b][i + 1])
    <3>1. CASE heard'[e][b] = heard[e][b]
      BY <3>1 DEF StoryInv, StoryInOrder
    <3>2. CASE e = d /\ b = c /\ LinkUp(d)
      BY <1>4, <3>2
    <3> QED  BY <1>4, <3>1, <3>2
  <2> QED  BY <2>1, <2>2 DEF StoryInOrder
<1>8. ASSUME NEW b \in Conns  PROVE SaidInv(b)'
  BY <1>1, <1>5, SaidKept, ProcsFacts DEF StoryInv
<1>9. ASSUME NEW e \in Conns  PROVE FreshInv(e)'
  <2>1. ~Untold(d)
    BY <1>1, <1>3, <1>5 DEF FreshInv
  <2>2. \A b \in Conns : \/ heard'[e][b] = heard[e][b]
                         \/ ~Untold(e)' /\ said'[b] # <<>>
    BY <1>1, <1>4, <1>5, <2>1
  <2>3. \A q \in Procs : pc'[q] = "write" => pc[q] = "write" /\ cur'[q] = cur[q]
    BY <1>1
  <2> QED  BY <1>1, <1>5, <2>2, <2>3, FreshKept
<1>10. ASSUME NEW b \in Conns  PROVE SettledInv(b)'
  <2>1. CASE b = c
    <3>1. pc'[c] \notin {"read", "delete"}
      BY <1>1, <1>2, OneTeller, ProcsFacts
    <3> QED  BY <2>1, <3>1 DEF SettledInv
  <2>2. CASE b # c
    BY <1>1, <1>5, <1>6, <2>2, SettledKept, ProcsFacts DEF StoryInv
  <2> QED  BY <2>1, <2>2
<1>11. ASSUME NEW q \in Procs  PROVE RangeInv(q)'
  <2>1. CASE q = p
    <3>1. /\ todo[p] \cap seen[p] = {}
          /\ \A j \in Keys : LinkUp(online[j]) =>
                /\ j \in todo[p] => Behind(online[j], c)
                /\ j \in seen[p] => d = online[j] \/ Current(online[j], c)
                /\ j \notin todo[p] \cup seen[p] => Nothing(online[j], c)
          /\ online[PortOf[d]] = d => PortOf[d] \in seen[p]
      BY <1>1, <1>2, <1>3 DEF StoryInv, RangeInv
    <3>2. Keys' = Keys
      BY <1>1 DEF Keys
    <3>3. \A j \in Keys : online[j] \in Conns /\ PortOf[online[j]] = j
      BY KeysType DEF EchoInv, EntriesKeyed, Keys
    <3>4. ASSUME NEW j \in Keys, LinkUp(online[j])'
          PROVE  /\ j \in todo'[p] => Behind(online[j], c)'
                 /\ j \in seen'[p] => Current(online[j], c)'
                 /\ j \notin todo'[p] \cup seen'[p] => Nothing(online[j], c)'
      <4>1. LinkUp(online[j])
        BY <1>1, <1>5, <3>3, <3>4 DEF LinkUp
      <4>2. CASE online[j] = d
        <5>1. j \in seen[p] /\ j \notin todo[p]
          BY <3>1, <3>3, <4>2
        <5>2. Current(d, c)'
          BY <1>1, <1>3, <1>4, <4>1, <4>2 DEF Current
        <5>3. Current(online[j], c)'
          BY <1>1, <4>2, <5>2 DEF Current, Nothing
        <5> QED  BY <1>1, <5>1, <5>3
      <4>3. CASE online[j] # d
        <5>1. heard'[online[j]][c] = heard[online[j]][c]
          BY <1>4, <3>3, <4>3
        <5>2. /\ Behind(online[j], c) => Behind(online[j], c)'
              /\ Current(online[j], c) => Current(online[j], c)'
              /\ Nothing(online[j], c) => Nothing(online[j], c)'
          BY <1>1, <5>1 DEF Nothing, Behind, Current, Newest
        <5> QED  BY <1>1, <3>1, <4>1, <4>3, <5>2
      <4> QED  BY <4>2, <4>3
    <3> QED  BY <1>1, <1>2, <2>1, <3>1, <3>2, <3>4 DEF RangeInv
  <2>2. CASE q # p
    <3>1. pc[q] \in {"range", "write"} => frame[q].who \in Conns \ {c}
      BY <1>2, <2>2, Subject, OneTeller
    <3> QED  BY <1>1, <1>5, <1>6, <2>2, <3>1, RangeKept DEF StoryInv
  <2> QED  BY <2>1, <2>2
<1> QED  BY <1>7, <1>8, <1>9, <1>10, <1>11 DEF StoryInv

LEMMA LinkKept ==
    ASSUME UNCHANGED <<cl, end>>,
           \A d \in Conns : pc[d] = "done" => pc'[d] = "done"
    PROVE  LinkStep
BY DEF LinkStep, LinkUp

LEMMA AcceptStory ==
    ASSUME TypeInv, TypeInv', StoryInv, Accept
    PROVE  StoryInv'
<1>1. /\ UNCHANGED <<online, said, heard, took, cur, todo, seen, cl, end>>
      /\ pc[Main] = "accept" /\ pc'[Main] = "insert"
      /\ frame'[Main] = Note("join", Head(backlog))
      /\ \A p \in Procs \ {Main} : pc'[p] = pc[p] /\ frame'[p] = frame[p]
  BY ProcsFacts DEF Accept, client, TypeInv, TypeOK
<1>2. JoinFirst'
  BY <1>1 DEF JoinFirst, Note
<1>3. LinkStep
  BY <1>1, LinkKept, ProcsFacts
<1>4. \A p \in Procs : RangeStep(p)
  BY <1>1 DEF RangeStep
<1>5. \A p \in Procs : \/ pc'[p] = pc[p] /\ frame'[p] = frame[p]
                       \/ /\ pc[p] \notin {"range", "write"}
                          /\ pc'[p] \notin {"range", "write"}
  BY <1>1
<1> QED  BY <1>1, <1>2, <1>3, <1>4, <1>5, QuietStory, ProcsFacts

LEMMA ReadErrStory ==
    ASSUME TypeInv, TypeInv', StoryInv, NEW c \in Conns, ReadErr(c)
    PROVE  StoryInv'
<1>1. /\ UNCHANGED <<online, said, heard, took, cur, todo, seen, frame, cl, end>>
      /\ pc[c] = "read" /\ pc'[c] = "delete"
      /\ \A p \in Procs \ {c} : pc'[p] = pc[p]
  BY ProcsFacts DEF ReadErr, client, TypeInv, TypeOK
<1>2. JoinFirst'
  BY <1>1, ProcsFacts DEF StoryInv, JoinFirst
<1>3. LinkStep
  BY <1>1, LinkKept, ProcsFacts
<1>4. \A p \in Procs : RangeStep(p)
  BY <1>1 DEF RangeStep
<1>5. \A p \in Procs : \/ pc'[p] = pc[p] /\ frame'[p] = frame[p]
                       \/ /\ pc[p] \notin {"range", "write"}
                          /\ pc'[p] \notin {"range", "write"}
  BY <1>1
<1> QED  BY <1>1, <1>2, <1>3, <1>4, <1>5, QuietStory, ProcsFacts

LEMMA InsertStory ==
    ASSUME TypeInv, TypeInv', EchoInv', Lifecycle, StoryInv, Insert
    PROVE  StoryInv'
<1>1. PICK c \in Conns : c = frame[Main].who
  BY MainConn DEF Insert
<1> DEFINE f == frame[Main]
<1>2. /\ UNCHANGED <<cur, heard, took, cl, end>>
      /\ pc[Main] = "insert" /\ pc'[Main] = "range"
      /\ f \in Frames /\ f.who = c /\ frame' = frame
      /\ \A q \in Procs \ {Main} : /\ pc'[q] = pc[q] /\ todo'[q] = todo[q]
                                   /\ seen'[q] = seen[q]
      /\ said' = [said EXCEPT ![c] = Append(@, f)]
      /\ todo'[Main] = Keys \ {PortOf[c]} /\ seen'[Main] = {}
      /\ \A k \in Ports : online'[k] = IF k = PortOf[c] THEN c ELSE online[k]
  BY <1>1, MainConn, ProcsFacts
     DEF Insert, StartBroadcast, AfterInsert, OwnKey, NewEntry, client, TypeInv, TypeOK
<1>3. pc[c] = "none" /\ Untold(c)
  BY <1>1, <1>2 DEF Lifecycle, Untold, Tells
<1>4. said[c] = <<>> /\ took[c] = 0 /\ f.hi = 0
  BY <1>1, <1>2, <1>3 DEF StoryInv, SaidInv, JoinFirst, Note
<1>5. MapStep
  BY <1>2, <1>3 DEF MapStep
<1>6. LinkStep
  BY <1>2, LinkKept, ProcsFacts
<1>7. \A q \in Procs \ {Main} : RangeStep(q)
  BY <1>2 DEF RangeStep
<1>8. ASSUME NEW k \in Keys'
      PROVE  (k \in todo'[Main] \/ k = PortOf[c]) /\ Current(online'[k], c)
  <2>1. k \in Ports /\ online'[k] \in Conns /\ online'[k] # NoConn
    BY ConnsAssumption DEF Keys, TypeInv, TypeOK
  <2>2. k \in todo'[Main] \/ k = PortOf[c]
    BY <1>2, <2>1 DEF Keys
  <2>3. Nothing(online'[k], c)
    BY <1>4, <2>1 DEF StoryInv, FreshInv
  <2> QED  BY <2>2, <2>3, NothingIsAll
<1>9. JoinFirst'
  BY <1>2 DEF StoryInv, JoinFirst
<1>10. \A k \in Ports : online'[k] \in {online[k], NoConn, c}
  BY <1>2
<1>11. frame'[Main] = f /\ \A q \in Procs \ {Main} : frame'[q] = frame[q]
  BY <1>2
<1>12. \A q \in Procs \ {Main} : /\ pc'[q] = pc[q] /\ frame'[q] = frame[q]
                                 /\ RangeStep(q)
  BY <1>2, <1>7, <1>11
<1>13. /\ said[c] # <<>> => Follows(Newest(said[c]), f)
       /\ f.kind # "leave" => f.hi = took'[c]
       /\ pc[c] = "none" => took'[c] = 0
       /\ \A d \in Conns \ {c} : took'[d] = took[d]
  BY <1>2, <1>4
<1>14. /\ \A k \in Keys' : k \in todo'[Main] \/ k = PortOf[c]
       /\ \A k \in Keys' : LinkUp(online[k])' => Current(online'[k], c)
  BY <1>8
<1>15. /\ UNCHANGED <<heard, cur>> /\ said' = [said EXCEPT ![c] = Append(@, f)]
       /\ pc'[Main] = "range" /\ frame'[Main] = f /\ seen'[Main] = {}
       /\ f \in Frames /\ f.who = c /\ pc[Main] = "insert" /\ Main \in Procs
  BY <1>2, <1>11, ProcsFacts
<1> HIDE DEF f
<1> QED
  BY <1>3, <1>5, <1>6, <1>9, <1>10, <1>12, <1>13, <1>14, <1>15, AnnouncedStory

LEMMA ReadStory ==
    ASSUME TypeInv, TypeInv', EchoInv', Lifecycle, StoryInv,
           NEW c \in Conns, Read(c)
    PROVE  StoryInv'
<1>1. PICK hi \in took[c] + 1 .. wrote[c] :
         /\ StartBroadcast(c, Chunk(c, took[c] + 1, hi), Keys)
         /\ pc' = [pc EXCEPT ![c] = "range"]
         /\ took' = [took EXCEPT ![c] = hi]
  BY DEF Read
<1> DEFINE f == Chunk(c, took[c] + 1, hi)
<1>2. took[c] \in Nat /\ wrote[c] \in Nat /\ hi \in Nat
  BY DEF TypeInv, TypeOK
<1>3. /\ f \in Frames /\ f.who = c /\ f.kind = "say"
      /\ f.lo = took[c] + 1 /\ f.hi = hi /\ hi >= took[c] + 1
  BY <1>2, ChunkType DEF Chunk
<1> HIDE DEF f
<1>0. /\ frame' = [frame EXCEPT ![c] = f]
      /\ said' = [said EXCEPT ![c] = Append(@, f)]
      /\ todo' = [todo EXCEPT ![c] = Keys \ {PortOf[c]}]
      /\ seen' = [seen EXCEPT ![c] = {}]
  BY <1>1, <1>3 DEF StartBroadcast, f
<1>4. /\ UNCHANGED <<online, cur, heard, cl, end>>
      /\ pc[c] = "read" /\ pc'[c] = "range" /\ frame'[c] = f
      /\ \A q \in Procs \ {c} : /\ pc'[q] = pc[q] /\ todo'[q] = todo[q]
                                /\ seen'[q] = seen[q] /\ frame'[q] = frame[q]
      /\ said' = [said EXCEPT ![c] = Append(@, f)]
      /\ todo'[c] = Keys \ {PortOf[c]} /\ seen'[c] = {}
      /\ took'[c] = hi /\ \A d \in Conns \ {c} : took'[d] = took[d]
  BY <1>0, <1>1, <1>3, ProcsFacts DEF Read, client, TypeInv, TypeOK
<1>5. Follows(Newest(said[c]), f)
  BY <1>3, <1>4 DEF StoryInv, SaidInv, Follows
<1>6. MapStep /\ LinkStep
  BY <1>4, LinkKept, ProcsFacts DEF MapStep
<1>7. \A q \in Procs \ {c} : RangeStep(q)
  BY <1>4 DEF RangeStep
<1>8. ASSUME NEW k \in Keys'
      PROVE  /\ k \in todo'[c] \/ k = PortOf[c]
             /\ LinkUp(online[k])' => Current(online'[k], c)
  <2>1. k \in Keys /\ online[k] \in Conns /\ online'[k] = online[k]
    BY <1>4, KeysType DEF Keys
  <2>2. LinkUp(online[k])' => LinkUp(online[k])
    BY <1>4, <2>1, ProcsFacts DEF LinkUp
  <2>3. LinkUp(online[k]) => Current(online[k], c)
    BY <1>4, <2>1 DEF StoryInv, SettledInv
  <2> QED  BY <1>4, <2>1, <2>2, <2>3
<1>9. JoinFirst'
  BY <1>4, ProcsFacts DEF StoryInv, JoinFirst
<1>10. /\ \A k \in Ports : online'[k] \in {online[k], NoConn, c}
       /\ \A q \in Procs \ {c} : /\ pc'[q] = pc[q] /\ frame'[q] = frame[q]
                                 /\ RangeStep(q)
       /\ UNCHANGED <<heard, cur>> /\ c \in Procs
       /\ f.kind # "leave" => f.hi = took'[c]
  BY <1>3, <1>4, <1>7, ProcsFacts
<1>11. \A k \in Keys' : k \in todo'[c] \/ k = PortOf[c]
  BY <1>8
<1>12. \A k \in Keys' : LinkUp(online[k])' => Current(online'[k], c)
  BY <1>8
<1> QED
  BY <1>3, <1>4, <1>5, <1>6, <1>9, <1>10, <1>11, <1>12, AnnouncedStory

LEMMA DeleteStory ==
    ASSUME TypeInv, TypeInv', EchoInv', Lifecycle, StoryInv,
           NEW c \in Conns, Delete(c)
    PROVE  StoryInv'
<1> DEFINE g == PortOf[c]
           f == Note("leave", c)
<1>1. /\ UNCHANGED <<cur, heard, took, cl, end>> /\ pc[c] = "delete"
      /\ \A q \in Procs \ {c} : pc'[q] = pc[q] /\ frame'[q] = frame[q]
      /\ \A k \in Ports : online'[k] = IF k = g THEN NoConn ELSE online[k]
      /\ \A q \in Procs \ {c} : todo'[q] = todo[q] \ {g} /\ seen'[q] = seen[q] \ {g}
  BY ProcsFacts DEF Delete, Without, client, TypeInv, TypeOK
<1>2. /\ \A q \in Procs \ {c} : RangeStep(q)
      /\ MapStep
      /\ \A k \in Keys' : k \in Keys /\ k # g /\ online'[k] = online[k]
  BY <1>1 DEF RangeStep, MapStep, Keys
<1>3. JoinFirst'
  BY <1>1, ProcsFacts DEF StoryInv, JoinFirst
<1>4. CASE IsEof(c)
  <2>1. /\ pc'[c] = "range" /\ frame'[c] = f /\ seen'[c] = {}
        /\ said' = [said EXCEPT ![c] = Append(@, f)]
        /\ todo'[c] = Keys \ {g}
    BY <1>4, ProcsFacts DEF Delete, TypeInv, TypeOK
  <2>2. f \in Frames /\ f.who = c /\ f.kind = "leave"
    BY NoteType
  <2> HIDE DEF f
  <2>3. Follows(Newest(said[c]), f)
    BY <1>1, <2>2 DEF StoryInv, SaidInv, Follows
  <2>4. LinkStep
    BY <1>1, LinkKept, ProcsFacts
  <2>5. \A k \in Keys' : k \in todo'[c] \/ k = PortOf[c]
    BY <1>2, <2>1
  <2>6. ASSUME NEW k \in Keys', LinkUp(online[k])'
        PROVE  Current(online'[k], c)
    <3>1. k \in Keys /\ online[k] \in Conns /\ online'[k] = online[k]
      BY <1>2, KeysType
    <3>2. LinkUp(online[k])
      BY <1>1, <2>1, <2>6, <3>1, ProcsFacts DEF LinkUp
    <3> QED  BY <1>1, <3>1, <3>2 DEF StoryInv, SettledInv
  <2>7. /\ \A k \in Ports : online'[k] \in {online[k], NoConn, c}
        /\ \A q \in Procs \ {c} : /\ pc'[q] = pc[q] /\ frame'[q] = frame[q]
                                  /\ RangeStep(q)
        /\ \A d \in Conns \ {c} : took'[d] = took[d]
        /\ UNCHANGED <<heard, cur>> /\ c \in Procs /\ pc[c] = "delete"
    BY <1>1, <1>2, ProcsFacts
  <2> QED
    BY <1>2, <1>3, <2>1, <2>2, <2>3, <2>4, <2>5, <2>6, <2>7, AnnouncedStory
<1>5. CASE ~IsEof(c)
  <2>1. /\ pc'[c] = "done" /\ frame' = frame /\ said' = said
        /\ todo'[c] = todo[c] \ {g} /\ seen'[c] = seen[c] \ {g}
    BY <1>5, ProcsFacts DEF Delete, TypeInv, TypeOK
  <2>2. \A q \in Procs : RangeStep(q)
    BY <1>1, <1>2, <2>1 DEF RangeStep
  <2>3. LinkStep
    BY <1>1, <2>1, LinkKept, ProcsFacts
  <2>4. \A k \in Ports : online'[k] \in {online[k], NoConn}
    BY <1>1
  <2>5. \A q \in Procs : \/ pc'[q] = pc[q] /\ frame'[q] = frame[q]
                         \/ /\ pc[q] \notin {"range", "write"}
                            /\ pc'[q] \notin {"range", "write"}
    BY <1>1, <2>1
  <2>6. \A d \in Conns : /\ pc'[d] = "none" <=> pc[d] = "none"
                         /\ pc'[d] \in {"read", "delete"} => pc[d] \in {"read", "delete"}
    BY <1>1, <2>1, ProcsFacts
  <2>7. UNCHANGED <<said, heard, took, cur>>
    BY <1>1, <2>1
  <2> QED  BY <1>3, <2>2, <2>3, <2>4, <2>5, <2>6, <2>7, QuietStory
<1> QED  BY <1>4, <1>5

\* A client's connection comes up before main has accepted it, when nobody
\* can have written to it.
LEMMA OutsideStory ==
    ASSUME TypeInv, TypeInv', Lifecycle, StoryInv,
           UNCHANGED <<online, pc, frame, todo, seen, cur, said, heard, took>>,
           \A c \in Conns : LinkUp(c)' => LinkUp(c) \/ cl[c] = "idle"
    PROVE  StoryInv'
<1>1. ASSUME NEW c \in Conns, cl[c] = "idle"
      PROVE  \A b \in Conns : Nothing(c, b)
  <2>1. Untold(c)
    BY <1>1, ProcsFacts DEF Lifecycle, Untold, Tells
  <2> QED  BY <2>1 DEF StoryInv, FreshInv
<1>2. LinkStep
  BY <1>1 DEF LinkStep
<1>3. JoinFirst' /\ \A p \in Procs : RangeStep(p)
  BY DEF StoryInv, JoinFirst, RangeStep
<1> QED  BY <1>2, <1>3, QuietStory

LEMMA ClientStory ==
    ASSUME TypeInv, TypeInv', Lifecycle, StoryInv, NEW c \in Conns, Client(c)
    PROVE  StoryInv'
<1>1. UNCHANGED <<online, pc, frame, todo, seen, cur, said, heard, took>>
  BY DEF Client, Dial, DialFails, Send, Receive, ReceiverStops, Exit, Break, server, client
<1>2. \A d \in Conns : LinkUp(d)' => LinkUp(d) \/ cl[d] = "idle"
  <2>1. \A d \in Conns : cl'[d] = "up" => cl[d] \in {"up", "idle"}
    <3>1. cl' = cl \/ \E x : cl' = [cl EXCEPT ![c] = x] /\ (x = "up" => cl[c] = "idle")
      BY DEF Client, Dial, DialFails, Send, Receive, ReceiverStops, Exit, Break, client
    <3> QED  BY <3>1 DEF TypeInv, TypeOK
  <2>2. \A d \in Conns : end'[d] = "open" => end[d] = "open"
    <3>1. end' = end \/ \E x : end' = [end EXCEPT ![c] = x] /\ x # "open"
      BY DEF Client, Dial, DialFails, Send, Receive, ReceiverStops, Exit, Break, client
    <3> QED  BY <3>1 DEF TypeInv, TypeOK
  <2> QED  BY <1>1, <2>1, <2>2 DEF LinkUp
<1> QED  BY <1>1, <1>2, OutsideStory

LEMMA InitStory == Init => StoryInv
<1> SUFFICES ASSUME Init  PROVE StoryInv
  OBVIOUS
<1>1. /\ \A p \in Procs : pc[p] \in {"accept", "none"}
      /\ pc[Main] = "accept" /\ Keys = {}
      /\ \A c \in Conns : said[c] = <<>> /\ took[c] = 0 /\ pc[c] = "none"
      /\ \A d, c \in Conns : heard[d][c] = <<>>
  BY ProcsFacts DEF Init, Keys
<1>2. StoryInOrder /\ JoinFirst
  BY <1>1 DEF StoryInOrder, JoinFirst
<1>3. ASSUME NEW c \in Conns  PROVE SaidInv(c) /\ FreshInv(c) /\ SettledInv(c)
  <2>1. \A p \in Procs : ~Tells(p, c)
    BY <1>1 DEF Tells
  <2>2. SaidInv(c)
    BY <1>1, <2>1 DEF SaidInv
  <2>3. FreshInv(c)
    BY <1>1, ConnsAssumption DEF FreshInv, Nothing, Init
  <2>4. SettledInv(c)
    BY <1>1 DEF SettledInv
  <2> QED  BY <2>2, <2>3, <2>4
<1>4. ASSUME NEW p \in Procs  PROVE RangeInv(p)
  BY <1>1 DEF RangeInv
<1> QED  BY <1>2, <1>3, <1>4 DEF StoryInv

LEMMA NextStory ==
    TypeInv /\ EchoInv /\ MapInv /\ StoryInv /\ [Next]_vars => StoryInv'
<1> SUFFICES ASSUME TypeInv, EchoInv, MapInv, StoryInv, [Next]_vars
             PROVE  StoryInv'
  OBVIOUS
<1>0. TypeInv' /\ EchoInv' /\ Lifecycle
  BY NextType, NextEcho DEF MapInv
<1>1. ASSUME NEW p \in Procs, Ranging(p)
      PROVE  StoryInv'
  BY <1>0, <1>1, RangeStory, WriteStory, EndRangeStory DEF Ranging
<1>2. ASSUME UNCHANGED <<online, pc, frame, todo, seen, cur, said, heard, took, cl, end>>
      PROVE  StoryInv'
  BY <1>0, <1>2, OutsideStory DEF LinkUp
<1>3. CASE MainStep
  BY <1>0, <1>1, <1>2, <1>3, AcceptStory, InsertStory, ProcsFacts
     DEF MainStep, AcceptError, client
<1>4. ASSUME NEW c \in Conns, Process(c)
      PROVE  StoryInv'
  BY <1>0, <1>1, <1>4, ReadStory, ReadErrStory, DeleteStory, ProcsFacts DEF Process
<1>5. CASE MapRace \/ UNCHANGED vars
  BY <1>2, <1>5 DEF MapRace, vars, client
<1> QED
  BY <1>0, <1>3, <1>4, <1>5, ClientStory DEF Next

\* The invariant all the theorems below rest on.
ServerInv == TypeInv /\ EchoInv /\ MapInv /\ StoryInv

LEMMA ServerInvariance == Spec => []ServerInv
<1>1. Init => ServerInv
  BY InitType, InitEcho, InitMap, InitStory DEF ServerInv
<1>2. ServerInv /\ [Next]_vars => ServerInv'
  BY NextType, NextEcho, NextMap, NextStory DEF ServerInv
<1> QED  BY <1>1, <1>2, PTL DEF Spec

\* Between two broadcasts about a client everyone in the room who has heard of
\* it and is still connected has heard its newest: the range over the shared
\* map (lines 78-91) misses nobody that stays, although others are inserted,
\* deleted and overwritten under it.
THEOREM UpToDateCorrect == Spec => []UpToDate
<1>1. ASSUME ServerInv, NEW c \in Conns, NEW d \in Conns,
             pc[c] = "read", Registered(d), LinkUp(d), heard[d][c] # <<>>
      PROVE  heard[d][c][Len(heard[d][c])] = said[c][Len(said[c])]
  <2>1. PortOf[d] \in Keys /\ online[PortOf[d]] = d
    BY <1>1, ProcsFacts DEF Registered, Keys
  <2>2. Current(d, c)
    BY <1>1, <2>1 DEF ServerInv, StoryInv, SettledInv
  <2> QED  BY <1>1, <2>2 DEF Current, Nothing, Newest
<1>2. ServerInv => UpToDate
  BY <1>1 DEF UpToDate
<1> QED  BY <1>2, ServerInvariance, PTL

\* What a client is sent about another is an uninterrupted part of the other's
\* story, in order, whichever goroutines send it (lines 78-91, 106, 126, 235).
THEOREM StoryInOrderCorrect == Spec => []StoryInOrder
<1>1. ServerInv => StoryInOrder
  BY DEF ServerInv, StoryInv
<1> QED  BY <1>1, ServerInvariance, PTL

-----------------------------------------------------------------------------
(* The server implements RoomFeed: an insertion, a chunk read and a final  *)
(* deletion announce, a write that arrives is heard, the rest stutters.    *)

LEMMA InitFeed == Init => Feed!Init
  BY DEF Init, Feed!Init

LEMMA Announced ==
    ASSUME TypeInv, NEW c \in Conns, NEW f \in Frames, f.who = c,
           said' = [said EXCEPT ![c] = Append(@, f)], heard' = heard,
           Feed!Continues(said[c], f)
    PROVE  Feed!Next
<1>1. said[c] \in Seq(Frames) /\ said'[c] = Append(said[c], f)
  BY DEF TypeInv, TypeOK
<1>2. said'[c] # said[c] /\ said'[c][Len(said'[c])] = f
  <2> DEFINE s == said[c]
             t == Append(s, f)
  <2>1. s \in Seq(Frames) /\ said'[c] = t
    BY <1>1
  <2> HIDE DEF s
  <2>2. Len(t) # Len(s) /\ t[Len(t)] = f
    BY <2>1
  <2> QED  BY <2>1, <2>2 DEF s
<1>3. Feed!Announce(c, Feed!Newest(said'[c]))
  BY <1>2 DEF Feed!Announce, Feed!Newest
<1> QED  BY <1>2, <1>3 DEF Feed!Next

LEMMA InsertFeed ==
    ASSUME ServerInv, Insert
    PROVE  Feed!Next
<1>1. PICK c \in Conns : c = frame[Main].who /\ frame[Main] \in Frames
  BY MainConn DEF Insert, ServerInv
<1>2. said[c] = <<>> /\ frame[Main].kind = "join" /\ frame[Main].hi = 0
  <2>1. Untold(c)
    BY <1>1 DEF Insert, ServerInv, MapInv, Lifecycle, Untold, Tells
  <2> QED  BY <1>1, <2>1 DEF Insert, ServerInv, StoryInv, SaidInv, JoinFirst, Note
<1>3. said' = [said EXCEPT ![c] = Append(@, frame[Main])] /\ heard' = heard
  BY <1>1 DEF Insert, StartBroadcast
<1>4. Feed!Continues(said[c], frame[Main])
  BY <1>2 DEF Feed!Continues
<1> QED  BY <1>1, <1>3, <1>4, Announced DEF ServerInv

LEMMA ReadFeed ==
    ASSUME ServerInv, NEW c \in Conns, Read(c)
    PROVE  Feed!Next
<1>1. PICK hi \in took[c] + 1 .. wrote[c] :
         StartBroadcast(c, Chunk(c, took[c] + 1, hi), Keys)
  BY DEF Read
<1> DEFINE f == Chunk(c, took[c] + 1, hi)
<1>2. took[c] \in Nat /\ wrote[c] \in Nat /\ hi \in Nat
  BY DEF ServerInv, TypeInv, TypeOK
<1>3. /\ f \in Frames /\ f.who = c /\ f.kind = "say"
      /\ f.lo = took[c] + 1 /\ f.hi = hi /\ f.lo <= f.hi
  BY <1>2, ChunkType DEF Chunk
<1>4. said' = [said EXCEPT ![c] = Append(@, f)] /\ heard' = heard
  BY <1>1, <1>3 DEF Read, StartBroadcast
<1>5. Feed!Continues(said[c], f)
  <2>1. said[c] # <<>> /\ Newest(said[c]).kind # "leave" /\ Newest(said[c]).hi = took[c]
    BY DEF Read, ServerInv, StoryInv, SaidInv
  <2> HIDE DEF f
  <2> QED  BY <1>3, <2>1 DEF Newest, Feed!Continues, Feed!Newest
<1> QED  BY <1>3, <1>4, <1>5, Announced DEF ServerInv

LEMMA DeleteFeed ==
    ASSUME ServerInv, NEW c \in Conns, Delete(c)
    PROVE  Feed!Next \/ UNCHANGED <<said, heard>>
<1> DEFINE f == Note("leave", c)
<1>1. f \in Frames /\ f.who = c /\ f.kind = "leave"
  BY NoteType
<1>2. \/ said' = [said EXCEPT ![c] = Append(@, f)] /\ heard' = heard
      \/ UNCHANGED <<said, heard>>
  BY DEF Delete
<1>3. Feed!Continues(said[c], f)
  <2>1. said[c] # <<>> /\ Newest(said[c]).kind # "leave"
    BY DEF Delete, ServerInv, StoryInv, SaidInv
  <2> HIDE DEF f
  <2> QED  BY <1>1, <2>1 DEF Newest, Feed!Continues, Feed!Newest
<1> QED  BY <1>1, <1>2, <1>3, Announced DEF ServerInv

LEMMA WriteFeed ==
    ASSUME ServerInv, NEW p \in Procs, Write(p)
    PROVE  Feed!Next \/ UNCHANGED <<said, heard>>
<1> SUFFICES ASSUME LinkUp(cur[p])  PROVE Feed!Next
  BY DEF Write
<1>1. PICK c \in Conns : c = frame[p].who /\ Tells(p, c)
  BY Subject DEF Write, ServerInv
<1>2. PICK d \in Conns : d = cur[p]
  BY DEF Write, ServerInv, TypeInv, FrameOK
<1>3. said[c] # <<>> /\ Newest(said[c]) = frame[p]
  BY <1>1 DEF ServerInv, StoryInv, SaidInv
<1>4. Behind(d, c)
  BY <1>1, <1>2 DEF Write, ServerInv, StoryInv, RangeInv
<1>5. d # c
  BY <1>1, <1>2 DEF Write, ServerInv, EchoInv, TargetIsOther, OwnKey
<1>6. /\ heard' = [heard EXCEPT ![d][c] = Append(@, Newest(said[c]))]
      /\ said' = said
  BY <1>1, <1>2, <1>3 DEF Write
<1>7. Feed!Hear(d, c)
  BY <1>3, <1>4, <1>5, <1>6 DEF Behind, Nothing, Newest, Feed!Hear, Feed!Newest
<1> QED  BY <1>7 DEF Feed!Next

LEMMA NextFeed == ServerInv /\ [Next]_vars => [Feed!Next]_<<said, heard>>
<1> SUFFICES ASSUME ServerInv, [Next]_vars
             PROVE  Feed!Next \/ UNCHANGED <<said, heard>>
  OBVIOUS
<1>1. ASSUME NEW p \in Procs, Ranging(p)
      PROVE  Feed!Next \/ UNCHANGED <<said, heard>>
  BY <1>1, WriteFeed DEF Ranging, Range, EndRange
<1>2. CASE MainStep
  BY <1>1, <1>2, InsertFeed, ProcsFacts DEF MainStep, Accept, AcceptError
<1>3. ASSUME NEW c \in Conns, Process(c)
      PROVE  Feed!Next \/ UNCHANGED <<said, heard>>
  BY <1>1, <1>3, ReadFeed, DeleteFeed, ProcsFacts DEF Process, ReadErr
<1>4. ASSUME NEW c \in Conns, Client(c)
      PROVE  UNCHANGED <<said, heard>>
  BY <1>4 DEF Client, Dial, DialFails, Send, Receive, ReceiverStops, Exit, Break, server
<1>5. CASE MapRace \/ UNCHANGED vars
  BY <1>5 DEF MapRace, vars
<1> QED  BY <1>2, <1>3, <1>4, <1>5 DEF Next

\* The server keeps the promise of RoomFeed to every client, whatever main, the
\* goroutines and the clients do meanwhile: each story is begun once, continued
\* without a gap and ended once, and every write continues what its receiver
\* has heard (lines 78-91, 105-130, 229-238).
THEOREM ImplementsFeed == Spec => FeedSpec
<1>1. ServerInv /\ [Next]_vars => [Feed!Next]_(Feed!vars)
  BY NextFeed DEF Feed!vars
<1> QED
  BY InitFeed, <1>1, ServerInvariance, PTL DEF Spec, FeedSpec, Feed!Spec
=============================================================================
