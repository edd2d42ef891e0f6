---------------------------- MODULE FileTransfer ----------------------------
(***************************************************************************)
(* The file transfer of course six: fileTranClient.go sends a name, waits  *)
(* for "ok" and sends the content in upper case; fileTranServer.go stores  *)
(* what it receives.  The server serves one connection and ends.           *)
(*                                                                         *)
(* Data: the file is text, and b is what upper case makes of its byte b; an *)
(* input says where its characters end.  0 is one of the three bytes of    *)
(* U+FFFD, which upper case makes of each byte of a character that is cut. *)
(* Byte k of the name is -k.                                               *)
(***************************************************************************)
EXTENDS Integers, Sequences, FiniteSets

CONSTANTS
    Size,       \* bytes of the file
    Chunk,      \* bytes of the client's buffer (4096)
    Inputs,     \* what the programs may meet: records of
                \*   charEnds: the bytes of the file at which a character ends
                \*   nameLen:  segments the name may arrive in
    Faults      \* the calls that may fail, a client that may be killed and a
                \* connection that may break

ASSUME FileAssumption ==
    /\ Size \in Nat /\ Chunk \in Nat \ {0}
    /\ \A x \in Inputs : /\ x.nameLen \in Nat \ {0}
                         /\ x.charEnds \subseteq 1 .. Size
                         /\ Size > 0 => Size \in x.charEnds
    /\ Faults \subseteq {"stat", "dial", "open", "read", "create", "write",
                         "kill", "break"}

VARIABLES
    input,      \* the one of Inputs that this run has met; it never changes
    srv,        \* what the server is about to do
    cli,        \* what the client is about to do
    up,         \* bytes on their way to the server
    upEnd,      \* how the client's direction has ended, if it has
    down,       \* "ok" is on its way to the client
    broken,     \* the connection is of no use any more to who writes to it
    off,        \* the client's position in the file
    content,    \* (history) all of the content the client has written
    lost,       \* (history) bytes that a failed file.Write has left out
    name,       \* the name the server took the file to have
    stored,     \* the content of the file the server created
    created,    \* the server has created its file
    srvSaid,    \* the server's last word: "complete", "error" or "none"
    cliSaid     \* the client's last word: "sent", "error" or "none"

vars == <<input, srv, cli, up, upEnd, down, broken, off, content, lost, name,
          stored, created, srvSaid, cliSaid>>
serverVars == <<srv, name, stored, lost, created, srvSaid>>
clientVars == <<cli, off, content, cliSaid>>

CharEnds == input.charEnds
NameLen  == input.nameLen

\* The client has dialled with success.
Connected == cli \notin {"stat", "dial", "never"}

Name == [k \in 1 .. NameLen |-> -k]

\* The character that byte b belongs to lies in the bytes lo..hi: it does not
\* begin before them, since one ends right before lo or between lo and b, and
\* it ends in them.
IsWhole(b, lo, hi) == /\ lo = 1 \/ \E e \in lo - 1 .. b - 1 : e \in CharEnds
                      /\ \E e \in b .. hi : e \in CharEnds

\* The whole file in upper case.
Image == [b \in 1 .. Size |-> b]

\* U+FFFD n times.
Replacement(n) == [k \in 1 .. 3 * n |-> 0]

\* strings.ToUpper(string(buf[:n])) of the bytes lo..hi: what is cut lies
\* before or behind the whole characters.
ToUpper(lo, hi) ==
    LET cut    == {b \in lo .. hi : ~IsWhole(b, lo, hi)}
        before == {b \in cut : lo .. b \subseteq cut}
        behind == cut \ before
    IN  Replacement(Cardinality(before))
        \o SubSeq(Image, lo + Cardinality(before), hi - Cardinality(behind))
        \o Replacement(Cardinality(behind))

\* Where the server goes on once it has the name, and the client once it has
\* sent it.
MCreatesFirst == "create"
AfterName     == "ok"
MWaitsNot     == "open"
AfterSend     == "waitOk"

\* The server's file after a file.Write of s that has kept n of its bytes.
MOverwrites(s, n)  == SubSeq(s, 1, n)
MWholeBuffer(s, n) == stored \o SubSeq(s, 1, n) \o <<-NameLen - 1>>
Appended(s, n)     == stored \o SubSeq(s, 1, n)

Init ==
    /\ input \in Inputs
    /\ srv = "accept" /\ cli = "stat"
    /\ up = <<>> /\ upEnd = "open" /\ down = FALSE /\ broken = FALSE
    /\ off = 0 /\ content = <<>> /\ lost = 0
    /\ name = <<>> /\ stored = <<>> /\ created = FALSE
    /\ srvSaid = "none" /\ cliSaid = "none"

-----------------------------------------------------------------------------
(* The server.  When it returns, the deferred conn.Close() runs: what the  *)
(* client writes then is lost.                                             *)

ServerReturns(word) ==
    /\ srv' = "done"
    /\ srvSaid' = word
    /\ broken' = TRUE
    /\ up' = <<>>

Accept ==
    /\ srv = "accept"
    /\ Connected
    /\ srv' = "name"
    /\ UNCHANGED <<up, upEnd, down, broken, name, stored, lost, created, srvSaid, clientVars>>

\* One Read for the name: whatever has arrived of what the client has sent.
ReadName ==
    /\ srv = "name"
    /\ \E n \in 1 .. Len(up) :
          /\ name' = SubSeq(up, 1, n)
          /\ up' = SubSeq(up, n + 1, Len(up))
    /\ srv' = AfterName
    /\ UNCHANGED <<upEnd, down, broken, stored, lost, created, srvSaid, clientVars>>

ReadNameFails ==
    /\ srv = "name"
    /\ up = <<>> /\ upEnd # "open"
    /\ ServerReturns("error")
    /\ UNCHANGED <<upEnd, down, name, stored, lost, created, clientVars>>

WriteOk ==
    /\ srv = "ok"
    /\ IF broken
       THEN /\ ServerReturns("error")
            /\ UNCHANGED down
       ELSE /\ down' = TRUE
            /\ srv' = "create"
            /\ UNCHANGED <<srvSaid, broken, up>>
    /\ UNCHANGED <<upEnd, name, stored, lost, created, clientVars>>

Create ==
    /\ srv = "create"
    /\ \/ /\ created' = TRUE
          /\ srv' = "recv"
          /\ UNCHANGED <<srvSaid, broken, up>>
       \/ /\ "create" \in Faults
          /\ ServerReturns("error")
          /\ UNCHANGED created
    /\ UNCHANGED <<upEnd, down, name, stored, lost, clientVars>>

\* One Read of the content and the file.Write of it, whose error is not
\* looked at: a write that fails keeps any part of the piece, or none, and the
\* next piece comes right behind it.
Recv ==
    /\ srv = "recv"
    /\ \E n \in 1 .. Len(up) : \E kept \in 0 .. n :
          /\ kept = n \/ "write" \in Faults
          /\ stored' = Appended(SubSeq(up, 1, n), kept)
          /\ lost' = lost + (n - kept)
          /\ up' = SubSeq(up, n + 1, Len(up))
    /\ UNCHANGED <<srv, upEnd, down, broken, name, created, srvSaid, clientVars>>

\* io.EOF is taken for the end of the file.
RecvEnds ==
    /\ srv = "recv"
    /\ up = <<>> /\ upEnd # "open"
    /\ ServerReturns(IF upEnd = "fin" THEN "complete" ELSE "error")
    /\ UNCHANGED <<upEnd, down, name, stored, lost, created, clientVars>>

-----------------------------------------------------------------------------
(* The client.                                                             *)

\* The client returns and its end of the connection is closed: with a reset
\* when the server's answer was not read, which may overtake what was sent.
ClientReturns(word) ==
    /\ cli' = "done"
    /\ cliSaid' = word
    /\ IF upEnd = "open" /\ down
       THEN /\ upEnd' = "rst"
            /\ \E n \in 0 .. Len(up) : up' = SubSeq(up, 1, n)
       ELSE /\ upEnd' = IF upEnd = "open" THEN "fin" ELSE upEnd
            /\ UNCHANGED up

\* Written to the connection; lost when it is broken, which nobody notices.
Sent(s) == up' = IF broken THEN up ELSE up \o s

Stat ==
    /\ cli = "stat"
    /\ \/ cli' = "dial" /\ UNCHANGED cliSaid
       \/ "stat" \in Faults /\ cli' = "never" /\ cliSaid' = "error"
    /\ UNCHANGED <<serverVars, up, upEnd, down, broken, off, content>>

Dial ==
    /\ cli = "dial"
    /\ \/ cli' = "sendName" /\ UNCHANGED cliSaid
       \/ "dial" \in Faults /\ cli' = "never" /\ cliSaid' = "error"
    /\ UNCHANGED <<serverVars, up, upEnd, down, broken, off, content>>

SendName ==
    /\ cli = "sendName"
    /\ Sent(Name)
    /\ cli' = AfterSend
    /\ UNCHANGED <<serverVars, upEnd, down, broken, off, content, cliSaid>>

ReadOk ==
    /\ cli = "waitOk"
    /\ down
    /\ down' = FALSE
    /\ cli' = "open"
    /\ UNCHANGED <<serverVars, up, upEnd, broken, off, content, cliSaid>>

ReadOkFails ==
    /\ cli = "waitOk"
    /\ ~down /\ broken
    /\ ClientReturns("error")
    /\ UNCHANGED <<serverVars, down, broken, off, content>>

Open ==
    /\ cli = "open"
    /\ \/ cli' = "send" /\ UNCHANGED <<cliSaid, up, upEnd>>
       \/ "open" \in Faults /\ ClientReturns("error")
    /\ UNCHANGED <<serverVars, down, broken, off, content>>

SendChunk ==
    LET hi    == IF off + Chunk < Size THEN off + Chunk ELSE Size
        piece == ToUpper(off + 1, hi) IN
    /\ cli = "send"
    /\ off < Size
    /\ Sent(piece)
    /\ content' = content \o piece
    /\ off' = hi
    /\ UNCHANGED <<serverVars, upEnd, down, broken, cli, cliSaid>>

\* file.Read returns io.EOF, or another error.
SendEnds ==
    /\ cli = "send"
    /\ \/ off = Size /\ ClientReturns("sent")
       \/ "read" \in Faults /\ ClientReturns("error")
    /\ UNCHANGED <<serverVars, down, broken, off, content>>

\* The user kills the client.
Kill ==
    /\ "kill" \in Faults
    /\ Connected /\ cli # "done"
    /\ ClientReturns("none")
    /\ UNCHANGED <<serverVars, down, broken, off, content>>

\* The network gives the connection up.
Break ==
    /\ "break" \in Faults
    /\ Connected
    /\ ~broken
    /\ broken' = TRUE
    /\ upEnd' = "rst"
    /\ \E n \in 0 .. Len(up) : up' = SubSeq(up, 1, n)
    /\ down' \in {FALSE, down}
    /\ UNCHANGED <<serverVars, clientVars>>

-----------------------------------------------------------------------------
ServerStep == /\ \/ Accept \/ ReadName \/ ReadNameFails \/ WriteOk \/ Create
                 \/ Recv \/ RecvEnds
              /\ UNCHANGED input
ClientStep == /\ \/ Stat \/ Dial \/ SendName \/ ReadOk \/ ReadOkFails \/ Open
                 \/ SendChunk \/ SendEnds
              /\ UNCHANGED input

Next == ServerStep \/ ClientStep \/ ((Kill \/ Break) /\ UNCHANGED input)

Spec == Init /\ [][Next]_vars

\* Two processes, each of which goes on when it can.
FairSpec == Spec /\ WF_vars(ServerStep) /\ WF_vars(ClientStep)

-----------------------------------------------------------------------------
(* Properties.                                                             *)

TypeOK ==
    /\ input \in Inputs
    /\ srv \in {"accept", "name", "ok", "create", "recv", "done"}
    /\ cli \in {"stat", "never", "dial", "sendName", "waitOk", "open", "send", "done"}
    /\ up \in Seq(-NameLen .. Size) /\ upEnd \in {"open", "fin", "rst"}
    /\ down \in BOOLEAN /\ broken \in BOOLEAN
    /\ off \in 0 .. Size
    /\ content \in Seq(0 .. Size) /\ lost \in Nat
    /\ name \in Seq(-NameLen .. Size) /\ stored \in Seq(-NameLen .. Size)
    /\ created \in BOOLEAN
    /\ srvSaid \in {"none", "complete", "error"}
    /\ cliSaid \in {"none", "sent", "error"}

\* No chunk ends within a character.
WholeChars == \A m \in 1 .. Size : m * Chunk <= Size => m * Chunk \in CharEnds

\* When both say that all went well, the name came in one piece and no
\* character was cut, the file has its name and lacks nothing but what failed
\* writes have left out; when none has failed it is the one the client has:
\* the "ok" keeps the name and the content apart, and what an EOF stands for
\* is told by what the client says.
BothAgreeMeansCopied ==
    (cliSaid = "sent" /\ srvSaid = "complete" /\ NameLen = 1 /\ WholeChars)
    => /\ name = Name
       /\ Len(stored) + lost = Size
       /\ lost = 0 => stored = Image

\* The stored file keeps the order of the client's, whatever is killed, breaks
\* or fails: what it has of a later part of the file comes later, and nothing
\* comes twice.  It has no hole but after a failed write: until then it is the
\* beginning of what the client has written, cut characters and all.
StoredInOrder ==
    NameLen = 1 =>
        /\ \A j, k \in 1 .. Len(stored) :
              j < k /\ stored[j] # 0 /\ stored[k] # 0 => stored[j] < stored[k]
        /\ lost = 0 =>
              /\ Len(stored) <= Len(content)
              /\ stored = SubSeq(content, 1, Len(stored))

\* Once the client has connected both programs end: neither waits for the
\* other for ever, whichever step of either fails.
BothEnd == Connected ~> (cli = "done" /\ srv = "done")
=============================================================================
