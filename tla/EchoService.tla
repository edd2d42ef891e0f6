---------------------------- MODULE EchoService ----------------------------
(***************************************************************************)
(* What the echo servers of courses three and five promise to clients that *)
(* send a line and wait for its answer (multithread-clien.c, client.go): a *)
(* line is answered once, to the client that has sent it, and nothing else *)
(* is ever sent.  There are no processes, threads, descriptors or tables.  *)
(***************************************************************************)
CONSTANT Conns      \* the connections clients make

VARIABLES
    state,      \* the client: "idle", "ready", "waiting" or "gone"
    owed,       \* the client has sent a line that is not answered
    answer      \* its answer is on the way to the client

abstract == <<state, owed, answer>>

Init ==
    /\ state = [c \in Conns |-> "idle"]
    /\ owed = [c \in Conns |-> FALSE]
    /\ answer = [c \in Conns |-> FALSE]

Connect(c) ==
    /\ state[c] = "idle"
    /\ state' = [state EXCEPT ![c] = "ready"]
    /\ UNCHANGED <<owed, answer>>

Ask(c) ==
    /\ state[c] = "ready"
    /\ state' = [state EXCEPT ![c] = "waiting"]
    /\ owed' = [owed EXCEPT ![c] = TRUE]
    /\ UNCHANGED answer

\* The answer of a line whose client has left is lost.
Reply(c) ==
    /\ owed[c]
    /\ owed' = [owed EXCEPT ![c] = FALSE]
    /\ answer' = [answer EXCEPT ![c] = (state[c] # "gone")]
    /\ UNCHANGED state

Take(c) ==
    /\ answer[c]
    /\ answer' = [answer EXCEPT ![c] = FALSE]
    /\ state' = [state EXCEPT ![c] = "ready"]
    /\ UNCHANGED owed

\* A client ends when it likes; one that nobody accepts ends at once.  The
\* server may know of it, and forget the line it owes an answer.
Leave(c) ==
    /\ state[c] # "gone"
    /\ state' = [state EXCEPT ![c] = "gone"]
    /\ answer' = [answer EXCEPT ![c] = FALSE]
    /\ owed' \in {owed, [owed EXCEPT ![c] = FALSE]}

Next == \E c \in Conns :
           Connect(c) \/ Ask(c) \/ Reply(c) \/ Take(c) \/ Leave(c)

Spec == Init /\ [][Next]_abstract
=============================================================================
