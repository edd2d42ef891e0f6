------------------------------ MODULE RoomFeed ------------------------------
(***************************************************************************)
(* What the chat server promises: a story is told of each member, and each *)
(* other member hears an uninterrupted part of it.  Nothing is said of the *)
(* order in which two stories are heard.                                   *)
(***************************************************************************)
EXTENDS Naturals, Sequences

CONSTANT Members

VARIABLES
    said,   \* said[c]: the story of c so far
    heard   \* heard[d][c]: the part of it that d was sent

vars == <<said, heard>>

Newest(s) == s[Len(s)]

\* A story begins with the joining; lines follow in the order the member
\* wrote them, each in exactly one announcement; nothing follows the leaving.
Continues(s, f) ==
    IF s = <<>>
    THEN f.kind = "join" /\ f.hi = 0
    ELSE /\ Newest(s).kind # "leave"
         /\ \/ f.kind = "leave"
            \/ f.kind = "say" /\ f.lo = Newest(s).hi + 1 /\ f.lo <= f.hi

Events == [kind : {"join", "say", "leave"}, who : Members, lo : Nat, hi : Nat]

Init == /\ said = [c \in Members |-> <<>>]
        /\ heard = [d \in Members |-> [c \in Members |-> <<>>]]

Announce(c, f) ==
    /\ f.who = c
    /\ Continues(said[c], f)
    /\ said' = [said EXCEPT ![c] = Append(@, f)]
    /\ UNCHANGED heard

\* d is sent the newest announcement about another member; one that has
\* heard of the member before has heard the one before.
Hear(d, c) ==
    /\ d # c
    /\ said[c] # <<>>
    /\ heard[d][c] # <<>> => /\ Len(said[c]) > 1
                             /\ Newest(heard[d][c]) = said[c][Len(said[c]) - 1]
    /\ heard' = [heard EXCEPT ![d][c] = Append(@, Newest(said[c]))]
    /\ UNCHANGED said

\* The announcement is read off the next state: Events is infinite.
Next ==
    \/ \E c \in Members : /\ said'[c] # said[c]
                          /\ Announce(c, Newest(said'[c]))
    \/ \E d, c \in Members : Hear(d, c)

Spec == Init /\ [][Next]_vars
=============================================================================
