----------------------------- MODULE Broadcast -----------------------------
(***************************************************************************)
(* What the backend promises to its subscribers: packets are published in  *)
(* one order, and every reader is a cursor that moves forward through      *)
(* them.  A reader that joins begins after the newest packet; it may skip  *)
(* packets, but none of the Capacity newest, and nothing another reader    *)
(* does moves its cursor.  Streams, batches, writes and threads do not     *)
(* appear here.                                                            *)
(***************************************************************************)
EXTENDS Integers

CONSTANTS
    Readers,
    Capacity          \* the newest packets a reader can count on

VARIABLES
    published,        \* number of the newest packet
    members,          \* the readers that are being served
    position          \* the last packet each of them got, or joined after

vars == <<published, members, position>>

Init ==
    /\ published = 0
    /\ members = {}
    /\ position = [r \in Readers |-> 0]

Publish ==
    /\ published' = published + 1
    /\ UNCHANGED <<members, position>>

\* A new reader is promised what comes next and nothing of what was.
Join(r) ==
    /\ r \notin members
    /\ members' = members \union {r}
    /\ position' = [position EXCEPT ![r] = published]
    /\ UNCHANGED published

\* The next packet, or a later one when all that is skipped is at least
\* Capacity packets old.
Deliver(r) ==
    /\ r \in members
    /\ \E p \in position[r] + 1 .. published :
         /\ p = position[r] + 1 \/ p - 1 + Capacity <= published
         /\ position' = [position EXCEPT ![r] = p]
    /\ UNCHANGED <<published, members>>

Leave(r) ==
    /\ r \in members
    /\ members' = members \ {r}
    /\ position' = [position EXCEPT ![r] = 0]
    /\ UNCHANGED published

Next ==
    \/ Publish
    \/ \E r \in Readers : Join(r) \/ Deliver(r) \/ Leave(r)

Spec == Init /\ [][Next]_vars

=============================================================================
