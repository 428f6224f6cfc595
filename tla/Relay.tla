------------------------------- MODULE Relay -------------------------------
(***************************************************************************)
(* What the proxy promises between a publisher and the backend: a packet   *)
(* that was offered is relayed once, or lost, and a publisher's packets    *)
(* are relayed in the order in which it offered them.  Queues, evictions   *)
(* and threads do not appear here.                                         *)
(***************************************************************************)
EXTENDS Integers, Sequences, Functions

CONSTANT Publishers

VARIABLES
    offered,          \* number of the last packet of each publisher
    relayed,          \* the packets relayed, in order
    lost              \* the packets that will not be

vars == <<offered, relayed, lost>>

Init ==
    /\ offered = [p \in Publishers |-> 0]
    /\ relayed = <<>>
    /\ lost = {}

\* The n-th packet of publisher p has been offered and nothing more is known.
Pending(p, n) ==
    /\ n \in 1..offered[p]
    /\ <<p, n>> \notin lost \union Range(relayed)

Offer(p) ==
    /\ offered' = [offered EXCEPT ![p] = @ + 1]
    /\ UNCHANGED <<relayed, lost>>

Lose(p) ==
    /\ \E n \in 1..offered[p] :
         Pending(p, n) /\ lost' = lost \union {<<p, n>>}
    /\ UNCHANGED <<offered, relayed>>

\* The oldest packet of p whose fate is open.
Send(p) ==
    /\ \E n \in 1..offered[p] :
         /\ Pending(p, n)
         /\ \A m \in 1..n - 1 : ~Pending(p, m)
         /\ relayed' = Append(relayed, <<p, n>>)
    /\ UNCHANGED <<offered, lost>>

Next == \E p \in Publishers : Offer(p) \/ Lose(p) \/ Send(p)

Spec == Init /\ [][Next]_vars

=============================================================================
