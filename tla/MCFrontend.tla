----------------------------- MODULE MCFrontend -----------------------------
(***************************************************************************)
(* Instances of Frontend for TLC: two publishers compete for one place and *)
(* a third lacks the token.                                                *)
(***************************************************************************)
EXTENDS Frontend

CONSTANTS p1, p2, p3

\* One publisher sends enough for a run of invalid packets that is
\* interrupted, the other one packet, the stranger none.
MCMaxPackets == [p \in Publishers |-> CASE p = p1 -> 3
                                        [] p = p2 -> 1
                                        [] p = p3 -> 0]

=============================================================================
