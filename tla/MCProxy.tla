------------------------------ MODULE MCProxy ------------------------------
(***************************************************************************)
(* The instance of Proxy for TLC: two publishers, so that another callback *)
(* can come between the size() of one and its try_push, and more packets   *)
(* than the queue holds.                                                   *)
(***************************************************************************)
EXTENDS ProxyRelay

CONSTANTS p1, p2

=============================================================================
