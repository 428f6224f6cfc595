----------------------------- MODULE MCService -----------------------------
(***************************************************************************)
(* The instance of Service for TLC: one publisher with three messages, so  *)
(* that a full import queue and an overwritten stream occur, and one       *)
(* subscriber.                                                             *)
(***************************************************************************)
EXTENDS Service

CONSTANTS p1, s1

=============================================================================
