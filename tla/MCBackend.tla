----------------------------- MODULE MCBackend -----------------------------
(***************************************************************************)
(* Instances of Backend for TLC.                                           *)
(***************************************************************************)
EXTENDS BackendBroadcast, TLC

CONSTANTS w1, w2

\* Sound for the safety runs: nothing there tells one RPC from another.
WriterSymmetry == Permutations(Writers)

=============================================================================
