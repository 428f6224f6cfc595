----------------------------- MODULE MCOptions -----------------------------
(***************************************************************************)
(* The instance of Options for TLC: files that give at most five settings. *)
(* Token, key and certificate of one endpoint and an equal port of the     *)
(* other still occur together.                                             *)
(***************************************************************************)
EXTENDS Options

\* Refused by every setter, by all but one, and by none.
MCNumbers == {-1, 0, 5}

\* Wraps to 65535; refused; the default of the backend; too large for 16 bits.
MCPorts == {-1, 0, 50001, 65535, 65536}

=============================================================================
