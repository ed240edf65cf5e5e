--------------------------- MODULE MCPlayerStreams ---------------------------
(* A controller points at one of two rows.                                   *)
EXTENDS PlayerStreams

Rows == {1, 2}
=============================================================================
