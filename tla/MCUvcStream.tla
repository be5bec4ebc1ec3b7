---------------------------- MODULE MCUvcStream ----------------------------
(* Small instances of UvcStream for TLC. *)
EXTENDS UvcStream
=============================================================================
