--------------------------- MODULE MCSharedFrame ---------------------------
(* Small instances of SharedFrame for TLC. *)
EXTENDS SharedFrame
=============================================================================
