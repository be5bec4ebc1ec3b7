--------------------------- MODULE MCRtspSession ---------------------------
(* Small instances of RtspSession for TLC. *)
EXTENDS RtspSession
=============================================================================
