---------------------------- MODULE MCUvcBroker ----------------------------
(* Small instances of UvcBroker for TLC. *)
EXTENDS UvcBroker
=============================================================================
