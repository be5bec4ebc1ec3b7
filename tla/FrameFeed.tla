----------------------------- MODULE FrameFeed -----------------------------
(***************************************************************************)
(* What the frame broker promises each of its consumers (the comment at    *)
(* hal_uvc.h:96-98, and what ui.cpp and rtsp_server.cpp rely on): frames   *)
(* are numbered as they come; a call either hands over one whole frame     *)
(* that is newer than the one the caller named and belongs to the stream   *)
(* that is open, or it hands over none.  Only a restart that cuts into a   *)
(* copy may leave the caller with bytes of two frames.                     *)
(*                                                                         *)
(* Slots, reservations, other consumers and the order of the locked        *)
(* sections are left to UvcBroker, which implements this module for every  *)
(* consumer.                                                               *)
(***************************************************************************)
EXTENDS Integers

VARIABLES
  newest,    \* the number of the last frame that came
  stream,    \* the number of the last stream that was opened
  open,      \* whether it still is
  cut,       \* a restart cut into a copy
  seen,      \* the frame the consumer names in its next call
  hand       \* what the call is about to hand over, if anything

camera   == <<newest, stream, open, cut>>
consumer == <<seen, hand>>
vars     == <<camera, consumer>>

Init ==
  /\ newest = 0 /\ stream = 0 /\ ~open /\ ~cut
  /\ seen = 0 /\ hand = {}

-----------------------------------------------------------------------------
(* The camera.                                                             *)

FrameComes ==
  /\ open
  /\ newest' = newest + 1
  /\ UNCHANGED <<stream, open, cut, consumer>>

StreamOpens ==
  /\ ~open
  /\ open' = TRUE /\ stream' = stream + 1
  /\ UNCHANGED <<newest, cut, consumer>>

StreamEnds ==
  /\ open
  /\ open' = FALSE
  /\ UNCHANGED <<newest, stream, cut, consumer>>

RestartCutsIn ==
  /\ ~cut
  /\ cut' = TRUE
  /\ UNCHANGED <<newest, stream, open, consumer>>

-----------------------------------------------------------------------------
(* The consumer.                                                           *)

\* A frame the call may hand over: one that came, after the one named.
NewerFrames == [seq : (seen + 1) .. newest, gen : 1 .. stream]

\* One of them gets into hand.
Copy ==
  /\ hand = {}
  /\ \E copy \in hand' : /\ copy.frame \in NewerFrames
                         /\ copy.whole \/ cut
                         /\ hand' = {copy}
  /\ UNCHANGED <<camera, seen>>

OfOpenStream(copy) == open /\ copy.frame.gen = stream

\* The call returns true, or false because the stream ended during the copy.
Return ==
  /\ \E copy \in hand : seen' = IF OfOpenStream(copy) THEN copy.frame.seq ELSE seen
  /\ hand' = {}
  /\ UNCHANGED camera

\* Between two calls the consumer may go back to an earlier number.
StartOver ==
  /\ hand = {}
  /\ seen' \in 0 .. seen - 1
  /\ UNCHANGED <<camera, hand>>

Next ==
  \/ FrameComes \/ StreamOpens \/ StreamEnds \/ RestartCutsIn
  \/ Copy \/ Return \/ StartOver

Spec == Init /\ [][Next]_vars
=============================================================================
