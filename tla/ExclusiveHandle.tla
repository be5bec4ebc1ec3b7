-------------------------- MODULE ExclusiveHandle --------------------------
(***************************************************************************)
(* What the UVC layer promises the USB host driver about stream handles    *)
(* (the comments at hal_uvc.cpp:86-88 and 134-138): at most one stream is  *)
(* open at a time, and every stream that is opened is closed exactly once, *)
(* by whoever got hold of it.                                              *)
(***************************************************************************)
CONSTANT Handles

VARIABLE live      \* the streams that are open

Init == live = {}

Acquire == live = {} /\ \E h \in Handles : live' = {h}
Release == \E h \in live : live' = live \ {h}

Next == Acquire \/ Release

Spec == Init /\ [][Next]_live
=============================================================================
