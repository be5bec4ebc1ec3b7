--------------------------- MODULE RtspConnection ---------------------------
(***************************************************************************)
(* Both directions of an RTSP connection (handle_client of rtsp_server).    *)
(*                                                                         *)
(* One task serves the client: every turn of its loop receives and takes at*)
(* most one frame (RtspFraming) and then, while the client plays, sends an *)
(* access unit to its end (RtpSender).  Answers and RTP packets share the  *)
(* way to the client, as requests and RTCP share the way from it.          *)
(*                                                                         *)
(* Which requests are answered how is RtspSession; here a request is a PLAY*)
(* or another one.                                                         *)
(*                                                                         *)
(* An operator marked "Mutant" is a plausible mistake in the definition    *)
(* that follows it; no behaviour of the specification uses it.             *)
(***************************************************************************)
EXTENDS RtspFraming, RtpSender

CONSTANTS
  PlayRequests,  \* the requests that are PLAY
  Clients,       \* kinds of client: what each may send, and the access units the
  Sends(_),      \* encoder may emit for it
  Gets(_)

ASSUME ClientsSendStreams == \A c \in Clients : Sends(c) \subseteq Streams /\ Gets(c) \subseteq Units

VARIABLE client

vars == <<framingVars, senderVars, client>>

Init ==
  /\ FramingInit /\ SenderInit
  /\ client \in Clients /\ peer \in Sends(client)

\* The task is between two packets of work for the client.
AtRest == media \in {"stopped", "idle"}

\* A turn that takes no request.
Listen ==
  /\ AtRest
  /\ \/ \E n \in 1 .. ReceiveSize : Receive(n)
     \/ ReceiveNothing \/ PeerGone \/ Reject \/ NeedMore \/ TakeInterleaved
  /\ UNCHANGED <<senderVars, client>>

\* A request is answered; the answer to PLAY carries the sequence number.
Answer ==
  /\ AtRest /\ TakeRequest
  /\ IF frame' \in PlayRequests THEN Play ELSE UNCHANGED senderVars
  /\ UNCHANGED client

\* Mutant: the loop goes on after an answer that could not be sent whole.
AnswerFailsGoesOn ==
  /\ AtRest /\ TakeRequest
  /\ cut' = TRUE
  /\ UNCHANGED <<unit, nals, offset, packet, pending, seq, budget, spent, media, counted,
                 recovered, heard, expected, client>>
\* TEARDOWN, or an answer that is not sent, or not to its end.
AnswerFails ==
  /\ AtRest /\ EndSession
  /\ cut' \in {cut, TRUE} /\ media' = "closed"
  /\ UNCHANGED <<unit, nals, offset, packet, pending, seq, budget, spent, counted,
                 recovered, heard, expected, client>>

\* The frame of this turn.
Media ==
  /\ turn = "receive"
  /\ (\E d \in Gets(client) : StartUnit(d)) \/ MediaNext
  /\ IF media' = "closed" THEN GiveUp ELSE UNCHANGED framingVars
  /\ UNCHANGED client

Next == Listen \/ Answer \/ AnswerFails \/ Media

\* The loop runs on, and every unit comes to its end (the deadline sees to it).  TCP
\* delivers what was sent: any number of turns may find nothing, but not all.
Fairness ==
  /\ WF_vars(~AtRest /\ Media)
  /\ SF_vars(AtRest /\ ReceiveNothing /\ UNCHANGED <<senderVars, client>>)
  /\ SF_vars(\E n \in 1 .. ReceiveSize : AtRest /\ Receive(n) /\ UNCHANGED <<senderVars, client>>)
  /\ WF_vars(Answer \/ (Listen /\ turn = "parse"))

Spec == Init /\ [][Next]_vars
FairSpec == Spec /\ Fairness

-----------------------------------------------------------------------------
(* Properties.                                                             *)

\* Nothing is said to a client that was left with part of a message: what follows in
\* the byte stream would be taken for the rest of it.
CutIsLast == cut => media \in {"failed", "closed"}

\* While the client stays, every frame it sent is taken in the end, in whatever pieces
\* it arrived, with whatever behind it, and however slowly it takes what it is sent.
AllFramesTaken == <>[](turn \in Left \/ ~BeginsFrame(buffer \o peer))
=============================================================================
