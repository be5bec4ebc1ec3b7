---------------------------- MODULE RtspFraming ----------------------------
(***************************************************************************)
(* What an RTSP client sends (firmware/main/rtsp/rtsp_framing.cpp and the  *)
(* receive loop of handle_client in rtsp_server.cpp).                      *)
(*                                                                         *)
(* Requests and interleaved frames share one byte stream.  A request ends  *)
(* with an empty line; an interleaved frame starts with a dollar sign and  *)
(* carries its size.  TCP cuts the stream anywhere.  Every turn of the     *)
(* loop receives what there is room for, and then takes at most one frame. *)
(*                                                                         *)
(* Bytes are digits of Base; what a request asks is left to RtspSession.   *)
(*                                                                         *)
(* An operator marked "Mutant" is a plausible mistake in the definition    *)
(* that follows it; no behaviour of the specification uses it.             *)
(***************************************************************************)
EXTENDS Naturals, Sequences

CONSTANTS
  Base,         \* 256 values of a byte
  Dollar, CR, LF,
  MaxRequest,   \* kMaxRtspRequestBytes
  MaxPayload,   \* kMaxInterleavedPayloadBytes
  ReceiveSize,  \* sizeof(receive_buffer)
  Streams       \* what a client may send, byte sequences

Byte == 0 .. Base - 1

ASSUME FramingBytes ==
  /\ Base \in Nat \ {0}
  /\ Dollar \in Byte /\ CR \in Byte /\ LF \in Byte
  /\ Dollar # CR /\ Dollar # LF /\ CR # LF
ASSUME FramingBounds ==
  /\ MaxRequest \in Nat /\ MaxPayload \in Nat /\ ReceiveSize \in Nat \ {0}
  /\ MaxPayload <= MaxRequest
ASSUME FramingStreams == Streams \subseteq Seq(Byte)

VARIABLES
  peer,      \* what the client has yet to send
  buffer,    \* InputFramer::buffer_, its first size_ bytes
  done,      \* history: the bytes consumed, in order
  frame,     \* history: the frame consumed last, or <<>>
  turn       \* where the loop is, or why it was left

framingVars == <<peer, buffer, done, frame, turn>>

\* peer: end of stream; left: the request ends the session; exhausted and overflow
\* are the two errors the code checks for after the fact.
Left == {"gone", "left", "rejected", "exhausted", "overflow"}
Turns == {"receive", "parse"} \cup Left

FramingInit ==
  /\ peer \in Streams
  /\ buffer = <<>> /\ done = <<>> /\ frame = <<>>
  /\ turn = "receive"

-----------------------------------------------------------------------------
(* InputFramer.                                                            *)

HeaderBytes == 4
Capacity == MaxRequest + HeaderBytes
Writable == Capacity - Len(buffer)

IsBinary(b) == b # <<>> /\ b[1] = Dollar
HasHeader(b) == IsBinary(b) /\ Len(b) >= HeaderBytes
PayloadSize(b) == b[3] * Base + b[4]

\* Where an empty line ends.
Ends(b) == {n \in 4 .. Len(b) : b[n - 3] = CR /\ b[n - 2] = LF /\ b[n - 1] = CR /\ b[n] = LF}
IsText(b) == b # <<>> /\ b[1] # Dollar

\* Mutant: a frame is only complete when something follows it.
StartsInterleavedFollowed(b, n) ==
  /\ HasHeader(b) /\ PayloadSize(b) <= MaxPayload
  /\ n = PayloadSize(b) + HeaderBytes
  /\ n < Len(b)
\* next(): the buffer starts with an interleaved frame, or with a request, of n
\* bytes ...
StartsInterleaved(b, n) ==
  /\ HasHeader(b) /\ PayloadSize(b) <= MaxPayload
  /\ n = PayloadSize(b) + HeaderBytes
  /\ n <= Len(b)
\* Mutant: a request is too long only while its end is missing.
StartsRequestOfAnySize(b, n) ==
  /\ IsText(b) /\ n \in Ends(b)
  /\ \A m \in Ends(b) : n <= m
StartsRequest(b, n) ==
  /\ IsText(b) /\ n \in Ends(b)
  /\ \A m \in Ends(b) : n <= m
  /\ n <= MaxRequest

\* ... or lacks the end of its first frame ...
Incomplete(b) ==
  \/ b = <<>>
  \/ IsBinary(b) /\ (HasHeader(b) => Len(b) < PayloadSize(b) + HeaderBytes)
  \/ IsText(b) /\ Ends(b) = {}

\* Mutant: the limit counts the header.
IsErrorEarly(b) ==
  \/ HasHeader(b) /\ PayloadSize(b) + HeaderBytes > MaxPayload
  \/ IsText(b) /\ Len(b) > MaxRequest /\ \A n \in Ends(b) : n > MaxRequest
\* Mutant: an oversized request is noticed one byte late.
IsErrorLate(b) ==
  \/ HasHeader(b) /\ PayloadSize(b) > MaxPayload
  \/ IsText(b) /\ Len(b) > MaxRequest + HeaderBytes /\ \A n \in Ends(b) : n > MaxRequest
\* ... or cannot become either.
IsError(b) ==
  \/ HasHeader(b) /\ PayloadSize(b) > MaxPayload
  \/ IsText(b) /\ Len(b) > MaxRequest /\ \A n \in Ends(b) : n > MaxRequest

\* consume(): the bytes of the frame leave the buffer.
Consume(n) ==
  /\ buffer' = SubSeq(buffer, n + 1, Len(buffer))
  /\ done' = done \o SubSeq(buffer, 1, n)
  /\ frame' = SubSeq(buffer, 1, n)

-----------------------------------------------------------------------------
(* The loop of handle_client.                                              *)

\* Mutant: the room left in the framer does not limit recv.
RecvLimitFixed == ReceiveSize
\* recv is given the smaller of its buffer and the room in the framer.
RecvLimit == IF ReceiveSize <= Writable THEN ReceiveSize ELSE Writable

\* append(): what does not fit is an error.
Receive(n) ==
  /\ turn = "receive" /\ Writable > 0
  /\ n \in 1 .. Len(peer) /\ n <= RecvLimit
  /\ peer' = SubSeq(peer, n + 1, Len(peer))
  /\ \/ n <= Writable /\ turn' = "parse" /\ buffer' = buffer \o SubSeq(peer, 1, n)
     \/ n > Writable /\ turn' = "overflow" /\ UNCHANGED buffer
  /\ UNCHANGED <<done, frame>>

\* Nothing has arrived yet, or the framer has no room.
ReceiveNothing ==
  /\ turn = "receive" /\ turn' = "parse"
  /\ UNCHANGED <<peer, buffer, done, frame>>

\* The client has closed, or the connection is lost.
PeerGone ==
  /\ turn = "receive" /\ Writable > 0
  /\ turn' = "gone"
  /\ UNCHANGED <<peer, buffer, done, frame>>

Reject ==
  /\ turn = "parse" /\ IsError(buffer)
  /\ turn' = "rejected"
  /\ UNCHANGED <<peer, buffer, done, frame>>

NeedMore ==
  /\ turn = "parse" /\ ~IsError(buffer)
  /\ Incomplete(buffer)
  /\ turn' = IF Writable = 0 THEN "exhausted" ELSE "receive"
  /\ UNCHANGED <<peer, buffer, done, frame>>

TakeInterleaved ==
  \E n \in 1 .. Len(buffer) :
    /\ turn = "parse" /\ StartsInterleaved(buffer, n)
    /\ Consume(n)
    /\ turn' = "receive"
    /\ UNCHANGED peer

\* Mutant: the request is handled, and everything received with it is dropped.
TakeRequestClears ==
  \E n \in 1 .. Len(buffer) :
    /\ turn = "parse" /\ StartsRequest(buffer, n)
    /\ buffer' = <<>>
    /\ done' = done \o SubSeq(buffer, 1, n) /\ frame' = SubSeq(buffer, 1, n)
    /\ turn' = "receive"
    /\ UNCHANGED peer
\* A request is answered and then consumed.
TakeRequest ==
  \E n \in 1 .. Len(buffer) :
    /\ turn = "parse" /\ StartsRequest(buffer, n)
    /\ Consume(n)
    /\ turn' = "receive"
    /\ UNCHANGED peer

\* TEARDOWN, or a request that fails: the loop is left with the request unconsumed.
EndSession ==
  /\ turn = "parse"
  /\ \E n \in 1 .. Len(buffer) : StartsRequest(buffer, n)
  /\ turn' = "left"
  /\ UNCHANGED <<peer, buffer, done, frame>>

\* What is sent to the client in the same turn fails (RtpSender).
GiveUp ==
  /\ turn = "receive"
  /\ turn' = "left"
  /\ UNCHANGED <<peer, buffer, done, frame>>

FramingNext ==
  \/ \E n \in 1 .. ReceiveSize : Receive(n)
  \/ ReceiveNothing \/ PeerGone
  \/ Reject \/ NeedMore \/ TakeInterleaved \/ TakeRequest \/ EndSession
  \/ GiveUp

FramingSpec == FramingInit /\ [][FramingNext]_framingVars

-----------------------------------------------------------------------------
(* Properties.                                                             *)

FramingTypeOK ==
  /\ peer \in Seq(Byte) /\ buffer \in Seq(Byte) /\ done \in Seq(Byte) /\ frame \in Seq(Byte)
  /\ Len(buffer) <= Capacity
  /\ turn \in Turns

\* What a frame is, said without the framer: a request ends with the first empty
\* line in it, an interleaved frame is as long as its header says.
EndsLine(s) == Len(s) >= 4 /\ SubSeq(s, Len(s) - 3, Len(s)) = <<CR, LF, CR, LF>>
IsFrame(s) ==
  \/ /\ Len(s) \in 1 .. MaxRequest /\ s[1] # Dollar /\ EndsLine(s)
     /\ \A n \in 1 .. Len(s) - 1 : ~EndsLine(SubSeq(s, 1, n))
  \/ /\ Len(s) >= HeaderBytes /\ s[1] = Dollar
     /\ Len(s) = HeaderBytes + s[3] * Base + s[4]
     /\ Len(s) <= HeaderBytes + MaxPayload
BeginsFrame(s) == \E n \in 1 .. Len(s) : IsFrame(SubSeq(s, 1, n))

\* Whatever was cut where, every frame handed on is a frame of the protocol.
FramesAreWhole == frame = <<>> \/ IsFrame(frame)

\* A client is only disconnected for a stream that no framing can go on with: the
\* bytes that follow do not make a frame of it.
RejectsOnlyTheUnframable == turn = "rejected" => ~BeginsFrame(buffer \o peer)

\* rtsp_server.cpp:1309 and 1325: the buffer neither overflows nor fills up without
\* a frame in it, so that a client that keeps to the limits is never dropped for
\* being cut badly.
NeverStuck == turn \notin {"exhausted", "overflow"}

\* Every byte is in one place: consumed, buffered or still to come, in order.
NothingLost == [][done' \o buffer' \o peer' = done \o buffer \o peer]_framingVars

=============================================================================
