----------------------------- MODULE RtpSender -----------------------------
(***************************************************************************)
(* What an RTSP client is sent while it plays (rtsp_server.cpp: the NAL    *)
(* scanners, send_h264_access_unit, send_h264_nal, send_rtp_packet,        *)
(* send_all, and what handle_client makes of a failure).                   *)
(*                                                                         *)
(* The encoder hands over an access unit: NAL units behind start codes.    *)
(* Each is sent as one RTP packet, or as fragments (FU-A) when it is too   *)
(* long, over a socket that takes any number of bytes at a time, or none.  *)
(*                                                                         *)
(* Of an RTP header the sequence number and the marker are kept; its other *)
(* bytes only count (Overhead).                                            *)
(*                                                                         *)
(* An operator marked "Mutant" is a plausible mistake in the definition    *)
(* that follows it; no behaviour of the specification uses it.             *)
(***************************************************************************)
EXTENDS Integers, Sequences, FiniteSets, SequencesExt

CONSTANTS
  Units,          \* the access units the encoder may emit, byte sequences
  MaxRtpPayload,  \* kMaxRtpPayload
  Overhead,       \* bytes of the interleaved and the RTP header
  SeqRange,       \* sequence numbers: 2^16
  SendDeadline    \* kSendDeadlineMs, in waits of select()

ASSUME SenderBounds ==
  /\ MaxRtpPayload \in Nat /\ MaxRtpPayload > 2
  /\ Overhead \in Nat /\ SeqRange \in Nat \ {0} /\ SendDeadline \in Nat
ASSUME UnitsAreBytes == Units \subseteq Seq(0 .. 255)

VARIABLES
  unit,      \* the access unit being sent
  nals,      \* its NAL units still to send
  offset,    \* how much of Head(nals) is sent
  packet,    \* the packet in send_all, and
  pending,   \* its bytes that the socket has not taken
  seq,       \* s_rtp_sequence
  budget,    \* time until the deadline of the unit
  spent,     \* history: time the server waited for the client in this unit
  media,     \* where the sender is
  counted,   \* s_send_timeouts or s_send_socket_errors went up
  recovered, \* recovery_attempts is used up
  heard,     \* history: the packets of this unit the client has whole
  expected,  \* history: the sequence number the client waits for
  cut        \* history: the client was left with part of a message

senderVars == <<unit, nals, offset, packet, pending, seq, budget, spent, media, counted, recovered,
                heard, expected, cut>>

NoPacket == [seq |-> 0, marker |-> FALSE, payload |-> <<>>]
Seqs == 0 .. SeqRange - 1

-----------------------------------------------------------------------------
(* The scanners.                                                           *)

\* start_code_size at the i-th byte.
StartCode(d, i) ==
  IF i + 3 <= Len(d) /\ SubSeq(d, i, i + 3) = <<0, 0, 0, 1>> THEN 4
  ELSE IF i + 2 <= Len(d) /\ SubSeq(d, i, i + 2) = <<0, 0, 1>> THEN 3 ELSE 0

\* The next start code from i on, or the end.
NextCode(d, i) ==
  CHOOSE j \in i .. Len(d) + 1 :
    /\ j = Len(d) + 1 \/ StartCode(d, j) > 0
    /\ \A k \in i .. j - 1 : StartCode(d, k) = 0

\* Mutant: the zero before a start code of four bytes stays with the NAL.
TrimmedNot(d, first, end) == end
\* The zero bytes before a start code belong to it.
Trimmed(d, first, end) ==
  CHOOSE e \in first .. end :
    /\ e = first \/ d[e - 1] # 0
    /\ \A k \in e .. end - 1 : d[k] = 0

\* Where the NAL unit behind the start code at i begins, and where the scan goes on.
NalStart(d, i) == i + StartCode(d, i)
NextNal(d, i) == NextCode(d, NalStart(d, i))
NalUnit(d, i) == SubSeq(d, NalStart(d, i), Trimmed(d, NalStart(d, i), NextNal(d, i)) - 1)

\* The NAL units of d, the empty ones left out: those from the i-th byte on.
Nals(d) ==
  LET from[i \in 1 .. Len(d) + 1] ==
        LET code == NextCode(d, i) IN
          IF code > Len(d) THEN <<>>
          ELSE (IF NalUnit(d, code) = <<>> THEN <<>> ELSE <<NalUnit(d, code)>>) \o from[NextNal(d, code)]
  IN from[1]

\* Mutant: only what follows the first start code is looked at.
HasNalTypeFirst(d, type) ==
  LET i == NextCode(d, 1) IN
    /\ i + StartCode(d, i) <= Len(d)
    /\ d[i + StartCode(d, i)] % 32 = type
\* access_unit_has_nal_type: whatever follows a start code.
HasNalType(d, type) ==
  \E i \in 1 .. Len(d) :
    /\ StartCode(d, i) > 0
    /\ i + StartCode(d, i) <= Len(d)
    /\ d[i + StartCode(d, i)] % 32 = type

-----------------------------------------------------------------------------
(* Packets.                                                                *)

\* Mutant: the fragment header is not taken off the room of a fragment.
ChunkSizeFull(nal, at) == IF Len(nal) - at > MaxRtpPayload THEN MaxRtpPayload ELSE Len(nal) - at
\* The size of the next fragment.
ChunkSize(nal, at) == IF Len(nal) - at > MaxRtpPayload - 2 THEN MaxRtpPayload - 2 ELSE Len(nal) - at

FuType == 28
Fragment(nal, at) ==
  LET size == ChunkSize(nal, at)
      start == IF at = 1 THEN 128 ELSE 0
      end == IF at + size = Len(nal) THEN 64 ELSE 0
  IN <<(nal[1] \div 32) * 32 + FuType, (nal[1] % 32) + start + end>> \o SubSeq(nal, at + 1, at + size)

IsSingle(nal) == Len(nal) <= MaxRtpPayload
\* What of the NAL is sent after the next packet.
OffsetAfter(nal, at) == IF IsSingle(nal) THEN Len(nal) ELSE at + ChunkSize(nal, at)

\* Of the number drawn for a connection nothing is sent: PLAY draws another.
SenderInit ==
  /\ unit = <<>> /\ nals = <<>> /\ offset = 1
  /\ packet = NoPacket /\ pending = 0 /\ budget = 0 /\ spent = 0
  /\ seq = 0 /\ expected = 0
  /\ media = "stopped" /\ counted = FALSE /\ recovered = FALSE
  /\ heard = <<>> /\ cut = FALSE

\* Mutant: the answer to PLAY is written before the numbers are drawn.
PlayAnswersFirst ==
  /\ \/ media = "stopped" /\ seq' \in Seqs
     \/ media = "idle" /\ UNCHANGED seq
  /\ media' = "idle"
  /\ expected' = seq
  /\ UNCHANGED <<unit, nals, offset, packet, pending, budget, spent, counted, recovered, heard, cut>>
\* PLAY draws a sequence number, unless the client plays, and announces the next one
\* in RTP-Info.
Play ==
  /\ \/ media = "stopped" /\ seq' \in Seqs
     \/ media = "idle" /\ UNCHANGED seq
  /\ media' = "idle"
  /\ expected' = seq'
  /\ UNCHANGED <<unit, nals, offset, packet, pending, budget, spent, counted, recovered, heard, cut>>

\* One deadline, and the first scan, which counts the NAL units: none is a failure.
StartUnit(d) ==
  /\ media = "idle"
  /\ unit' = d /\ nals' = Nals(d) /\ offset' = 1
  /\ budget' = SendDeadline /\ spent' = 0 /\ counted' = FALSE /\ heard' = <<>>
  /\ media' = IF Nals(d) = <<>> THEN "failed" ELSE "next"
  /\ UNCHANGED <<packet, pending, seq, recovered, expected, cut>>

\* Mutant: every fragment of the last NAL carries the marker.
NextPacketMarked ==
  /\ media = "next"
  /\ LET nal == Head(nals) IN
       /\ packet' = [seq |-> seq, marker |-> Len(nals) = 1,
                     payload |-> IF IsSingle(nal) THEN nal ELSE Fragment(nal, offset)]
       /\ offset' = OffsetAfter(nal, offset)
  /\ pending' = Overhead + Len(packet'.payload)
  /\ seq' = (seq + 1) % SeqRange
  /\ media' = "sending"
  /\ UNCHANGED <<unit, nals, budget, spent, counted, recovered, heard, expected, cut>>
\* Mutant: every packet has a deadline of its own.
NextPacketTimed ==
  /\ media = "next"
  /\ LET nal == Head(nals)
         last == OffsetAfter(nal, offset) = Len(nal)
     IN /\ packet' = [seq |-> seq, marker |-> last /\ Len(nals) = 1,
                      payload |-> IF IsSingle(nal) THEN nal ELSE Fragment(nal, offset)]
        /\ offset' = OffsetAfter(nal, offset)
  /\ pending' = Overhead + Len(packet'.payload)
  /\ seq' = (seq + 1) % SeqRange
  /\ media' = "sending" /\ budget' = SendDeadline
  /\ UNCHANGED <<unit, nals, spent, counted, recovered, heard, expected, cut>>
\* send_h264_nal and send_rtp_packet: the next packet of the NAL.
NextPacket ==
  /\ media = "next"
  /\ LET nal == Head(nals)
         last == OffsetAfter(nal, offset) = Len(nal)
     IN /\ packet' = [seq |-> seq, marker |-> last /\ Len(nals) = 1,
                      payload |-> IF IsSingle(nal) THEN nal ELSE Fragment(nal, offset)]
        /\ offset' = OffsetAfter(nal, offset)
  /\ pending' = Overhead + Len(packet'.payload)
  /\ seq' = (seq + 1) % SeqRange
  /\ media' = "sending"
  /\ UNCHANGED <<unit, nals, budget, spent, counted, recovered, heard, expected, cut>>

-----------------------------------------------------------------------------
(* send_all.                                                               *)

\* The packet is with the client; the next one, or the next NAL, or the end.
Delivered ==
  /\ heard' = Append(heard, packet)
  /\ expected' = (expected + 1) % SeqRange
  /\ packet' = NoPacket
  /\ IF offset < Len(Head(nals))
     THEN UNCHANGED <<nals, offset>> /\ media' = "next"
     ELSE /\ nals' = Tail(nals) /\ offset' = 1
          /\ media' = IF Len(nals) = 1 THEN "sent" ELSE "next"

\* The socket takes n bytes.
Send(n) ==
  /\ media = "sending" /\ n \in 1 .. pending
  /\ pending' = pending - n
  /\ IF n = pending THEN Delivered
     ELSE UNCHANGED <<nals, offset, packet, heard, expected, media>>
  /\ UNCHANGED <<unit, seq, budget, spent, counted, recovered, cut>>

\* Part of a packet, or of an answer, has left.
IsCut == 0 < pending /\ pending < Overhead + Len(packet.payload)

\* It takes none, and there is time to wait: select() returns when the socket is
\* writable, at the latest after one unit of time.
SendWaits ==
  /\ media = "sending" /\ budget > 0
  /\ budget' = budget - 1 /\ spent' = spent + 1
  /\ UNCHANGED <<unit, nals, offset, packet, pending, seq, media, counted, recovered, heard,
                 expected, cut>>

\* The deadline is over, or the socket fails.
SendFails ==
  /\ media = "sending"
  /\ media' = "failed" /\ counted' = TRUE /\ cut' = (cut \/ IsCut)
  /\ UNCHANGED <<unit, nals, offset, packet, pending, seq, budget, spent, recovered, heard, expected>>

-----------------------------------------------------------------------------
(* handle_client, after stream_one_frame.                                  *)

\* The unit is forgotten.
Forgotten ==
  /\ unit' = <<>> /\ nals' = <<>> /\ offset' = 1 /\ budget' = 0 /\ spent' = 0
  /\ packet' = NoPacket /\ pending' = 0 /\ heard' = <<>>

\* The unit is sent, and its buffer goes back to the encoder, or cannot.
UnitSent ==
  /\ media = "sent"
  /\ media' \in {"idle", "failed"}
  /\ Forgotten
  /\ UNCHANGED <<seq, counted, recovered, expected, cut>>

\* The encoder has no frame for this turn.
EncoderFails ==
  /\ media = "idle"
  /\ media' = "failed" /\ counted' = FALSE
  /\ UNCHANGED <<unit, nals, offset, packet, pending, seq, budget, spent, recovered, heard,
                 expected, cut>>

\* The peer is at fault, the recovery was used up or fails: the client is let go.
Disconnect ==
  /\ media = "failed"
  /\ media' = "closed"
  /\ UNCHANGED <<unit, nals, offset, packet, pending, seq, budget, spent, counted, recovered, heard,
                 expected, cut>>

\* Mutant: a peer that does not take what it is sent gets a new encoder.
RecoverAnyway ==
  /\ media = "failed" /\ ~recovered
  /\ media' = "idle" /\ recovered' = TRUE
  /\ Forgotten
  /\ UNCHANGED <<seq, counted, expected, cut>>
\* The encoder is at fault: it is rebuilt, once, and the client stays.
Recover ==
  /\ media = "failed" /\ ~counted /\ ~recovered
  /\ media' = "idle" /\ recovered' = TRUE
  /\ Forgotten
  /\ UNCHANGED <<seq, counted, expected, cut>>

\* What happens without the client asking.
MediaNext ==
  \/ NextPacket \/ \E n \in 1 .. pending : Send(n)
  \/ SendWaits \/ SendFails
  \/ UnitSent \/ EncoderFails \/ Disconnect \/ Recover

-----------------------------------------------------------------------------
(* Properties.                                                             *)

SenderTypeOK ==
  /\ seq \in Seqs /\ expected \in Seqs
  /\ pending \in Nat /\ budget \in 0 .. SendDeadline /\ spent \in Nat /\ offset \in Nat
  /\ media \in {"stopped", "idle", "next", "sending", "sent", "failed", "closed"}
  /\ packet.seq \in Seqs /\ Len(packet.payload) <= MaxRtpPayload
  /\ counted \in BOOLEAN /\ recovered \in BOOLEAN /\ cut \in BOOLEAN

\* The receiver's side, after RFC 6184: single NAL units stand for themselves,
\* fragments from the one with the start bit to the one with the end bit make one.
IsFragment(p) == p.payload[1] % 32 = FuType
HasStart(p) == p.payload[2] >= 128
HasEnd(p) == (p.payload[2] \div 64) % 2 = 1
Rebuilt(received, p) ==
  LET header == (p.payload[1] \div 32) * 32 + (p.payload[2] % 32)
      data == SubSeq(p.payload, 3, Len(p.payload))
  IN IF ~IsFragment(p) THEN Append(received, p.payload)
     ELSE IF HasStart(p) THEN Append(received, <<header>> \o data)
     ELSE Append(Front(received), Last(received) \o data)
Depacketized(ps) ==
  LET after[n \in 0 .. Len(ps)] == IF n = 0 THEN <<>> ELSE Rebuilt(after[n - 1], ps[n])
  IN after[Len(ps)]
FragmentsPaired(ps) ==
  \A i \in DOMAIN ps : IsFragment(ps[i]) =>
    /\ ~HasStart(ps[i]) => i > 1 /\ IsFragment(ps[i - 1]) /\ ~HasEnd(ps[i - 1])
    /\ ~HasEnd(ps[i]) => i < Len(ps) /\ IsFragment(ps[i + 1]) /\ ~HasStart(ps[i + 1])

\* The NAL units of a byte stream, after Annex B of H.264: what is between a start
\* code of three bytes and the next one, less the zeros at its end.
Codes(d) == {i \in 1 .. Len(d) - 2 : SubSeq(d, i, i + 2) = <<0, 0, 1>>}
CodeAfter(d, i) ==
  CHOOSE j \in Codes(d) \cup {Len(d) + 1} : j > i /\ \A k \in Codes(d) : k > i => j <= k
Content(d, i) ==
  {k \in i + 3 .. CodeAfter(d, i) - 1 : \E l \in k .. CodeAfter(d, i) - 1 : d[l] # 0}
Bodies(d) == {i \in Codes(d) : Content(d, i) # {}}
Rank(S, i) == Cardinality({j \in S : j <= i})
AnnexB(d) ==
  [n \in 1 .. Cardinality(Bodies(d)) |->
     LET i == CHOOSE i \in Bodies(d) : Rank(Bodies(d), i) = n
     IN SubSeq(d, i + 3, i + 2 + Cardinality(Content(d, i)))]

\* The encoder emits H.264: RTP takes the types from 24 on for packets of its own.
ASSUME UnitsAreH264 == \A d \in Units : \A i \in DOMAIN AnnexB(d) : AnnexB(d)[i][1] % 32 # FuType

\* A client that has all packets of an access unit has its NAL units, byte for byte,
\* and knows the end of the unit by the marker (and by no other packet).
UnitArrives ==
  media = "sent" =>
    /\ Depacketized(heard) = AnnexB(unit) /\ FragmentsPaired(heard)
    /\ \A i \in DOMAIN heard : heard[i].marker <=> i = Len(heard)

\* A unit the server takes for an IDR (prime_parameter_sets) is one for the client,
\* although two different scanners say so.
IdrIsIdr ==
  media = "sent" =>
    (HasNalType(unit, 5) <=> \E i \in DOMAIN AnnexB(unit) : AnnexB(unit)[i][1] % 32 = 5)

\* rtsp_server.cpp:1130, "A slow receiver gets one deadline for the whole access
\* unit": however many packets it has, the server waits no longer for one client.
OneDeadline == spent <= SendDeadline

\* The packets the client has whole are numbered without a gap from the number that
\* the answer to PLAY announced (rtsp_server.cpp:1053-1056).
NumberedAsAnnounced ==
  \A i \in DOMAIN heard :
    media \in {"next", "sending", "sent"} =>
      heard[i].seq = (expected + i - 1 - Len(heard)) % SeqRange
=============================================================================
