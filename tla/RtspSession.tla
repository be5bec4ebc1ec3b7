---------------------------- MODULE RtspSession ----------------------------
(***************************************************************************)
(* One RTSP client after the other (firmware/main/rtsp/rtsp_server.cpp):   *)
(* rtsp_task, handle_client and the life of the H.264 encoder under them.  *)
(*                                                                         *)
(* The encoder outlives the clients.  It emits an IDR every Gop frames, and *)
(* a frame can be decoded only by who has every frame since the IDR before *)
(* it.  DESCRIBE and PLAY "prime" it: frames are encoded until an IDR comes *)
(* out, which is kept ("pending") and sent first.  A failure while playing *)
(* rebuilds the encoder once; a watchdog does the same when no RTP packet  *)
(* was sent for Stall units of time.                                       *)
(*                                                                         *)
(* A frame is its position in the GOP; RTSP text and RTP packets are left   *)
(* out.  What may go wrong outside rtsp_task is the constant Faults.       *)
(*                                                                         *)
(* An operator marked "Mutant" is a plausible mistake in the definition    *)
(* that follows it; no behaviour of the specification uses it.             *)
(***************************************************************************)
EXTENDS Naturals

CONSTANTS
  Gop,          \* CONFIG_TAB5_RTSP_GOP: frames from one IDR to the next
  PrimeTries,   \* frames prime_parameter_sets encodes at most
  MaxDrops,     \* kMaxConsecutiveFrameDrops
  Stall,        \* kRtpPacketStallTimeoutUs, in units of time
  Faults,       \* what may fail, a subset of FaultKinds
  Off           \* s_last_rtp_packet_us is 0: the watchdog is disarmed

\* The camera stops; a frame is not convertible; the encoder device fails; memory
\* is short; the peer does not take what is sent to it.
FaultKinds == {"camera", "conversion", "encoder", "memory", "peer"}

ASSUME SessionBounds ==
  /\ Gop \in Nat \ {0} /\ PrimeTries \in Nat \ {0} /\ MaxDrops \in Nat \ {0} /\ Stall \in Nat \ {0}
ASSUME SessionFaults == Faults \subseteq FaultKinds
ASSUME OffIsNoTime == Off \notin Nat

VARIABLES
  streaming,   \* hal_uvc_is_streaming()
  enc,         \* the encoder: s_pipeline_ready, whether its queues run and hold
               \* their buffers, the position of the next frame in the GOP
  pending,     \* s_pending_idr is there
  pc,          \* where rtsp_task is
  ses,         \* setup, playing, recovery_attempts, consecutive_frame_drops
  prime,       \* who primes, and the attempts left
  silent,      \* time since s_last_rtp_packet_us, or Off
  ref          \* what the client can decode: "none" but an IDR, "next" frame too,
               \* "broken" once it was sent one it cannot

vars == <<streaming, enc, pending, pc, ses, prime, silent, ref>>

NoSession == [setup |-> FALSE, playing |-> FALSE, recoveries |-> 0, drops |-> 0]
NoPrime   == [why |-> "none", left |-> 0]
Closed    == [ready |-> FALSE, on |-> FALSE, at |-> 0]
Opened    == [ready |-> TRUE, on |-> TRUE, at |-> 0]

\* The server starts after edge_live_start has prepared the encoder, or found no
\* camera to prepare it for.
Init ==
  /\ streaming \in {TRUE} \cup (IF "camera" \in Faults THEN {FALSE} ELSE {})
  /\ enc \in {Closed, Opened}
  /\ pending = FALSE
  /\ pc = "accept" /\ ses = NoSession /\ prime = NoPrime
  /\ silent = Off /\ ref = "none"

-----------------------------------------------------------------------------
(* The camera, and time.                                                   *)

Camera ==
  /\ "camera" \in Faults
  /\ streaming' = ~streaming
  /\ UNCHANGED <<enc, pending, pc, ses, prime, silent, ref>>

Tick ==
  /\ silent # Off /\ silent < Stall
  /\ silent' = silent + 1
  /\ UNCHANGED <<streaming, enc, pending, pc, ses, prime, ref>>

-----------------------------------------------------------------------------
(* The encoder.                                                            *)

\* shutdown_video, with or without the source buffers.
ShutDown == enc' = Closed /\ pending' = FALSE

\* initialize_video: a ready pipeline is used as it is.
InitFails == ~enc.ready /\ (~streaming \/ Faults \cap {"encoder", "memory"} # {})

\* encode_frame has a frame: the next one of the GOP.
Encodes == streaming /\ enc.on
Advanced == [enc EXCEPT !.at = (@ + 1) % Gop]
IsIdr == enc.at = 0

\* No frame could be converted: the encoder does not see any.
Drops == streaming /\ "conversion" \in Faults

Quiesced == [enc EXCEPT !.on = FALSE]

\* There is no frame, or the encoder fails, and is quiesced on most paths.
Fails(e) ==
  /\ ~streaming \/ ~enc.on \/ Faults \cap {"camera", "encoder"} # {}
  /\ e = enc \/ (streaming /\ e = Quiesced)

\* requeue_encoded failed: the encoder is left without its output buffer.
Starved == [Advanced EXCEPT !.on = FALSE]

-----------------------------------------------------------------------------
(* A client, and its requests.                                             *)

\* handle_client returns; the encoder stays as it is.
Disconnect == pc' = "accept" /\ ses' = NoSession /\ prime' = NoPrime

\* prime_parameter_sets begins: an older IDR is forgotten.  The client does not see
\* what is encoded from here on.
PrimeFor(why) ==
  /\ pc' = "prime" /\ prime' = [why |-> why, left |-> PrimeTries] /\ pending' = FALSE
  /\ ref' = IF ref = "broken" THEN "broken" ELSE "none"

Accept ==
  /\ pc = "accept"
  /\ pc' = "loop" /\ silent' = Off /\ ref' = "none"
  /\ UNCHANGED <<streaming, enc, pending, ses, prime>>

\* The client closes, sends what cannot be framed, or TEARDOWN.
Leave ==
  /\ pc = "loop"
  /\ Disconnect
  /\ UNCHANGED <<streaming, enc, pending, silent, ref>>

\* No request, RTCP, OPTIONS or GET_PARAMETER.
NoRequest ==
  /\ pc = "loop" /\ pc' = "media"
  /\ UNCHANGED <<streaming, enc, pending, ses, prime, silent, ref>>

Setup ==
  /\ pc = "loop" /\ pc' = "media"
  /\ ses' = [ses EXCEPT !.setup = TRUE]
  /\ UNCHANGED <<streaming, enc, pending, prime, silent, ref>>

\* DESCRIBE fails on a pipeline that cannot be initialized ...
DescribeFails ==
  /\ pc = "loop" /\ InitFails
  /\ ShutDown /\ Disconnect
  /\ UNCHANGED <<streaming, silent, ref>>

\* ... or primes it.
Describe ==
  /\ pc = "loop" /\ (enc.ready \/ streaming)
  /\ enc' = IF enc.ready THEN enc ELSE Opened
  /\ PrimeFor("describe")
  /\ UNCHANGED <<streaming, ses, silent>>

SendSdp ==
  /\ pc = "sdp" /\ pc' = "media" /\ prime' = NoPrime
  /\ UNCHANGED <<streaming, enc, pending, ses, silent, ref>>

SendSdpFails ==
  /\ pc = "sdp" /\ "peer" \in Faults
  /\ ShutDown /\ Disconnect
  /\ UNCHANGED <<streaming, silent, ref>>

\* PLAY without SETUP, or on a pipeline that cannot be initialized.
PlayRefused ==
  /\ pc = "loop"
  /\ \/ ~ses.setup /\ UNCHANGED <<enc, pending>>
     \/ ses.setup /\ InitFails /\ ShutDown
  /\ Disconnect
  /\ UNCHANGED <<streaming, silent, ref>>

\* Mutant: the IDR is not waited for when the encoder is running already.
PlaySkipsPrime ==
  /\ pc = "loop" /\ ses.setup /\ (enc.ready \/ streaming)
  /\ enc' = IF enc.ready THEN enc ELSE Opened
  /\ pc' = IF ses.playing THEN "media" ELSE "start"
  /\ UNCHANGED <<prime, pending, ref>>
  /\ UNCHANGED <<streaming, ses, silent>>

\* PLAY: nothing new while playing; otherwise an IDR has to be there.
Play ==
  /\ pc = "loop" /\ ses.setup /\ (enc.ready \/ streaming)
  /\ enc' = IF enc.ready THEN enc ELSE Opened
  /\ IF ses.playing THEN pc' = "media" /\ UNCHANGED <<prime, pending, ref>>
     ELSE IF pending THEN pc' = "start" /\ UNCHANGED <<prime, pending, ref>>
     ELSE PrimeFor("play")
  /\ UNCHANGED <<streaming, ses, silent>>

\* The answer to the PLAY that starts playback, and the watchdog with it.
Start ==
  /\ pc = "start" /\ pc' = "media" /\ prime' = NoPrime
  /\ ses' = [ses EXCEPT !.playing = TRUE, !.recoveries = 0]
  /\ silent' = 0
  /\ UNCHANGED <<streaming, enc, pending, ref>>

\* A response the peer does not take: any but the SDP.
ResponseFails ==
  /\ pc \in {"loop", "start"} /\ "peer" \in Faults
  /\ Disconnect
  /\ UNCHANGED <<streaming, enc, pending, silent, ref>>

Request ==
  \/ NoRequest \/ Setup \/ DescribeFails \/ Describe \/ SendSdp \/ SendSdpFails
  \/ PlayRefused \/ Play \/ Start \/ ResponseFails

-----------------------------------------------------------------------------
(* prime_parameter_sets.                                                   *)

\* One attempt spent, or the last one: giving up.  Only DESCRIBE takes the
\* pipeline down with it.
GiveUpPrime(e) ==
  /\ IF prime.why = "describe" THEN ShutDown ELSE enc' = e /\ UNCHANGED pending
  /\ Disconnect
  /\ UNCHANGED <<streaming, silent, ref>>

NextAttempt(e) ==
  IF prime.left = 1 THEN GiveUpPrime(e)
  ELSE /\ prime' = [prime EXCEPT !.left = @ - 1]
       /\ enc' = e
       /\ UNCHANGED <<streaming, pending, pc, ses, silent, ref>>

PrimeDrops == pc = "prime" /\ Drops /\ NextAttempt(enc)

\* A frame that is no IDR is thrown away.
PrimeSkips == pc = "prime" /\ Encodes /\ ~IsIdr /\ NextAttempt(Advanced)

\* The encoder fails, or its buffer cannot be queued again, or the IDR not be kept.
PrimeFails ==
  /\ pc = "prime"
  /\ \/ \E e \in {enc, Quiesced} : Fails(e) /\ GiveUpPrime(e)
     \/ Encodes /\ "encoder" \in Faults /\ GiveUpPrime(Starved)
     \/ Encodes /\ IsIdr /\ "memory" \in Faults /\ GiveUpPrime(Advanced)

\* The IDR is kept for the client.
PrimeKeeps ==
  /\ pc = "prime" /\ Encodes /\ IsIdr
  /\ enc' = Advanced /\ pending' = TRUE
  /\ pc' = CASE prime.why = "describe" -> "sdp" [] prime.why = "play" -> "start"
            [] OTHER -> "loop"
  /\ prime' = NoPrime
  /\ UNCHANGED <<streaming, ses, silent, ref>>

Prime == PrimeDrops \/ PrimeSkips \/ PrimeFails \/ PrimeKeeps

-----------------------------------------------------------------------------
(* Playing.                                                                *)

\* Nothing is to be sent yet.
NotDue ==
  /\ pc = "media" /\ pc' = "loop"
  /\ ses.playing => silent # Stall
  /\ UNCHANGED <<streaming, enc, pending, ses, prime, silent, ref>>

\* The one rebuild of a playback: a new encoder, and its IDR ...
Rebuild(why) ==
  /\ ses.recoveries = 0
  /\ streaming
  /\ enc' = Opened
  /\ PrimeFor(why)

\* ... or no camera or device for it.
RebuildFails ==
  /\ ses.recoveries = 0
  /\ ~streaming \/ Faults \cap {"encoder", "memory"} # {}
  /\ ShutDown /\ Disconnect

\* No RTP packet was sent for too long: disarmed until the next packet.
Watchdog ==
  /\ pc = "media" /\ ses.playing /\ silent = Stall
  /\ Rebuild("watchdog")
  /\ ses' = [ses EXCEPT !.recoveries = 1, !.drops = 0]
  /\ silent' = Off
  /\ UNCHANGED streaming

\* Mutant: the client of a pipeline that failed twice is kept.
WatchdogContinues ==
  /\ pc = "media" /\ ses.playing /\ silent = Stall
  /\ \/ RebuildFails /\ silent' = Off
     \/ ses.recoveries # 0 /\ pc' = "loop" /\ UNCHANGED <<enc, pending, silent, ses, prime>>
  /\ UNCHANGED <<streaming, ref>>

WatchdogGivesUp ==
  /\ pc = "media" /\ ses.playing /\ silent = Stall
  /\ \/ RebuildFails /\ silent' = Off
     \/ ses.recoveries # 0 /\ Disconnect /\ UNCHANGED <<enc, pending, silent>>
  /\ UNCHANGED <<streaming, ref>>

Due == pc = "media" /\ ses.playing /\ silent # Stall

\* What the client makes of the frame at this position.
RefAfter(at) == IF at = 0 THEN "next" ELSE IF ref = "next" THEN "next" ELSE "broken"

\* Mutant: only the packets of fresh frames are noted by the watchdog.
SendPendingUnnoted ==
  /\ Due /\ pending
  /\ pending' = FALSE /\ ses' = [ses EXCEPT !.drops = 0]
  /\ ref' = IF enc.at = 1 % Gop THEN "next" ELSE "none"
  /\ pc' = "loop"
  /\ UNCHANGED <<streaming, enc, prime, silent>>

\* The kept IDR is sent first: the next frame of the encoder follows it.
SendPending ==
  /\ Due /\ pending
  /\ pending' = FALSE /\ silent' = 0 /\ ses' = [ses EXCEPT !.drops = 0]
  /\ ref' = IF enc.at = 1 % Gop THEN "next" ELSE "none"
  /\ pc' = "loop"
  /\ UNCHANGED <<streaming, enc, prime>>

SendFrame ==
  /\ Due /\ ~pending /\ Encodes
  /\ enc' = Advanced /\ silent' = 0 /\ ses' = [ses EXCEPT !.drops = 0]
  /\ ref' = RefAfter(enc.at)
  /\ pc' = "loop"
  /\ UNCHANGED <<streaming, pending, prime>>

\* The peer does not take the frame: no fault of the encoder.
SendFails ==
  /\ Due /\ "peer" \in Faults
  /\ \/ pending /\ UNCHANGED enc
     \/ ~pending /\ Encodes /\ (enc' = Advanced \/ ("encoder" \in Faults /\ enc' = Starved))
  /\ pending' = FALSE /\ Disconnect
  /\ UNCHANGED <<streaming, silent, ref>>

\* Mutant: one drop too many is tolerated.
DropFrameMore ==
  /\ Due /\ ~pending /\ Drops
  /\ ses' = [ses EXCEPT !.drops = @ + 1]
  /\ pc' = IF ses.drops < MaxDrops THEN "loop" ELSE "failed"
  /\ UNCHANGED <<streaming, enc, pending, prime, silent, ref>>

\* A frame dropped is a frame not encoded; too many in a row are a failure.
DropFrame ==
  /\ Due /\ ~pending /\ Drops
  /\ ses' = [ses EXCEPT !.drops = @ + 1]
  /\ pc' = IF ses.drops + 1 < MaxDrops THEN "loop" ELSE "failed"
  /\ UNCHANGED <<streaming, enc, pending, prime, silent, ref>>

\* Mutant: a failure is taken for a dropped frame.
FrameFailsAsDrop ==
  /\ Due /\ ~pending
  /\ \E e \in {enc, Quiesced} : Fails(e) /\ enc' = e
  /\ pc' = "loop"
  /\ UNCHANGED <<streaming, pending, ses, prime, silent, ref>>

\* The encoder fails before or after the frame was sent.
FrameFails ==
  /\ Due /\ ~pending
  /\ \/ enc' \in {enc, Quiesced} /\ Fails(enc') /\ UNCHANGED <<silent, ref>>
     \/ /\ Encodes /\ "encoder" \in Faults
        /\ enc' = Starved /\ silent' = 0 /\ ref' = RefAfter(enc.at)
  /\ ses' = [ses EXCEPT !.drops = 0]
  /\ pc' = "failed"
  /\ UNCHANGED <<streaming, pending, prime>>

\* The bounded recovery: the watchdog and the drops stay as they are.
Recover ==
  /\ pc = "failed"
  /\ Rebuild("runtime")
  /\ ses' = [ses EXCEPT !.recoveries = 1]
  /\ UNCHANGED <<streaming, silent>>

RecoverGivesUp ==
  /\ pc = "failed"
  /\ \/ RebuildFails
     \/ ses.recoveries # 0 /\ Disconnect /\ UNCHANGED <<enc, pending>>
  /\ UNCHANGED <<streaming, silent, ref>>

FrameDue == SendPending \/ SendFrame \/ SendFails \/ DropFrame \/ FrameFails
Media == Watchdog \/ WatchdogGivesUp \/ FrameDue \/ Recover \/ RecoverGivesUp

-----------------------------------------------------------------------------
Next == Camera \/ Tick \/ Accept \/ Leave \/ Request \/ Prime \/ NotDue \/ Media

Spec == Init /\ [][Next]_vars

\* rtsp_task finishes what it is doing, and comes back to frames that are due:
\* the next one is never more than a frame period away; time passes.
Fairness ==
  /\ WF_vars(Tick)
  /\ WF_vars(NoRequest \/ NotDue)
  /\ WF_vars(Prime) /\ WF_vars(SendSdp) /\ WF_vars(Start)
  /\ SF_vars(Media)

FairSpec == Spec /\ Fairness

-----------------------------------------------------------------------------
Positions == 0 .. Gop - 1
Pcs  == {"accept", "loop", "prime", "sdp", "start", "media", "failed"}
Whys == {"none", "describe", "play", "watchdog", "runtime"}

TypeOK ==
  /\ streaming \in BOOLEAN
  /\ enc \in [ready : BOOLEAN, on : BOOLEAN, at : Positions]
  /\ pending \in BOOLEAN
  /\ pc \in Pcs
  /\ ses \in [setup : BOOLEAN, playing : BOOLEAN, recoveries : {0, 1}, drops : 0 .. MaxDrops]
  /\ prime \in [why : Whys, left : 0 .. PrimeTries]
  /\ silent \in {Off} \cup 0 .. Stall
  /\ ref \in {"none", "next", "broken"}

\* No client is ever sent a frame that it cannot decode: the first one is an IDR,
\* and none is left out before the next IDR, whatever was dropped, rebuilt or
\* primed in between (rtsp_server.cpp:1193-1196, 1436-1441, 1489-1526).
Decodable == ref # "broken"

\* Between two iterations a playing client has a pipeline that runs: a failure was
\* recovered from, or ended the session (rtsp_server.cpp:1508-1525).
PlayingIsUsable ==
  pc \in {"loop", "media", "sdp"} /\ ses.playing => enc.ready /\ enc.on

\* While playing the watchdog is armed, or the IDR that arms it is about to be
\* sent (rtsp_server.cpp:1450-1455, 1480).
WatchdogArmed ==
  pc \in {"loop", "media"} /\ ses.playing /\ silent = Off => pending

\* What these rest on.  A kept IDR is the frame before the encoder's next one, ...
PendingIsLast == pending => enc.ready /\ enc.on /\ enc.at = 1 % Gop
\* ... the answers to DESCRIBE and PLAY are given with one at hand, ...
AnsweredWithIdr == pc \in {"sdp", "start"} => pending
\* ... a playing client has all frames so far, or gets that IDR next.
InStep == pc \in {"loop", "media"} /\ ses.playing /\ ~pending => ref = "next"
\* After too many drops a rebuild, and its IDR, come before the next frame.
DropsCounted == ses.drops = MaxDrops => pc \in {"failed", "prime"} \/ pending
OwnPlace ==
  /\ enc.on => enc.ready
  /\ pc = "accept" => ~ses.playing
  /\ pc = "prime" => prime.left # 0 /\ ~pending

IInv ==
  /\ TypeOK /\ Decodable /\ PlayingIsUsable /\ WatchdogArmed
  /\ PendingIsLast /\ AnsweredWithIdr /\ InStep /\ DropsCounted /\ OwnPlace

\* Playing is never silent for ever: a packet is sent, or the client is let go
\* (rtsp_server.cpp:91-94).
NeverSilent == ses.playing ~> (silent = 0 \/ ~ses.playing)

\* "Keep the successfully prepared encoder alive across ordinary client
\* disconnects" (rtsp_server.cpp:1562): without a fault, it is never rebuilt.
EncoderKept == [][enc.ready => enc'.ready]_enc
=============================================================================
