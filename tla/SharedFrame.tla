---------------------------- MODULE SharedFrame ----------------------------
(***************************************************************************)
(* The decoded frame that the RTSP pipeline lends to the preview           *)
(* (firmware/main/rtsp/rtsp_server.cpp), and the preview loop that puts    *)
(* pictures on the screen (firmware/main/ui.cpp).                          *)
(*                                                                         *)
(* rtsp_task decodes MJPEG frames into one RGB888 buffer under a mutex; the *)
(* preview takes that mutex to copy the buffer, or decodes a frame of its  *)
(* own.  It draws into the hidden one of two canvas buffers and swaps them *)
(* under the display lock, which the LVGL task holds while it renders.     *)
(*                                                                         *)
(* A frame is its sequence, 0 is no frame.  The camera is what hal_uvc.cpp *)
(* promises (see UvcBroker): some recent frame newer than the one named.   *)
(* Generations and time are marks: frames up to "base" are of an earlier   *)
(* stream, frames up to "stale" too old to be displayed, frames up to      *)
(* "expired" too old to stay on the screen.                                *)
(*                                                                         *)
(* An operator marked "Mutant" is a plausible mistake in the definition    *)
(* that follows it; no behaviour of the specification uses it.             *)
(***************************************************************************)
EXTENDS Naturals

CONSTANTS
  MaxFrames,    \* bound: frames the camera delivers
  MaxFrees,     \* bound: failures after which rtsp_task frees its buffers
  Blank,        \* pixels that are no whole frame
  Freed         \* s_usb_rgb888 is nullptr

ASSUME SharedBounds == MaxFrames \in Nat /\ MaxFrees \in Nat

NoFrame == 0
Frame   == 1 .. MaxFrames
Frames  == 0 .. MaxFrames

ASSUME SharedValues == Blank \notin Nat /\ Freed \notin Nat /\ Blank # Freed

VARIABLES
  cam,       \* the camera: newest sequence, s_streaming, and the marks
  buf,       \* what s_usb_rgb888 holds
  decoded,   \* s_decoded_info and s_decoded_valid
  mutex,     \* who holds decoded_frame_mutex
  rt,        \* rtsp_task: where it is, its frame, s_usb_sequence
  pv,        \* preview: where it is, the frame it decoded or borrowed ("decoded",
             \* "frame"), what is in its rgb buffer, its sequence
  screen,    \* what the two buffers of the canvas hold, and the picture that
             \* displayed_us and has_preview stand for
  draw,      \* the buffer the LVGL task renders
  frees      \* times the buffers were freed

vars == <<cam, buf, decoded, mutex, rt, pv, screen, draw, frees>>

Init ==
  /\ cam = [seq |-> 0, base |-> 0, streaming |-> TRUE, stale |-> 0, expired |-> 0]
  /\ buf = Freed
  /\ decoded = [valid |-> FALSE, info |-> NoFrame]
  /\ mutex = "free"
  /\ rt = [pc |-> "idle", frame |-> NoFrame, seq |-> 0]
  /\ pv = [pc |-> "wake", frame |-> NoFrame, rgb |-> Blank, seq |-> 0]
  /\ screen = [pixels |-> NoFrame, render_pixels |-> NoFrame, shown |-> NoFrame]
  /\ draw = "none"
  /\ frees = 0

-----------------------------------------------------------------------------
(* The camera and the passing of time.                                     *)

CameraStep == UNCHANGED <<buf, decoded, mutex, rt, pv, screen, draw, frees>>

NewFrame ==
  /\ cam.streaming /\ cam.seq < MaxFrames
  /\ cam' = [cam EXCEPT !.seq = @ + 1]
  /\ CameraStep

StreamEnds   == cam.streaming /\ cam' = [cam EXCEPT !.streaming = FALSE] /\ CameraStep
StreamBegins ==
  ~cam.streaming /\ cam' = [cam EXCEPT !.streaming = TRUE, !.base = cam.seq] /\ CameraStep

\* The oldest displayable frame becomes too old, the oldest of those expires.
Age    == cam.stale < cam.seq /\ cam' = [cam EXCEPT !.stale = @ + 1] /\ CameraStep
Expire == cam.expired < cam.stale /\ cam' = [cam EXCEPT !.expired = @ + 1] /\ CameraStep

\* What hal_uvc_copy_latest_frame may hand out after the frame last.
Available(last) ==
  {f \in 1 .. cam.seq : cam.streaming /\ f > cam.base /\ f > last}

-----------------------------------------------------------------------------
(* rtsp_task.                                                              *)

RtspStep == UNCHANGED <<cam, pv, screen, draw>>

\* A client asks for the stream (DESCRIBE, PLAY, a recovery).
Prepare ==
  /\ rt.pc = "idle"
  /\ buf' = IF buf = Freed THEN Blank ELSE buf
  /\ rt' = [rt EXCEPT !.pc = "next"]
  /\ UNCHANGED <<decoded, mutex, frees>> /\ RtspStep

\* The client leaves: the buffers stay for the next one.
Leave ==
  /\ rt.pc = "next"
  /\ rt' = [rt EXCEPT !.pc = "idle"]
  /\ UNCHANGED <<buf, decoded, mutex, frees>> /\ RtspStep

\* A DESCRIBE that fails, or an initialization: shutdown_video() frees them.
FreeBuffers ==
  /\ rt.pc \in {"idle", "next"}
  /\ frees < MaxFrees /\ frees' = frees + 1
  /\ buf' = Freed
  /\ rt' = [rt EXCEPT !.pc = "idle", !.seq = 0]
  /\ UNCHANGED <<decoded, mutex>> /\ RtspStep

\* copy_usb_frame, and the way to the decoder.
CopyFrame ==
  /\ rt.pc = "next"
  /\ \E f \in Available(rt.seq) : rt' = [rt EXCEPT !.pc = "lock", !.frame = f]
  /\ UNCHANGED <<buf, decoded, mutex, frees>> /\ RtspStep

\* A YUY2 frame is converted, or a frame of another size refused: no decoder.
ConvertFrame ==
  /\ rt.pc = "next"
  /\ \E f \in Available(rt.seq) : rt' = [rt EXCEPT !.seq = f]
  /\ UNCHANGED <<buf, decoded, mutex, frees>> /\ RtspStep

\* Mutant: the last frame stays valid until the new one is.
DecodeLockKeepsValid ==
  /\ rt.pc = "lock"
  /\ mutex = "free" /\ mutex' = "rtsp"
  /\ rt' = [rt EXCEPT !.pc = "decode"]
  /\ UNCHANGED <<buf, decoded, frees>> /\ RtspStep
\* decode_usb_mjpeg_to_yuv420: take the mutex; nobody may borrow any more ...
DecodeLock ==
  /\ rt.pc = "lock"
  /\ mutex = "free" /\ mutex' = "rtsp"
  /\ decoded' = [decoded EXCEPT !.valid = FALSE]
  /\ rt' = [rt EXCEPT !.pc = "decode"]
  /\ UNCHANGED <<buf, frees>> /\ RtspStep

\* ... the hardware writes into the buffer ...
DecodeWrite ==
  /\ rt.pc = "decode"
  /\ buf' = Blank
  /\ rt' = [rt EXCEPT !.pc = "write"]
  /\ UNCHANGED <<decoded, mutex, frees>> /\ RtspStep

\* ... a truncated or undecodable frame is skipped ...
DecodeFails ==
  /\ rt.pc \in {"decode", "write"}
  /\ mutex' = "free"
  /\ rt' = [pc |-> "next", frame |-> NoFrame, seq |-> rt.frame]
  /\ UNCHANGED <<buf, decoded, frees>> /\ RtspStep

\* ... or the frame is complete.
DecodeEnds ==
  /\ rt.pc = "write"
  /\ buf' = rt.frame
  /\ decoded' = [valid |-> TRUE, info |-> rt.frame]
  /\ mutex' = "free"
  /\ rt' = [rt EXCEPT !.pc = "encode"]
  /\ UNCHANGED frees /\ RtspStep

\* The encoder takes the frame, or fails and the frame is asked for again.
Encode ==
  /\ rt.pc = "encode"
  /\ \E s \in {rt.seq, rt.frame} : rt' = [pc |-> "next", frame |-> NoFrame, seq |-> s]
  /\ UNCHANGED <<buf, decoded, mutex, frees>> /\ RtspStep

Decoding == DecodeWrite \/ DecodeFails \/ DecodeEnds \/ Encode
RtspTask == Prepare \/ Leave \/ FreeBuffers \/ CopyFrame \/ ConvertFrame \/ DecodeLock \/ Decoding

-----------------------------------------------------------------------------
(* The preview loop.                                                       *)

PreviewStep == UNCHANGED <<cam, buf, decoded, rt, frees>>

\* Mutant: the borrowed frame is not invalidated by the next decode.
LendableStale(last) == decoded.info # NoFrame /\ buf # Freed /\ decoded.info # last

\* rtsp_borrow_decoded_frame: a frame other than the last one is lent.
Lendable(last) == decoded.valid /\ buf # Freed /\ decoded.info # last

Borrow ==
  /\ pv.pc = "wake"
  /\ mutex = "free" /\ Lendable(pv.seq)
  /\ mutex' = "preview"
  /\ pv' = [pv EXCEPT !.pc = "copy", !.frame = decoded.info]
  /\ UNCHANGED <<screen, draw>> /\ PreviewStep

\* The mutex is not to be had in time, or there is nothing to lend.
BorrowFails ==
  /\ pv.pc = "wake"
  /\ mutex # "free" \/ ~Lendable(pv.seq)
  /\ pv' = [pv EXCEPT !.pc = "hal"]
  /\ UNCHANGED <<mutex, screen, draw>> /\ PreviewStep

\* Mutant: the pixels are copied onto the screen at once, under the display lock.
CopyEndsOnScreen ==
  /\ pv.pc = "copy"
  /\ draw = "none"
  /\ pv' = [pv EXCEPT !.pc = "judge", !.rgb = buf, !.seq = pv.frame]
  /\ mutex' = "free"
  /\ UNCHANGED <<screen, draw>> /\ PreviewStep

\* The pixels are copied, rtsp_release_decoded_frame follows at once.
CopyEnds ==
  /\ pv.pc = "copy"
  /\ pv' = [pv EXCEPT !.pc = "judge", !.rgb = buf, !.seq = pv.frame]
  /\ mutex' = "free"
  /\ UNCHANGED <<screen, draw>> /\ PreviewStep

\* Otherwise a frame of the camera, decoded here unless it is too old ...
HalFrame ==
  /\ pv.pc = "hal"
  /\ \E f \in Available(pv.seq) :
       \/ f > cam.stale /\ pv' = [pc |-> "judge", frame |-> f, rgb |-> f, seq |-> f]
       \/ pv' = [pv EXCEPT !.pc = "judge", !.seq = f]
  /\ UNCHANGED <<mutex, screen, draw>> /\ PreviewStep

\* ... or none, or one whose copy fails.
HalNothing ==
  /\ pv.pc = "hal"
  /\ pv' = [pv EXCEPT !.pc = "judge"]
  /\ UNCHANGED <<mutex, screen, draw>> /\ PreviewStep

Fresh == pv.frame # NoFrame /\ pv.frame > cam.base /\ cam.streaming /\ pv.frame > cam.stale

\* Mutant: only the end of the stream takes a picture off the screen.
OverdueIgnoresAge == screen.shown # NoFrame /\ ~cam.streaming

\* The picture on the screen must not stay.
Overdue == screen.shown # NoFrame /\ (~cam.streaming \/ screen.shown <= cam.expired)

\* The loop body ends, and its locals with it.
Asleep == [pc |-> "wake", frame |-> NoFrame, rgb |-> Blank, seq |-> pv.seq]

Judge ==
  /\ pv.pc = "judge"
  /\ pv' = IF Fresh THEN [pv EXCEPT !.pc = "paint"]
           ELSE IF Overdue THEN [Asleep EXCEPT !.pc = "clear"] ELSE Asleep
  /\ UNCHANGED <<mutex, screen, draw>> /\ PreviewStep

\* Mutant: the canvas is drawn where it is shown.
PaintVisible ==
  /\ pv.pc \in {"paint", "clear"}
  /\ screen' = [screen EXCEPT !.pixels = IF pv.pc = "paint" THEN pv.rgb ELSE NoFrame]
  /\ pv' = [pv EXCEPT !.pc = IF pv.pc = "paint" THEN "show" ELSE "black"]
  /\ UNCHANGED <<mutex, draw>> /\ PreviewStep

\* Scale the pixels, or black, into the hidden buffer ...
Paint ==
  /\ pv.pc \in {"paint", "clear"}
  /\ screen' = [screen EXCEPT !.render_pixels = IF pv.pc = "paint" THEN pv.rgb ELSE NoFrame]
  /\ pv' = [pv EXCEPT !.pc = IF pv.pc = "paint" THEN "show" ELSE "black"]
  /\ UNCHANGED <<mutex, draw>> /\ PreviewStep

\* The buffers change places, a renderer stays with its buffer.  What the hidden
\* one holds now does not matter: Paint covers it (Picture says how far).
Swapped ==
  /\ screen' = [pixels |-> screen.render_pixels, render_pixels |-> NoFrame, shown |-> pv.frame]
  /\ draw' = CASE draw = "pixels" -> "render_pixels" [] draw = "render_pixels" -> "pixels"
             [] OTHER -> draw

\* Mutant: the buffers are swapped without the display lock.
SwapUnlocked ==
  /\ pv.pc \in {"show", "black"}
  /\ Swapped /\ pv' = Asleep
  /\ UNCHANGED mutex /\ PreviewStep

\* ... and swap the buffers under the display lock.
Swap ==
  /\ pv.pc \in {"show", "black"}
  /\ draw = "none"
  /\ Swapped /\ pv' = Asleep
  /\ UNCHANGED mutex /\ PreviewStep

\* The display lock is refused: the loop ends, what it painted stays hidden and
\* does not matter any more.
SwapRefused ==
  /\ pv.pc \in {"show", "black"}
  /\ screen' = [screen EXCEPT !.render_pixels = NoFrame]
  /\ pv' = Asleep
  /\ UNCHANGED <<mutex, draw>> /\ PreviewStep

Preview == Borrow \/ BorrowFails \/ CopyEnds \/ HalFrame \/ HalNothing \/ Judge \/ Paint \/ Swap

\* The LVGL task renders the canvas while it holds the display lock.
DrawBegins == draw = "none" /\ draw' = "pixels"
DrawEnds   == draw # "none" /\ draw' = "none"
Lvgl == (DrawBegins \/ DrawEnds) /\ UNCHANGED <<cam, buf, decoded, mutex, rt, pv, screen, frees>>

-----------------------------------------------------------------------------
Next ==
  \/ NewFrame \/ StreamEnds \/ StreamBegins \/ Age \/ Expire
  \/ RtspTask
  \/ Preview \/ SwapRefused
  \/ Lvgl

Spec == Init /\ [][Next]_vars

\* Time passes; the preview runs; rtsp_task finishes a frame it has begun, and
\* gets the mutex before the preview, whose priority is lower, gets it again.
Fairness ==
  /\ WF_cam(Age \/ Expire)
  /\ WF_pv(Preview)
  /\ WF_rt(Decoding) /\ SF_rt(DecodeLock)

\* LVGL finishes what it draws, and the preview gets the display lock in turn.
DisplayFair == WF_draw(Lvgl /\ draw # "none") /\ SF_pv(Swap)

FairSpec == Spec /\ Fairness

-----------------------------------------------------------------------------
Contents == Frames \cup {Blank, Freed}

RtspPcs    == {"idle", "next", "lock", "decode", "write", "encode"}
PreviewPcs == {"wake", "copy", "hal", "judge", "paint", "clear", "show", "black"}

TypeOK ==
  /\ cam \in [seq : Frames, base : Frames, streaming : BOOLEAN, stale : Frames, expired : Frames]
  /\ buf \in Contents
  /\ decoded \in [valid : BOOLEAN, info : Frames]
  /\ mutex \in {"free", "rtsp", "preview"}
  /\ rt \in [pc : RtspPcs, frame : Frames, seq : Frames]
  /\ pv \in [pc : PreviewPcs, frame : Frames, rgb : Contents, seq : Frames]
  /\ screen \in [pixels : Contents, render_pixels : Contents, shown : Frames]
  /\ draw \in {"none", "pixels", "render_pixels"}
  /\ frees \in Nat

\* What the preview is about to show is one whole frame, the one its info names,
\* as long as rtsp_task never freed its buffers: no decode overwrites a borrowed
\* frame, no failed decode is lent (rtsp_server.cpp:61-64, 516-604).
WholeFrames ==
  frees = 0 /\ pv.frame # NoFrame /\ pv.pc \in {"judge", "paint", "show"} => pv.rgb = pv.frame

\* The preview never draws into the buffer that LVGL renders (ui.cpp:230-236).
NoTearing == pv.pc \in {"paint", "clear"} => draw # "render_pixels"

\* displayed_us and has_preview describe what is on the screen: the decision to
\* take a picture away is about the picture that is there.
ScreenKnown == frees = 0 => screen.pixels = screen.shown

\* Who holds the mutex, and that nothing may be borrowed while the decoder does.
MutexHeld ==
  /\ mutex = "rtsp" <=> rt.pc \in {"decode", "write"}
  /\ mutex = "preview" <=> pv.pc = "copy"
  /\ mutex = "rtsp" => ~decoded.valid

\* The frame a task works on is one exactly while it works on it.
FramesInHand ==
  /\ rt.pc \in {"lock", "decode", "write", "encode"} => rt.frame # NoFrame
  /\ decoded.valid => decoded.info # NoFrame
  /\ pv.pc \in {"copy", "paint", "show"} => pv.frame # NoFrame
  /\ pv.pc \in {"wake", "hal", "clear", "black"} => pv.frame = NoFrame

\* What may be borrowed, is borrowed or is about to be shown is in its buffer.
LentWhole == frees = 0 /\ decoded.valid => buf = decoded.info
BorrowKept == frees = 0 /\ pv.pc = "copy" => decoded.valid /\ pv.frame = decoded.info
PaintedKnown ==
  /\ frees = 0 /\ pv.pc = "show" => screen.render_pixels = pv.frame
  /\ pv.pc = "black" => screen.render_pixels = NoFrame

\* The renderer stays with the visible buffer.
DrawsVisible == draw # "render_pixels"

\* The inductive invariant: mutex, buffer and canvas agree.
IInv ==
  /\ TypeOK /\ MutexHeld /\ FramesInHand
  /\ LentWhole /\ BorrowKept /\ WholeFrames
  /\ PaintedKnown /\ ScreenKnown /\ DrawsVisible

\* No picture stays: an old frame is not shown as live (docs/usb_rtsp.md:17),
\* whether the camera stops, stalls or every later frame fails to decode, unless
\* the display lock is refused again and again.
OldPictureGoes ==
  DisplayFair => \/ \A f \in Frame : []<>(screen.shown # f)
                 \/ []<><<SwapRefused>>_pv

\* A borrow delays the RTSP pipeline, it never stops it (rtsp_server.h:35-37), not
\* even when LVGL never gives the display lock back.
DecoderServed == []<>(rt.pc # "lock")

\* "The buffer is RGB888 and stays valid only until rtsp_release_decoded_frame()"
\* (rtsp_server.h:34): until then it holds the borrowed frame.
BorrowStaysValid == pv.pc = "copy" => buf = pv.frame
=============================================================================
