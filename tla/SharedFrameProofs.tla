------------------------- MODULE SharedFrameProofs -------------------------
(***************************************************************************)
(* Proofs about the decoded frame lent to the preview and the two canvas   *)
(* buffers, for any number of frames, streams and releases.                *)
(***************************************************************************)
EXTENDS SharedFrame, TLAPS

Cams   == [seq : Frames, base : Frames, streaming : BOOLEAN, stale : Frames, expired : Frames]
Rts    == [pc : RtspPcs, frame : Frames, seq : Frames]
Pvs    == [pc : PreviewPcs, frame : Frames, rgb : Contents, seq : Frames]
Screens == [pixels : Contents, render_pixels : Contents, shown : Frames]

\* A frame the camera hands out is a frame.
LEMMA AvailableFrames ==
  ASSUME cam \in Cams, NEW last, NEW f \in Available(last)
  PROVE  f \in Frames /\ f # NoFrame /\ f \in Nat
BY SharedBounds DEF Available, Cams, Frames, NoFrame

\* The invariant holds at first.
LEMMA InitIInv == Init => IInv
<1> SUFFICES ASSUME Init PROVE IInv
  OBVIOUS
<1>1. 0 \in Frames
  BY SharedBounds DEF Frames
<1>2. TypeOK
  BY <1>1 DEF Init, TypeOK, Contents, RtspPcs, PreviewPcs, NoFrame
<1>3. MutexHeld /\ FramesInHand /\ LentWhole /\ BorrowKept /\ WholeFrames
      /\ PaintedKnown /\ ScreenKnown /\ DrawsVisible
  BY DEF Init, MutexHeld, FramesInHand, LentWhole, BorrowKept, WholeFrames, PaintedKnown,
         ScreenKnown, DrawsVisible
<1> QED
  BY <1>2, <1>3 DEF IInv

-----------------------------------------------------------------------------
(* The camera and time move marks that only the types are about.           *)

\* The marks stay in their range.
LEMMA CameraTypes ==
  ASSUME cam \in Cams, NewFrame \/ StreamEnds \/ StreamBegins \/ Age \/ Expire
  PROVE  cam' \in Cams
<1>1. cam.seq \in 0 .. MaxFrames /\ cam.stale \in 0 .. MaxFrames /\ cam.expired \in 0 .. MaxFrames
      /\ MaxFrames \in Nat
  BY SharedBounds DEF Cams, Frames
<1>2. CASE NewFrame
  <2>1. cam.seq + 1 \in Frames
    BY <1>1, <1>2 DEF NewFrame, Frames
  <2> QED
    BY <1>2, <2>1 DEF NewFrame, Cams
<1>3. CASE StreamEnds \/ StreamBegins
  BY <1>3 DEF StreamEnds, StreamBegins, Cams
<1>4. CASE Age
  <2>1. cam.stale + 1 \in Frames
    BY <1>1, <1>4 DEF Age, Frames
  <2> QED
    BY <1>4, <2>1 DEF Age, Cams
<1>5. CASE Expire
  <2>1. cam.expired + 1 \in Frames
    BY <1>1, <1>5 DEF Expire, Frames
  <2> QED
    BY <1>5, <2>1 DEF Expire, Cams
<1> QED
  BY <1>2, <1>3, <1>4, <1>5

\* The camera and time keep the invariant.
LEMMA CameraIInv ==
  ASSUME IInv, NewFrame \/ StreamEnds \/ StreamBegins \/ Age \/ Expire
  PROVE  IInv'
<1>1. UNCHANGED <<buf, decoded, mutex, rt, pv, screen, draw, frees>>
  BY DEF NewFrame, StreamEnds, StreamBegins, Age, Expire, CameraStep
<1>2. cam' \in Cams
  BY CameraTypes DEF IInv, TypeOK, Cams
<1>3. TypeOK'
  BY <1>1, <1>2 DEF IInv, TypeOK, Cams
<1> QED
  BY <1>1, <1>3 DEF IInv, MutexHeld, FramesInHand, LentWhole, BorrowKept, WholeFrames,
                    PaintedKnown, ScreenKnown, DrawsVisible

-----------------------------------------------------------------------------
(* rtsp_task writes the buffer only while it holds the mutex, and then     *)
(* nothing is valid.                                                       *)

\* What a step of rtsp_task leaves alone, and what it needs of the preview.
Undisturbed == /\ UNCHANGED <<cam, pv, screen, draw>>
               /\ frees \in Nat /\ frees' \in Nat /\ (frees' = frees \/ frees' # 0)
               /\ (frees' = 0 => frees = 0)

\* The preview's part of the invariant is kept when nobody touches what it borrowed.
LEMMA PreviewUndisturbed ==
  ASSUME IInv, Undisturbed, pv.pc = "copy" => UNCHANGED decoded
  PROVE  BorrowKept' /\ WholeFrames' /\ PaintedKnown' /\ ScreenKnown' /\ DrawsVisible'
BY DEF IInv, Undisturbed, BorrowKept, WholeFrames, PaintedKnown, ScreenKnown, DrawsVisible

\* Steps of rtsp_task outside the decoder.
LEMMA RtspOutside ==
  ASSUME IInv, Prepare \/ Leave \/ FreeBuffers \/ CopyFrame \/ ConvertFrame \/ Encode
  PROVE  IInv'
<1>1. rt \in Rts /\ cam \in Cams /\ buf \in Contents /\ frees \in Nat /\ 0 \in Frames
  BY SharedBounds DEF IInv, TypeOK, Rts, Cams, Frames
<1>2. UNCHANGED <<decoded, mutex>> /\ Undisturbed
  <2>1. UNCHANGED <<decoded, mutex, cam, pv, screen, draw>>
    BY DEF Prepare, Leave, FreeBuffers, CopyFrame, ConvertFrame, Encode, RtspStep
  <2>2. CASE FreeBuffers
    <3>1. frees' = frees + 1 /\ frees + 1 \in Nat /\ frees + 1 # 0
      BY <1>1, <2>2 DEF FreeBuffers
    <3> QED
      BY <1>1, <2>1, <3>1 DEF Undisturbed
  <2>3. CASE ~FreeBuffers
    <3>1. frees' = frees
      BY <2>3 DEF Prepare, Leave, CopyFrame, ConvertFrame, Encode
    <3> QED
      BY <1>1, <2>1, <3>1 DEF Undisturbed
  <2> QED
    BY <2>2, <2>3
<1>3. /\ rt' \in Rts
      /\ rt.pc \notin {"decode", "write"} /\ rt'.pc \in {"idle", "next", "lock"}
      /\ rt'.pc = "lock" => rt'.frame # NoFrame
  <2>1. CASE Prepare \/ Leave \/ FreeBuffers
    BY <1>1, <2>1 DEF Prepare, Leave, FreeBuffers, Rts, RtspPcs
  <2>2. CASE CopyFrame
    <3>1. PICK f \in Available(rt.seq) : rt' = [rt EXCEPT !.pc = "lock", !.frame = f]
      BY <2>2 DEF CopyFrame
    <3>2. f \in Frames /\ f # NoFrame
      BY <1>1, <3>1, AvailableFrames
    <3> QED
      BY <1>1, <2>2, <3>1, <3>2 DEF CopyFrame, Rts, RtspPcs
  <2>3. CASE ConvertFrame
    <3>1. PICK f \in Available(rt.seq) : rt' = [rt EXCEPT !.seq = f]
      BY <2>3 DEF ConvertFrame
    <3>2. f \in Frames
      BY <1>1, <3>1, AvailableFrames
    <3> QED
      BY <1>1, <2>3, <3>1, <3>2 DEF ConvertFrame, Rts, RtspPcs
  <2>4. CASE Encode
    BY <1>1, <2>4 DEF Encode, Rts, RtspPcs, NoFrame
  <2> QED
    BY <2>1, <2>2, <2>3, <2>4
<1>4. /\ buf' \in Contents
      /\ frees' = 0 /\ buf \in Frames => buf' = buf
  <2>1. CASE Prepare
    BY <1>1, <2>1, SharedValues, SharedBounds DEF Prepare, Contents, Frames
  <2>2. CASE FreeBuffers
    BY <1>1, <2>2 DEF FreeBuffers, Contents
  <2>3. CASE Leave \/ CopyFrame \/ ConvertFrame \/ Encode
    BY <1>1, <2>3 DEF Leave, CopyFrame, ConvertFrame, Encode
  <2> QED
    BY <2>1, <2>2, <2>3
<1>5. TypeOK'
  BY <1>2, <1>3, <1>4 DEF IInv, TypeOK, Undisturbed, Rts
<1>6. MutexHeld' /\ FramesInHand'
  BY <1>2, <1>3 DEF IInv, Undisturbed, MutexHeld, FramesInHand
<1>7. LentWhole'
  BY <1>2, <1>4 DEF IInv, TypeOK, Undisturbed, LentWhole
<1> QED
  BY <1>2, <1>5, <1>6, <1>7, PreviewUndisturbed DEF IInv

\* The decoder: it holds the mutex, so the preview has borrowed nothing.
LEMMA RtspDecoder ==
  ASSUME IInv, DecodeLock \/ DecodeWrite \/ DecodeFails \/ DecodeEnds
  PROVE  IInv'
<1>1. rt \in Rts /\ decoded \in [valid : BOOLEAN, info : Frames] /\ buf \in Contents
      /\ frees \in Nat /\ 0 \in Frames
  BY SharedBounds DEF IInv, TypeOK, Rts, Frames
<1>2. Undisturbed /\ frees' = frees
  BY <1>1 DEF DecodeLock, DecodeWrite, DecodeFails, DecodeEnds, RtspStep, Undisturbed
<1>3. pv.pc # "copy"
  BY DEF IInv, MutexHeld, DecodeLock, DecodeWrite, DecodeFails, DecodeEnds
<1>4. rt.frame \in Frames /\ rt.frame # NoFrame
  BY <1>1 DEF IInv, FramesInHand, DecodeLock, DecodeWrite, DecodeFails, DecodeEnds, Rts
<1>5. rt' \in Rts /\ (rt'.pc # "next" => rt'.frame = rt.frame)
      /\ rt'.pc \in {"next", "decode", "write", "encode"}
  BY <1>1, <1>4 DEF DecodeLock, DecodeWrite, DecodeFails, DecodeEnds, Rts, RtspPcs, NoFrame
<1>6. buf' \in Contents
  BY <1>1, <1>4 DEF DecodeLock, DecodeWrite, DecodeFails, DecodeEnds, Contents
<1>7. /\ decoded' \in [valid : BOOLEAN, info : Frames]
      /\ decoded'.valid => DecodeEnds /\ decoded'.info = rt.frame /\ buf' = rt.frame
  <2>1. CASE DecodeEnds
    BY <1>4, <2>1 DEF DecodeEnds
  <2>2. CASE DecodeLock
    BY <1>1, <2>2 DEF DecodeLock
  <2>3. CASE DecodeWrite \/ DecodeFails
    BY <1>1, <2>3 DEF DecodeWrite, DecodeFails, IInv, MutexHeld
  <2> QED
    BY <2>1, <2>2, <2>3
<1>8. MutexHeld'
  <2>1. CASE DecodeLock
    BY <1>1, <1>2, <1>3, <2>1 DEF DecodeLock, Undisturbed, MutexHeld, Rts
  <2>2. CASE DecodeWrite
    BY <1>1, <1>2, <1>3, <2>2 DEF DecodeWrite, Undisturbed, MutexHeld, Rts, IInv
  <2>3. CASE DecodeFails \/ DecodeEnds
    BY <1>1, <1>2, <1>3, <2>3 DEF DecodeFails, DecodeEnds, Undisturbed, MutexHeld, Rts
  <2> QED
    BY <2>1, <2>2, <2>3
<1>9. mutex' \in {"free", "rtsp", "preview"}
  BY DEF DecodeLock, DecodeWrite, DecodeFails, DecodeEnds, IInv, TypeOK
<1>10. TypeOK'
  BY <1>2, <1>5, <1>6, <1>7, <1>9 DEF IInv, TypeOK, Undisturbed, Rts
<1>11. FramesInHand'
  BY <1>2, <1>4, <1>5, <1>7 DEF IInv, Undisturbed, FramesInHand
<1>12. LentWhole'
  BY <1>4, <1>7 DEF LentWhole
<1> QED
  BY <1>2, <1>3, <1>8, <1>10, <1>11, <1>12, PreviewUndisturbed DEF IInv

-----------------------------------------------------------------------------
(* The preview copies under the mutex what it was lent, and paints what it *)
(* copied where nobody looks.                                              *)

\* What a step of the preview leaves alone.
LEMMA RtspUndisturbed ==
  ASSUME IInv, Preview \/ SwapRefused
  PROVE  UNCHANGED <<cam, buf, decoded, rt, frees>> /\ LentWhole'
<1>1. UNCHANGED <<cam, buf, decoded, rt, frees>>
  BY DEF Preview, Borrow, BorrowFails, CopyEnds, HalFrame, HalNothing, Judge, Paint, Swap,
         SwapRefused, PreviewStep
<1> QED
  BY <1>1 DEF IInv, LentWhole

\* Borrowing and giving back.
LEMMA BorrowIInv ==
  ASSUME IInv, Borrow \/ BorrowFails \/ CopyEnds
  PROVE  IInv'
<1>1. UNCHANGED <<cam, buf, decoded, rt, frees>> /\ LentWhole'
  BY RtspUndisturbed DEF Preview
<1>2. UNCHANGED <<screen, draw>>
  BY DEF Borrow, BorrowFails, CopyEnds
<1>3. pv \in Pvs /\ decoded.info \in Frames /\ buf \in Contents
  BY DEF IInv, TypeOK, Pvs
<1>4. CASE Borrow
  <2>1. /\ pv' \in Pvs /\ pv'.pc = "copy" /\ pv'.frame = decoded.info
        /\ mutex = "free" /\ mutex' = "preview" /\ decoded.valid
    BY <1>3, <1>4 DEF Borrow, Lendable, Pvs, PreviewPcs
  <2>2. TypeOK' /\ MutexHeld'
    BY <1>1, <1>2, <2>1 DEF IInv, TypeOK, MutexHeld, Pvs
  <2>3. FramesInHand'
    BY <1>1, <2>1 DEF IInv, FramesInHand
  <2>4. BorrowKept' /\ WholeFrames' /\ PaintedKnown' /\ ScreenKnown' /\ DrawsVisible'
    BY <1>1, <1>2, <2>1 DEF IInv, BorrowKept, WholeFrames, PaintedKnown, ScreenKnown, DrawsVisible
  <2> QED
    BY <1>1, <2>2, <2>3, <2>4 DEF IInv
<1>5. CASE BorrowFails
  <2>1. pv' \in Pvs /\ pv.pc = "wake" /\ pv'.pc = "hal" /\ pv'.frame = pv.frame /\ mutex' = mutex
    BY <1>3, <1>5 DEF BorrowFails, Pvs, PreviewPcs
  <2>2. TypeOK' /\ MutexHeld' /\ FramesInHand'
    BY <1>1, <1>2, <2>1 DEF IInv, TypeOK, MutexHeld, FramesInHand, Pvs
  <2>3. BorrowKept' /\ WholeFrames' /\ PaintedKnown' /\ ScreenKnown' /\ DrawsVisible'
    BY <1>1, <1>2, <2>1 DEF IInv, BorrowKept, WholeFrames, PaintedKnown, ScreenKnown, DrawsVisible
  <2> QED
    BY <1>1, <2>2, <2>3 DEF IInv
<1>6. CASE CopyEnds
  <2>1. /\ pv' \in Pvs /\ pv.pc = "copy" /\ pv'.pc = "judge"
        /\ pv'.frame = pv.frame /\ pv'.rgb = buf /\ mutex' = "free"
    BY <1>3, <1>6 DEF CopyEnds, Pvs, PreviewPcs
  <2>2. TypeOK' /\ MutexHeld' /\ FramesInHand'
    BY <1>1, <1>2, <2>1 DEF IInv, TypeOK, MutexHeld, FramesInHand, Pvs
  <2>3. WholeFrames'
    BY <1>1, <2>1 DEF IInv, LentWhole, BorrowKept, WholeFrames
  <2>4. BorrowKept' /\ PaintedKnown' /\ ScreenKnown' /\ DrawsVisible'
    BY <1>1, <1>2, <2>1 DEF IInv, BorrowKept, PaintedKnown, ScreenKnown, DrawsVisible
  <2> QED
    BY <1>1, <2>2, <2>3, <2>4 DEF IInv
<1> QED
  BY <1>4, <1>5, <1>6

\* A frame of the camera, and the decision about the picture.
LEMMA JudgeIInv ==
  ASSUME IInv, HalFrame \/ HalNothing \/ Judge
  PROVE  IInv'
<1>1. UNCHANGED <<cam, buf, decoded, rt, frees>> /\ LentWhole'
  BY RtspUndisturbed DEF Preview
<1>2. UNCHANGED <<mutex, screen, draw>>
  BY DEF HalFrame, HalNothing, Judge
<1>3. pv \in Pvs /\ cam \in Cams /\ 0 \in Frames
  BY SharedBounds DEF IInv, TypeOK, Pvs, Cams, Frames
<1>4. /\ pv' \in Pvs /\ pv.pc # "copy" /\ pv'.pc \in {"judge", "paint", "clear", "wake"}
      /\ pv'.pc \in {"judge", "paint"} =>
           \/ pv'.frame = NoFrame \/ pv'.rgb = pv'.frame
           \/ pv.pc = "judge" /\ pv'.rgb = pv.rgb /\ pv'.frame = pv.frame
      /\ pv'.pc = "paint" => pv'.frame # NoFrame
      /\ pv'.pc \in {"wake", "clear"} => pv'.frame = NoFrame
  <2>1. CASE HalFrame
    <3>1. PICK f \in Available(pv.seq) :
            \/ pv' = [pc |-> "judge", frame |-> f, rgb |-> f, seq |-> f]
            \/ pv' = [pv EXCEPT !.pc = "judge", !.seq = f]
      BY <2>1 DEF HalFrame
    <3>2. f \in Frames
      BY <1>3, <3>1, AvailableFrames
    <3>3. pv.pc = "hal" /\ pv.frame = NoFrame
      BY <2>1 DEF HalFrame, IInv, FramesInHand
    <3>4. CASE pv' = [pc |-> "judge", frame |-> f, rgb |-> f, seq |-> f]
      BY <3>2, <3>3, <3>4 DEF Pvs, PreviewPcs, Contents
    <3>5. CASE pv' = [pv EXCEPT !.pc = "judge", !.seq = f]
      <4>1. pv' \in Pvs
        BY <1>3, <3>2, <3>5 DEF Pvs, PreviewPcs
      <4>2. pv'.pc = "judge" /\ pv'.frame = pv.frame
        BY <1>3, <3>5 DEF Pvs
      <4> QED
        BY <3>3, <4>1, <4>2
    <3> QED
      BY <3>1, <3>4, <3>5
  <2>2. CASE HalNothing
    <3>1. pv.pc = "hal" /\ pv.frame = NoFrame
      BY <2>2 DEF HalNothing, IInv, FramesInHand
    <3> QED
      BY <1>3, <2>2, <3>1 DEF HalNothing, Pvs, PreviewPcs
  <2>3. CASE Judge /\ Fresh
    BY <1>3, <2>3 DEF Judge, Fresh, Pvs, PreviewPcs
  <2>4. CASE Judge /\ ~Fresh
    BY <1>3, <2>4 DEF Judge, Asleep, Pvs, PreviewPcs, Contents, NoFrame
  <2> QED
    BY <2>1, <2>2, <2>3, <2>4
<1>5. TypeOK' /\ MutexHeld' /\ FramesInHand'
  BY <1>1, <1>2, <1>4 DEF IInv, TypeOK, MutexHeld, FramesInHand, Pvs
<1>6. WholeFrames'
  BY <1>1, <1>4 DEF IInv, WholeFrames
<1>7. BorrowKept' /\ PaintedKnown' /\ ScreenKnown' /\ DrawsVisible'
  BY <1>1, <1>2, <1>4 DEF IInv, BorrowKept, PaintedKnown, ScreenKnown, DrawsVisible
<1> QED
  BY <1>1, <1>5, <1>6, <1>7 DEF IInv

\* Painting, swapping and being refused the lock for it.
LEMMA ShowIInv ==
  ASSUME IInv, Paint \/ Swap \/ SwapRefused
  PROVE  IInv'
<1>1. UNCHANGED <<cam, buf, decoded, rt, frees>> /\ LentWhole'
  BY RtspUndisturbed DEF Preview
<1>2. pv \in Pvs /\ screen \in Screens /\ 0 \in Frames /\ mutex' = mutex
  BY SharedBounds DEF IInv, TypeOK, Pvs, Screens, Frames, Paint, Swap, SwapRefused
<1>3. CASE Paint
  <2>1. /\ pv' \in Pvs /\ pv.pc \in {"paint", "clear"}
        /\ pv'.pc = IF pv.pc = "paint" THEN "show" ELSE "black"
        /\ pv'.frame = pv.frame /\ pv'.rgb = pv.rgb /\ draw' = draw
    BY <1>2, <1>3 DEF Paint, Pvs, PreviewPcs
  <2>2. /\ screen' \in Screens /\ screen'.pixels = screen.pixels /\ screen'.shown = screen.shown
        /\ screen'.render_pixels = IF pv.pc = "paint" THEN pv.rgb ELSE NoFrame
    BY <1>2, <1>3 DEF Paint, Screens, Pvs, Contents, NoFrame
  <2>3. TypeOK' /\ MutexHeld' /\ FramesInHand'
    BY <1>1, <1>2, <2>1, <2>2 DEF IInv, TypeOK, MutexHeld, FramesInHand, Pvs, Screens
  <2>4. WholeFrames' /\ PaintedKnown'
    BY <1>1, <2>1, <2>2 DEF IInv, FramesInHand, WholeFrames, PaintedKnown
  <2>5. BorrowKept' /\ ScreenKnown' /\ DrawsVisible'
    BY <1>1, <2>1, <2>2 DEF IInv, BorrowKept, ScreenKnown, DrawsVisible
  <2> QED
    BY <1>1, <2>3, <2>4, <2>5 DEF IInv
<1>4. CASE Swap
  <2>1. pv' \in Pvs /\ pv.pc \in {"show", "black"} /\ pv'.pc = "wake" /\ pv'.frame = NoFrame
    BY <1>2, <1>4 DEF Swap, Asleep, Pvs, PreviewPcs, Contents, NoFrame
  <2>2. /\ screen' \in Screens /\ screen'.pixels = screen.render_pixels
        /\ screen'.shown = pv.frame /\ draw' = "none"
    BY <1>2, <1>4 DEF Swap, Swapped, Screens, Pvs, Contents, NoFrame
  <2>3. TypeOK' /\ MutexHeld' /\ FramesInHand'
    BY <1>1, <1>2, <2>1, <2>2 DEF IInv, TypeOK, MutexHeld, FramesInHand, Pvs, Screens
  <2>4. ScreenKnown'
    BY <1>1, <2>1, <2>2 DEF IInv, FramesInHand, PaintedKnown, ScreenKnown
  <2>5. BorrowKept' /\ WholeFrames' /\ PaintedKnown' /\ DrawsVisible'
    BY <1>1, <2>1, <2>2 DEF BorrowKept, WholeFrames, PaintedKnown, DrawsVisible
  <2> QED
    BY <1>1, <2>3, <2>4, <2>5 DEF IInv
<1>5. CASE SwapRefused
  <2>1. pv' \in Pvs /\ pv'.pc = "wake" /\ pv'.frame = NoFrame /\ draw' = draw
        /\ pv.pc \in {"show", "black"}
    BY <1>2, <1>5 DEF SwapRefused, Asleep, Pvs, PreviewPcs, Contents, NoFrame
  <2>2. screen' \in Screens /\ screen'.pixels = screen.pixels /\ screen'.shown = screen.shown
    BY <1>2, <1>5 DEF SwapRefused, Screens, Contents, NoFrame
  <2>3. TypeOK' /\ MutexHeld' /\ FramesInHand'
    BY <1>1, <1>2, <2>1, <2>2 DEF IInv, TypeOK, MutexHeld, FramesInHand, Pvs, Screens
  <2>4. ScreenKnown' /\ DrawsVisible'
    BY <1>1, <2>1, <2>2 DEF IInv, ScreenKnown, DrawsVisible
  <2>5. BorrowKept' /\ WholeFrames' /\ PaintedKnown'
    BY <1>1, <2>1 DEF BorrowKept, WholeFrames, PaintedKnown
  <2> QED
    BY <1>1, <2>3, <2>4, <2>5 DEF IInv
<1> QED
  BY <1>3, <1>4, <1>5

\* LVGL begins with the visible buffer; a swap waits until it has ended.
LEMMA LvglIInv ==
  ASSUME IInv, Lvgl
  PROVE  IInv'
<1>1. UNCHANGED <<cam, buf, decoded, mutex, rt, pv, screen, frees>> /\ draw' \in {"none", "pixels"}
  BY DEF Lvgl, DrawBegins, DrawEnds
<1> QED
  BY <1>1 DEF IInv, TypeOK, MutexHeld, FramesInHand, LentWhole, BorrowKept, WholeFrames,
              PaintedKnown, ScreenKnown, DrawsVisible

\* Every step keeps the invariant.
LEMMA StepKeepsIInv == IInv /\ [Next]_vars => IInv'
<1> SUFFICES ASSUME IInv, [Next]_vars PROVE IInv'
  OBVIOUS
<1>1. CASE NewFrame \/ StreamEnds \/ StreamBegins \/ Age \/ Expire
  BY <1>1, CameraIInv
<1>2. CASE RtspTask
  BY <1>2, RtspOutside, RtspDecoder DEF RtspTask, Decoding
<1>3. CASE Preview \/ SwapRefused
  BY <1>3, BorrowIInv, JudgeIInv, ShowIInv DEF Preview
<1>4. CASE Lvgl
  BY <1>4, LvglIInv
<1>5. CASE UNCHANGED vars
  BY <1>5 DEF vars, IInv, TypeOK, MutexHeld, FramesInHand, LentWhole, BorrowKept, WholeFrames,
              PaintedKnown, ScreenKnown, DrawsVisible
<1> QED
  BY <1>1, <1>2, <1>3, <1>4, <1>5 DEF Next

-----------------------------------------------------------------------------
\* The mutex, the buffer behind it and the two canvas buffers agree in every reachable
\* state of rtsp_task, preview and LVGL.
THEOREM SharedInvariant == Spec => []IInv
BY InitIInv, StepKeepsIInv, PTL DEF Spec

\* Types.
THEOREM SharedTypes == Spec => []TypeOK
<1>1. IInv => TypeOK
  BY DEF IInv
<1> QED
  BY <1>1, SharedInvariant, PTL

\* What the preview shows is one whole frame, unless rtsp_task has freed its buffers
\* (rtsp_borrow_decoded_frame against decode_usb_mjpeg_to_yuv420).
THEOREM ShowsWholeFrames == Spec => []WholeFrames
<1>1. IInv => WholeFrames
  BY DEF IInv
<1> QED
  BY <1>1, SharedInvariant, PTL

\* The preview never draws where LVGL renders (the swap under bsp_display_lock).
THEOREM NeverTears == Spec => []NoTearing
<1>1. IInv => NoTearing
  BY DEF IInv, DrawsVisible, NoTearing
<1> QED
  BY <1>1, SharedInvariant, PTL

\* displayed_us and has_preview describe the picture on the screen.
THEOREM KnowsItsScreen == Spec => []ScreenKnown
<1>1. IInv => ScreenKnown
  BY DEF IInv
<1> QED
  BY <1>1, SharedInvariant, PTL
=============================================================================
