------------------------------ MODULE Picture ------------------------------
(***************************************************************************)
(* The picture on the screen (the scaling in firmware/main/ui.cpp, the     *)
(* choice of a size in hal/hal_uvc.cpp, core/frame_convert.hpp).           *)
(*                                                                         *)
(* A camera that does not offer the configured size is opened with the     *)
(* nearest smaller one.  The preview scales a frame of any size into one   *)
(* of two canvases, black bars around it, and shows it by swapping them.   *)
(*                                                                         *)
(* A pixel is the place in a frame it was taken from; the colours at that  *)
(* place are left out.  When frames are shown is the matter of SharedFrame.*)
(*                                                                         *)
(* An operator marked "Mutant" is a plausible mistake in the definition    *)
(* that follows it; no behaviour of the specification uses it.             *)
(***************************************************************************)
EXTENDS Naturals

CONSTANTS
  CanvasWidth, CanvasHeight,  \* 720, 640
  MaxWidth, MaxHeight,        \* CONFIG_TAB5_UVC_WIDTH, CONFIG_TAB5_UVC_HEIGHT
  Cameras                     \* cameras: each a set of profiles, for one format

\* off: how far the frame rate is from the configured one, in thousandths.
Profile == [width : Nat, height : Nat, off : Nat]

ASSUME PictureSizes ==
  /\ CanvasWidth \in Nat \ {0} /\ CanvasHeight \in Nat \ {0}
  /\ MaxWidth \in Nat \ {0} /\ MaxHeight \in Nat \ {0}
ASSUME PictureCameras == Cameras \subseteq SUBSET Profile

VARIABLES
  offers,   \* the camera that is plugged in
  size,     \* width and height of the frames that arrive; 0 without a stream
  pixels,   \* the canvas LVGL shows
  render,   \* the canvas the preview draws into
  shown     \* the size of the frame on the screen; 0 without one

vars == <<offers, size, pixels, render, shown>>

NoSize == [width |-> 0, height |-> 0]
Rows == 0 .. CanvasHeight - 1
Columns == 0 .. CanvasWidth - 1

\* A pixel of a frame, or a black one.
Pixel == [from : [width : Nat, height : Nat], row : Nat, column : Nat]
Black == [from |-> NoSize, row |-> 0, column |-> 0]
Blank == [at \in Rows \X Columns |-> Black]

Init ==
  /\ offers \in Cameras
  /\ size = NoSize /\ shown = NoSize
  /\ pixels = Blank /\ render = Blank

-----------------------------------------------------------------------------
(* The size: try_stream_profile, open_fallback_profile.                    *)

Fits(p) == p.width \in 1 .. MaxWidth /\ p.height \in 1 .. MaxHeight
Wanted(p) == p.width = MaxWidth /\ p.height = MaxHeight /\ p.off < 500

Score(p) == ((MaxWidth - p.width) * MaxHeight + (MaxHeight - p.height) * MaxWidth) * 1000 + p.off
Candidates(camera) == {p \in camera : Fits(p) /\ ~Wanted(p)}
Fallbacks(camera) == {p \in Candidates(camera) : \A q \in Candidates(camera) : Score(p) <= Score(q)}

\* The configured profile is tried first; the driver may refuse what is offered.
Open ==
  /\ size = NoSize
  /\ \E p \in {q \in offers : Wanted(q)} \cup Fallbacks(offers) :
       size' = [width |-> p.width, height |-> p.height]
  /\ UNCHANGED <<offers, pixels, render, shown>>

\* The stream ends; the next one may be another camera's.
End ==
  /\ size # NoSize /\ size' = NoSize
  /\ offers' \in Cameras
  /\ UNCHANGED <<pixels, render, shown>>

-----------------------------------------------------------------------------
(* The scaling: preview.                                                   *)

Least(m, n) == IF m <= n THEN m ELSE n

\* The picture is as wide as the canvas, or as high.
Height(s) == Least(CanvasHeight, (CanvasWidth * s.height) \div s.width)
Width(s)  == (Height(s) * s.width) \div s.height
Top(s)    == (CanvasHeight - Height(s)) \div 2
Left(s)   == (CanvasWidth - Width(s)) \div 2

InPicture(s, r, c) ==
  /\ r >= Top(s) /\ r < Top(s) + Height(s)
  /\ c >= Left(s) /\ c < Left(s) + Width(s)

\* Mutant: the scale is rounded up.
SourceRoundedUp(s, r, c) ==
  [from |-> s,
   row |-> ((r - Top(s)) * s.height + Height(s) - 1) \div Height(s),
   column |-> ((c - Left(s)) * s.width + Width(s) - 1) \div Width(s)]
\* Where a pixel of the picture comes from.
Source(s, r, c) ==
  [from |-> s,
   row |-> ((r - Top(s)) * s.height) \div Height(s),
   column |-> ((c - Left(s)) * s.width) \div Width(s)]

\* Mutant: the bar below the picture is not cleared.
InBarsAbove(s, r, c) ==
  \/ Top(s) > 0 /\ r < Top(s)
  \/ Left(s) > 0 /\ r >= Top(s) /\ r < Top(s) + Height(s) /\ (c < Left(s) \/ c >= Left(s) + Width(s))
\* The bars above and below are cleared when there is one above, those beside the
\* picture when there is one on the left.
InBars(s, r, c) ==
  \/ Top(s) > 0 /\ (r < Top(s) \/ r >= Top(s) + Height(s))
  \/ Left(s) > 0 /\ r >= Top(s) /\ r < Top(s) + Height(s) /\ (c < Left(s) \/ c >= Left(s) + Width(s))

Painted(s, canvas) ==
  [at \in Rows \X Columns |->
     IF InPicture(s, at[1], at[2]) THEN Source(s, at[1], at[2])
     ELSE IF InBars(s, at[1], at[2]) THEN Black
     ELSE canvas[at]]

\* A finished canvas is shown by swapping, unless the display lock is taken.
Finish(canvas, s) ==
  \/ pixels' = canvas /\ render' = pixels /\ shown' = s
  \/ render' = canvas /\ UNCHANGED <<pixels, shown>>

Draw ==
  /\ size # NoSize
  /\ Finish(Painted(size, render), size)
  /\ UNCHANGED <<offers, size>>

\* No frame, or only old ones: the picture is taken from the screen.
Clear ==
  /\ shown # NoSize
  /\ Finish(Blank, NoSize)
  /\ UNCHANGED <<offers, size>>

Next == Open \/ End \/ Draw \/ Clear

Spec == Init /\ [][Next]_vars

-----------------------------------------------------------------------------
TypeOK ==
  /\ offers \in Cameras
  /\ size \in [width : Nat, height : Nat] /\ shown \in [width : Nat, height : Nat]
  /\ pixels \in [Rows \X Columns -> Pixel] /\ render \in [Rows \X Columns -> Pixel]

\* Every pixel on the screen was read inside its frame, and every frame fits the
\* buffers the preview has for one.
InFrame(p) ==
  p # Black => /\ p.row < p.from.height /\ p.column < p.from.width
               /\ p.from.width <= MaxWidth /\ p.from.height <= MaxHeight
SourceInFrame == \A at \in Rows \X Columns : InFrame(pixels[at])

\* A picture is complete and black around it, but for one row at the bottom and one
\* column on the right.
LeftoversAtTheEdge ==
  shown # NoSize =>
    \A r \in Rows, c \in Columns :
      \/ pixels[r, c] = IF InPicture(shown, r, c) THEN Source(shown, r, c) ELSE Black
      \/ (r = CanvasHeight - 1 \/ c = CanvasWidth - 1) /\ ~InPicture(shown, r, c)

\* "Clear only the letterbox bars; the picture overwrites the rest." (ui.cpp:199)
NoLeftovers ==
  shown # NoSize => \A at \in Rows \X Columns : pixels[at] = Black \/ pixels[at].from = shown

-----------------------------------------------------------------------------
(* yuy2_to_rgb and the packing for the encoder, as index arithmetic.       *)

Yuy2Accepts(bytes, width, height, stride, capacity) ==
  /\ width # 0 /\ height # 0 /\ width <= 1920 /\ height <= 1080 /\ width % 2 = 0
  /\ stride >= width * 2 /\ stride <= bytes \div height
  /\ capacity >= width * height * 3

\* The last byte read for the pixels at column and column + 1, and the last written.
Yuy2Read(stride, row, column) == row * stride + column * 2 + 3
Yuy2Write(width, row, column) == (row * width + column + 1) * 3 + 2

\* O_UYY_E_VYY: a row of pairs, each the chroma and the two luma values.
PackedLuma(width, x, y)   == (y * width * 3) \div 2 + (x \div 2) * 3 + 1 + (x % 2)
PackedChroma(width, x, y) == (y * width * 3) \div 2 + (x \div 2) * 3
=============================================================================
