--------------------------- MODULE PictureProofs ---------------------------
(***************************************************************************)
(* Proofs about the picture, for canvases, cameras and frames of any size. *)
(***************************************************************************)
EXTENDS Picture, TLAPS

-----------------------------------------------------------------------------
(* Division.                                                               *)

\* A number is its quotient times the divisor and a remainder below it.
LEMMA Quotient ==
  ASSUME NEW a \in Nat, NEW b \in Nat \ {0}
  PROVE  /\ a \div b \in Nat
         /\ b * (a \div b) <= a /\ a < b * (a \div b) + b
  BY SMT

\* The order of products with one factor in common.
LEMMA ProductOrder ==
  ASSUME NEW x \in Nat, NEW y \in Nat, NEW b \in Nat \ {0}, b * x < b * y
  PROVE  x < y
<1> SUFFICES ASSUME y <= x PROVE FALSE
  OBVIOUS
<1>1. b * y <= b * x
  BY SMT
<1> QED
  BY <1>1, SMT

\* A part of a length, scaled, is a part of the other length.
LEMMA ScaledWithin ==
  ASSUME NEW k \in Nat, NEW from \in Nat, NEW to \in Nat \ {0}, k < from, from > 0
  PROVE  (k * to) \div from \in Nat /\ (k * to) \div from < to
<1> DEFINE q == (k * to) \div from
<1>1. k * to \in Nat /\ k * to < from * to
  BY SMT
<1>2. q \in Nat /\ from * q <= k * to
  BY <1>1, Quotient
<1> HIDE DEF q
<1>3. from * q < from * to
  BY <1>1, <1>2, SMT
<1>4. q < to
  BY <1>2, <1>3, ProductOrder
<1> QED
  BY <1>2, <1>4 DEF q

\* What is bounded before a division is bounded after it.
LEMMA QuotientBound ==
  ASSUME NEW a \in Nat, NEW b \in Nat \ {0}, NEW c \in Nat, a <= b * c
  PROVE  a \div b <= c
<1> DEFINE q == a \div b
<1>1. q \in Nat /\ b * q <= a
  BY Quotient
<1> HIDE DEF q
<1> SUFFICES ASSUME c < q PROVE FALSE
  BY <1>1 DEF q
<1>2. b * (c + 1) <= b * q
  BY <1>1, SMT
<1>3. b * (c + 1) = b * c + b /\ b * c \in Nat
  BY SMT
<1> QED
  BY <1>1, <1>2, <1>3, SMT

-----------------------------------------------------------------------------
(* The picture lies on the canvas.                                         *)

\* The sizes a frame can have.
Sizes == [width : 1 .. MaxWidth, height : 1 .. MaxHeight]

\* The picture is on the canvas, and off its middle by half a pixel at most.
LEMMA Geometry ==
  ASSUME NEW s \in Sizes
  PROVE  /\ Height(s) \in 0 .. CanvasHeight /\ Width(s) \in 0 .. CanvasWidth
         /\ Top(s) \in Nat /\ Left(s) \in Nat
         /\ CanvasHeight - Height(s) \in {2 * Top(s), 2 * Top(s) + 1}
         /\ CanvasWidth - Width(s) \in {2 * Left(s), 2 * Left(s) + 1}
<1>1. s.width \in Nat \ {0} /\ s.height \in Nat \ {0} /\ CanvasWidth \in Nat /\ CanvasHeight \in Nat
  BY PictureSizes DEF Sizes
<1> DEFINE full == (CanvasWidth * s.height) \div s.width
<1>2. CanvasWidth * s.height \in Nat
  BY <1>1, SMT
<1>3. full \in Nat /\ s.width * full <= CanvasWidth * s.height
  BY <1>1, <1>2, Quotient
<1> HIDE DEF full
<1>4. Height(s) \in Nat /\ Height(s) <= full /\ Height(s) <= CanvasHeight
  BY <1>1, <1>3 DEF Height, Least, full
<1>5. Height(s) * s.width \in Nat /\ Height(s) * s.width <= s.width * full
  BY <1>1, <1>3, <1>4, SMT
<1>6. Height(s) * s.width <= s.height * CanvasWidth
  <2>1. CanvasWidth * s.height = s.height * CanvasWidth
    BY <1>1, SMT
  <2> QED
    BY <1>1, <1>2, <1>3, <1>5, <2>1, SMT
<1>7. Width(s) \in Nat
  BY <1>1, <1>5, Quotient DEF Width
<1>8. Width(s) <= CanvasWidth
  BY <1>1, <1>5, <1>6, QuotientBound DEF Width
<1>9. Top(s) \in Nat /\ CanvasHeight - Height(s) \in {2 * Top(s), 2 * Top(s) + 1}
  BY <1>1, <1>4, SMT DEF Top
<1>10. Left(s) \in Nat /\ CanvasWidth - Width(s) \in {2 * Left(s), 2 * Left(s) + 1}
  BY <1>1, <1>7, <1>8, SMT DEF Left
<1> QED
  BY <1>1, <1>4, <1>7, <1>8, <1>9, <1>10

\* A pixel of the picture is taken from inside the frame.
LEMMA SourceWithin ==
  ASSUME NEW s \in Sizes, NEW r \in Rows, NEW c \in Columns, InPicture(s, r, c)
  PROVE  /\ Source(s, r, c) \in Pixel /\ InFrame(Source(s, r, c))
<1>1. r \in Nat /\ c \in Nat
  BY PictureSizes DEF Rows, Columns
<1>2. s \in [width : Nat, height : Nat] /\ s.width \in Nat \ {0} /\ s.height \in Nat \ {0}
      /\ s.width <= MaxWidth /\ s.height <= MaxHeight
  BY PictureSizes DEF Sizes
<1>3. r - Top(s) \in Nat /\ r - Top(s) < Height(s) /\ Height(s) \in Nat /\ Height(s) > 0
  BY <1>1, Geometry, PictureSizes DEF InPicture
<1>4. c - Left(s) \in Nat /\ c - Left(s) < Width(s) /\ Width(s) \in Nat /\ Width(s) > 0
  BY <1>1, Geometry, PictureSizes DEF InPicture
<1>5. Source(s, r, c).row \in Nat /\ Source(s, r, c).row < s.height
  BY <1>2, <1>3, ScaledWithin DEF Source
<1>6. Source(s, r, c).column \in Nat /\ Source(s, r, c).column < s.width
  BY <1>2, <1>4, ScaledWithin DEF Source
<1>7. Source(s, r, c).from = s
  BY DEF Source
<1>8. Source(s, r, c) \in Pixel
  BY <1>2, <1>5, <1>6 DEF Source, Pixel
<1> QED
  BY <1>2, <1>5, <1>6, <1>7, <1>8 DEF InFrame

\* A pixel that is neither drawn nor cleared is in the last row or the last column.
LEMMA Edge ==
  ASSUME NEW s \in Sizes, NEW r \in Rows, NEW c \in Columns,
         ~InPicture(s, r, c), ~InBars(s, r, c)
  PROVE  r = CanvasHeight - 1 \/ c = CanvasWidth - 1
<1>1. r \in 0 .. CanvasHeight - 1 /\ c \in 0 .. CanvasWidth - 1 /\ CanvasHeight \in Nat /\ CanvasWidth \in Nat
  BY PictureSizes DEF Rows, Columns
<1>2. CASE r >= Top(s) /\ r < Top(s) + Height(s)
  <2>1. Left(s) = 0 /\ c >= Width(s)
    BY <1>1, <1>2, Geometry DEF InPicture, InBars
  <2> QED
    BY <1>1, <2>1, Geometry
<1>3. CASE ~(r >= Top(s) /\ r < Top(s) + Height(s))
  <2>1. Top(s) = 0 /\ r >= Height(s)
    BY <1>1, <1>3, Geometry DEF InBars
  <2> QED
    BY <1>1, <2>1, Geometry
<1> QED
  BY <1>2, <1>3

-----------------------------------------------------------------------------
(* The invariant.  Both canvases are good, for the next swap shows the     *)
(* other one; the size is one the preview accepts.                         *)

Canvas == {p \in [Rows \X Columns -> Pixel] : \A at \in Rows \X Columns : InFrame(p[at])}

IInv ==
  /\ offers \in Cameras
  /\ size \in Sizes \cup {NoSize} /\ shown \in Sizes \cup {NoSize}
  /\ pixels \in Canvas /\ render \in Canvas
  /\ LeftoversAtTheEdge

\* An empty canvas is a good one.
LEMMA BlankCanvas == Blank \in Canvas
<1>1. Black \in Pixel /\ InFrame(Black)
  BY DEF Black, Pixel, NoSize, InFrame
<1> QED
  BY <1>1 DEF Blank, Canvas

\* Drawing leaves a good canvas.
LEMMA PaintedCanvas ==
  ASSUME NEW s \in Sizes, NEW canvas \in Canvas
  PROVE  Painted(s, canvas) \in Canvas
<1>1. ASSUME NEW at \in Rows \X Columns
      PROVE  Painted(s, canvas)[at] \in Pixel /\ InFrame(Painted(s, canvas)[at])
  <2>1. at[1] \in Rows /\ at[2] \in Columns
    OBVIOUS
  <2>2. CASE InPicture(s, at[1], at[2])
    BY <2>1, <2>2, SourceWithin DEF Painted
  <2>3. CASE ~InPicture(s, at[1], at[2]) /\ InBars(s, at[1], at[2])
    BY <2>3 DEF Painted, Black, Pixel, NoSize, InFrame
  <2>4. CASE ~InPicture(s, at[1], at[2]) /\ ~InBars(s, at[1], at[2])
    BY <2>4 DEF Painted, Canvas
  <2> QED
    BY <2>2, <2>3, <2>4
<1>2. Painted(s, canvas) \in [Rows \X Columns -> Pixel]
  BY <1>1 DEF Painted
<1> QED
  BY <1>1, <1>2 DEF Canvas

\* A canvas just drawn is the picture and black, but for its edge.
LEMMA PaintedPicture ==
  ASSUME NEW s \in Sizes, NEW canvas, NEW r \in Rows, NEW c \in Columns
  PROVE  \/ Painted(s, canvas)[r, c] = IF InPicture(s, r, c) THEN Source(s, r, c) ELSE Black
         \/ (r = CanvasHeight - 1 \/ c = CanvasWidth - 1) /\ ~InPicture(s, r, c)
<1>1. <<r, c>> \in Rows \X Columns
  OBVIOUS
<1>2. Painted(s, canvas)[r, c] = IF InPicture(s, r, c) THEN Source(s, r, c)
                                 ELSE IF InBars(s, r, c) THEN Black
                                 ELSE canvas[<<r, c>>]
  BY <1>1 DEF Painted
<1>3. CASE InPicture(s, r, c)
  BY <1>2, <1>3
<1>4. CASE ~InPicture(s, r, c) /\ InBars(s, r, c)
  BY <1>2, <1>4
<1>5. CASE ~InPicture(s, r, c) /\ ~InBars(s, r, c)
  BY <1>5, Edge
<1> QED
  BY <1>3, <1>4, <1>5

\* A stream is opened with a size the preview accepts.
LEMMA OpenedSize ==
  ASSUME NEW camera \in Cameras, NEW p \in {q \in camera : Wanted(q)} \cup Fallbacks(camera)
  PROVE  [width |-> p.width, height |-> p.height] \in Sizes
<1>1. p \in Profile
  BY PictureCameras DEF Fallbacks, Candidates
<1>2. p.width \in 1 .. MaxWidth /\ p.height \in 1 .. MaxHeight
  BY <1>1, PictureSizes DEF Wanted, Fallbacks, Candidates, Fits, Profile
<1> QED
  BY <1>2 DEF Sizes

\* Every step keeps the invariant.
LEMMA StepKeepsIInv == IInv /\ [Next]_vars => IInv'
<1> SUFFICES ASSUME IInv, [Next]_vars PROVE IInv'
  OBVIOUS
<1>1. CASE Open
  <2>1. size' \in Sizes
    BY <1>1, OpenedSize DEF Open, IInv
  <2> QED
    BY <1>1, <2>1 DEF Open, IInv, LeftoversAtTheEdge
<1>2. CASE End
  BY <1>2 DEF End, IInv, LeftoversAtTheEdge
<1>3. CASE Draw
  <2>1. size \in Sizes /\ size' = size /\ offers' = offers
    BY <1>3 DEF Draw, IInv
  <2>2. Painted(size, render) \in Canvas
    BY <2>1, PaintedCanvas DEF IInv
  <2>3. CASE pixels' = Painted(size, render) /\ render' = pixels /\ shown' = size
    <3>1. LeftoversAtTheEdge'
      BY <2>1, <2>3, PaintedPicture DEF LeftoversAtTheEdge
    <3> QED
      BY <2>1, <2>2, <2>3, <3>1 DEF IInv
  <2>4. CASE render' = Painted(size, render) /\ UNCHANGED <<pixels, shown>>
    BY <2>1, <2>2, <2>4 DEF IInv, LeftoversAtTheEdge
  <2> QED
    BY <1>3, <2>3, <2>4 DEF Draw, Finish
<1>4. CASE Clear
  BY <1>4, BlankCanvas DEF Clear, Finish, IInv, LeftoversAtTheEdge
<1>5. CASE UNCHANGED vars
  BY <1>5 DEF vars, IInv, LeftoversAtTheEdge
<1> QED
  BY <1>1, <1>2, <1>3, <1>4, <1>5 DEF Next

\* Both canvases hold pixels read inside their frames, and frames have a size the
\* preview accepts: what the choice of a profile, the scaling and the bars maintain.
THEOREM PictureInvariant == Spec => []IInv
<1>1. Init => IInv
  BY BlankCanvas DEF Init, IInv, LeftoversAtTheEdge
<1> QED
  BY <1>1, StepKeepsIInv, PTL DEF Spec

\* Types.
THEOREM PictureTypes == Spec => []TypeOK
<1>1. IInv => TypeOK
  <2>1. Sizes \cup {NoSize} \subseteq [width : Nat, height : Nat]
    BY PictureSizes DEF Sizes, NoSize
  <2> QED
    BY <2>1 DEF IInv, TypeOK, Canvas
<1> QED
  BY <1>1, PictureInvariant, PTL

\* No pixel on the screen was read outside its frame (the scaling of preview), and no
\* frame is larger than the buffers (the choice of open_fallback_profile).
THEOREM ReadsInsideTheFrame == Spec => []SourceInFrame
<1>1. IInv => SourceInFrame
  BY DEF IInv, SourceInFrame, Canvas
<1> QED
  BY <1>1, PictureInvariant, PTL

\* Whatever was in the canvas before, only its last row or column can be left of it
\* (the bars preview clears).
THEOREM OnlyTheEdgeIsLeft == Spec => []LeftoversAtTheEdge
<1>1. IInv => LeftoversAtTheEdge
  BY DEF IInv
<1> QED
  BY <1>1, PictureInvariant, PTL

-----------------------------------------------------------------------------
(* yuy2_to_rgb.                                                            *)

\* What yuy2_to_rgb accepts it converts inside both buffers.
THEOREM ConvertsInsideTheBuffers ==
  ASSUME NEW bytes \in Nat, NEW width \in Nat, NEW height \in Nat, NEW stride \in Nat, NEW capacity \in Nat,
         Yuy2Accepts(bytes, width, height, stride, capacity),
         NEW row \in 0 .. height - 1, NEW column \in 0 .. width - 1, column % 2 = 0
  PROVE  /\ Yuy2Read(stride, row, column) < bytes
         /\ Yuy2Write(width, row, column) < capacity
<1>1. width \in Nat \ {0} /\ height \in Nat \ {0} /\ width % 2 = 0 /\ width * 2 <= stride
      /\ stride <= bytes \div height /\ width * height * 3 <= capacity
  BY DEF Yuy2Accepts
<1>2. column + 2 <= width /\ row \in Nat /\ column \in Nat
  BY <1>1, SMT
<1>3. row * stride + stride <= bytes
  <2>1. bytes \div height \in Nat /\ height * (bytes \div height) <= bytes
    BY <1>1, Quotient
  <2>2. height * stride <= height * (bytes \div height)
    BY <1>1, <2>1, SMT
  <2>3. (row + 1) * stride <= height * stride
    BY <1>1, SMT
  <2>4. (row + 1) * stride = row * stride + stride /\ row * stride \in Nat
    BY <1>2, SMT
  <2> QED
    BY <2>1, <2>2, <2>3, <2>4, SMT
<1>4. row * width + width <= width * height
  <2>1. (row + 1) * width <= width * height
    BY <1>1, SMT
  <2>2. (row + 1) * width = row * width + width
    BY <1>2, SMT
  <2> QED
    BY <2>1, <2>2
<1>5. row * stride \in Nat /\ row * width \in Nat /\ width * height \in Nat
  BY <1>2, SMT
<1>6. Yuy2Read(stride, row, column) < bytes
  BY <1>1, <1>2, <1>3, <1>5, SMT DEF Yuy2Read
<1>7. Yuy2Write(width, row, column) < capacity
  BY <1>1, <1>2, <1>4, <1>5, SMT DEF Yuy2Write
<1> QED
  BY <1>6, <1>7

-----------------------------------------------------------------------------
(* The packing for the encoder.                                            *)

\* Rows of n places one after the other: every number is one place of one row, ...
LEMMA PlaceOf ==
  ASSUME NEW n \in Nat \ {0}, NEW h \in Nat, NEW q \in 0 .. h * n - 1
  PROVE  \E y \in 0 .. h - 1, p \in 0 .. n - 1 : q = y * n + p
<1> DEFINE y == q \div n
           p == q - n * y
<1>1. q \in Nat /\ h * n \in Nat /\ q < h * n
  BY SMT
<1>2. y \in Nat /\ n * y <= q /\ q < n * y + n
  BY <1>1, Quotient
<1> HIDE DEF y
<1>3. n * y \in Nat /\ n * h = h * n /\ y * n = n * y
  BY <1>2, SMT
<1>4. p \in 0 .. n - 1 /\ q = n * y + p
  BY <1>1, <1>2, <1>3, SMT
<1>5. y < h
  <2>1. n * y < n * h
    BY <1>1, <1>2, <1>3, SMT
  <2> QED
    BY <1>2, <2>1, ProductOrder
<1> HIDE DEF p
<1>6. y \in 0 .. h - 1
  BY <1>2, <1>5, SMT
<1> QED
  BY <1>3, <1>4, <1>6

\* ... and of one only.
LEMMA OnePlace ==
  ASSUME NEW n \in Nat \ {0}, NEW y \in Nat, NEW z \in Nat,
         NEW p \in 0 .. n - 1, NEW q \in 0 .. n - 1, y * n + p = z * n + q
  PROVE  y = z /\ p = q
<1>1. y * n \in Nat /\ z * n \in Nat /\ (y + 1) * n = y * n + n /\ (z + 1) * n = z * n + n
  BY SMT
<1>2. ASSUME y < z PROVE FALSE
  <2>1. (y + 1) * n <= z * n
    BY <1>2, SMT
  <2> QED
    BY <1>1, <2>1, SMT
<1>3. ASSUME z < y PROVE FALSE
  <2>1. (z + 1) * n <= y * n
    BY <1>3, SMT
  <2> QED
    BY <1>1, <2>1, SMT
<1>4. y = z
  BY <1>2, <1>3, SMT
<1> QED
  BY <1>1, <1>4, SMT

\* Where a pixel of an image with even width goes: the pairs are numbered row by
\* row, and each takes three bytes.
LEMMA Packing ==
  ASSUME NEW n \in Nat \ {0}, NEW x \in 0 .. 2 * n - 1, NEW y \in Nat
  PROVE  \E p \in 0 .. n - 1, b \in {0, 1} :
           /\ x = 2 * p + b
           /\ PackedLuma(2 * n, x, y) = 3 * (y * n + p) + 1 + b
           /\ PackedChroma(2 * n, x, y) = 3 * (y * n + p)
<1> DEFINE p == x \div 2
           b == x % 2
           m == y * n
<1>1. p \in 0 .. n - 1 /\ b \in {0, 1} /\ x = 2 * p + b
  BY SMT
<1>2. m \in Nat /\ y * (2 * n) = 2 * m
  BY SMT
<1> HIDE DEF p, b, m
<1>3. (2 * m * 3) \div 2 = 3 * m /\ 3 * m + p * 3 = 3 * (m + p)
  BY <1>1, <1>2, SMT
<1>4. PackedLuma(2 * n, x, y) = 3 * (m + p) + 1 + b
  BY <1>2, <1>3 DEF PackedLuma, p, b
<1>5. PackedChroma(2 * n, x, y) = 3 * (m + p)
  BY <1>2, <1>3 DEF PackedChroma, p
<1> QED
  BY <1>1, <1>4, <1>5 DEF m

\* The two luma bytes of a place, and its chroma byte.
LEMMA ThreeBytes ==
  ASSUME NEW s \in Nat, NEW t \in Nat, NEW b \in {0, 1}, NEW c \in {0, 1}
  PROVE  3 * s + 1 + b # 3 * t /\ (3 * s + 1 + b = 3 * t + 1 + c => s = t /\ b = c)
  BY SMT

\* The packing of both conversions fills the encoder's buffer for every image of even
\* width: no byte is left as it was, none is written behind the end, no luma value is
\* overwritten by another one or by a chroma value (rtsp_server.cpp:484-504, 574-599).
THEOREM PacksEveryByteOnce ==
  ASSUME NEW n \in Nat \ {0}, NEW h \in Nat,
         NEW Xs, Xs = 0 .. 2 * n - 1, NEW Ys, Ys = 0 .. h - 1
  PROVE  /\ \A x \in Xs, y \in Ys : /\ PackedLuma(2 * n, x, y) \in 0 .. 3 * (h * n) - 1
                                    /\ PackedChroma(2 * n, x, y) \in 0 .. 3 * (h * n) - 1
         /\ \A i \in 0 .. 3 * (h * n) - 1 :
              \E x \in Xs, y \in Ys : i = PackedLuma(2 * n, x, y) \/ i = PackedChroma(2 * n, x, y)
         /\ \A x, u \in Xs, y, v \in Ys :
              /\ PackedLuma(2 * n, x, y) = PackedLuma(2 * n, u, v) => x = u /\ y = v
              /\ PackedLuma(2 * n, x, y) # PackedChroma(2 * n, u, v)
<1> DEFINE Spot(y, p) == y * n + p
<1>1. ASSUME NEW y \in Ys, NEW p \in 0 .. n - 1 PROVE Spot(y, p) \in 0 .. h * n - 1
  <2>1. y \in Nat /\ p \in Nat /\ y * n \in Nat /\ (y + 1) * n = y * n + n /\ h * n \in Nat
    BY <1>1, SMT
  <2>2. (y + 1) * n <= h * n
    BY <1>1, SMT
  <2> QED
    BY <1>1, <2>1, <2>2, SMT
<1>2. ASSUME NEW x \in Xs, NEW y \in Ys
      PROVE  \E p \in 0 .. n - 1, b \in {0, 1} :
               /\ x = 2 * p + b
               /\ PackedLuma(2 * n, x, y) = 3 * Spot(y, p) + 1 + b
               /\ PackedChroma(2 * n, x, y) = 3 * Spot(y, p)
  <2>1. x \in 0 .. 2 * n - 1 /\ y \in Nat
    BY <1>2, SMT
  <2> QED
    BY <2>1, Packing
<1>3. h * n \in Nat
  BY SMT
<1>4. ASSUME NEW y \in Ys, NEW v \in Ys, NEW p \in 0 .. n - 1, NEW q \in 0 .. n - 1, Spot(y, p) = Spot(v, q)
      PROVE  y = v /\ p = q
  BY <1>4, OnePlace
<1>5. ASSUME NEW s \in 0 .. h * n - 1 PROVE \E y \in Ys, p \in 0 .. n - 1 : s = Spot(y, p)
  BY <1>5, PlaceOf
<1> HIDE DEF Spot
<1>6. ASSUME NEW x \in Xs, NEW y \in Ys
      PROVE  /\ PackedLuma(2 * n, x, y) \in 0 .. 3 * (h * n) - 1
             /\ PackedChroma(2 * n, x, y) \in 0 .. 3 * (h * n) - 1
  <2>1. PICK p \in 0 .. n - 1, b \in {0, 1} :
               /\ x = 2 * p + b
               /\ PackedLuma(2 * n, x, y) = 3 * Spot(y, p) + 1 + b
               /\ PackedChroma(2 * n, x, y) = 3 * Spot(y, p)
    BY <1>2, <1>6
  <2>2. Spot(y, p) \in 0 .. h * n - 1
    BY <1>1, <1>6
  <2> QED
    BY <1>3, <2>1, <2>2, SMT
<1>7. ASSUME NEW i \in 0 .. 3 * (h * n) - 1
      PROVE  \E x \in Xs, y \in Ys : i = PackedLuma(2 * n, x, y) \/ i = PackedChroma(2 * n, x, y)
  <2> DEFINE s == i \div 3
             r == i % 3
  <2>1. s \in 0 .. h * n - 1 /\ r \in 0 .. 2 /\ i = 3 * s + r
    BY <1>3, <1>7, SMT
  <2> HIDE DEF s, r
  <2>2. PICK y \in Ys, p \in 0 .. n - 1 : s = Spot(y, p)
    BY <1>5, <2>1
  <2> DEFINE c == IF r = 2 THEN 1 ELSE 0
             x == 2 * p + c
  <2>3. x \in Xs /\ c \in {0, 1}
    BY <2>1, SMT
  <2>4. PICK q \in 0 .. n - 1, b \in {0, 1} :
               /\ x = 2 * q + b
               /\ PackedLuma(2 * n, x, y) = 3 * Spot(y, q) + 1 + b
               /\ PackedChroma(2 * n, x, y) = 3 * Spot(y, q)
    BY <1>2, <2>3
  <2>5. q = p /\ b = c
    BY <2>3, <2>4, SMT
  <2>6. i = PackedLuma(2 * n, x, y) \/ i = PackedChroma(2 * n, x, y)
    <3>1. PackedLuma(2 * n, x, y) = 3 * s + 1 + c /\ PackedChroma(2 * n, x, y) = 3 * s
      BY <2>2, <2>4, <2>5, Zenon
    <3> HIDE DEF x
    <3>2. r = 0 \/ r = 1 + c
      BY <2>1, SMT
    <3>3. CASE r = 0
      BY <2>1, <3>1, <3>3, SMT
    <3>4. CASE r = 1 + c
      BY <2>1, <2>3, <3>1, <3>4, SMT
    <3> QED
      BY <3>2, <3>3, <3>4
  <2> QED
    BY <2>3, <2>6
<1>8. ASSUME NEW x \in Xs, NEW u \in Xs, NEW y \in Ys, NEW v \in Ys
      PROVE  /\ PackedLuma(2 * n, x, y) = PackedLuma(2 * n, u, v) => x = u /\ y = v
             /\ PackedLuma(2 * n, x, y) # PackedChroma(2 * n, u, v)
  <2>1. PICK p \in 0 .. n - 1, b \in {0, 1} :
               /\ x = 2 * p + b
               /\ PackedLuma(2 * n, x, y) = 3 * Spot(y, p) + 1 + b
               /\ PackedChroma(2 * n, x, y) = 3 * Spot(y, p)
    BY <1>2, <1>8
  <2>2. PICK q \in 0 .. n - 1, c \in {0, 1} :
               /\ u = 2 * q + c
               /\ PackedLuma(2 * n, u, v) = 3 * Spot(v, q) + 1 + c
               /\ PackedChroma(2 * n, u, v) = 3 * Spot(v, q)
    BY <1>2, <1>8
  <2>3. Spot(y, p) \in Nat /\ Spot(v, q) \in Nat
    BY <1>1, <1>8, SMT
  <2>4. /\ 3 * Spot(y, p) + 1 + b # 3 * Spot(v, q)
        /\ 3 * Spot(y, p) + 1 + b = 3 * Spot(v, q) + 1 + c => Spot(y, p) = Spot(v, q) /\ b = c
    BY <2>3, ThreeBytes, Zenon
  <2>5. PackedLuma(2 * n, x, y) # PackedChroma(2 * n, u, v)
    BY <2>1, <2>2, <2>4, Zenon
  <2>6. ASSUME PackedLuma(2 * n, x, y) = PackedLuma(2 * n, u, v) PROVE x = u /\ y = v
    <3>1. Spot(y, p) = Spot(v, q) /\ b = c
      BY <2>1, <2>2, <2>4, <2>6, Zenon
    <3>2. y = v /\ p = q
      BY <1>4, <1>8, <3>1
    <3> QED
      BY <2>1, <2>2, <3>1, <3>2
  <2> QED
    BY <2>5, <2>6
<1> QED
  BY <1>6, <1>7, <1>8
=============================================================================
