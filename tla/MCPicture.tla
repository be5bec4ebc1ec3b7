----------------------------- MODULE MCPicture -----------------------------
(* Small instances of Picture for TLC, and its index arithmetic evaluated over  *)
(* small images.                                                                *)
EXTENDS Picture

P(w, h, o) == [width |-> w, height |-> h, off |-> o]

\* Frames as large as configured, wider, narrower, and of sizes whose scaling leaves
\* one row or one column.
MCCameras == {{P(8, 6, 0), P(8, 3, 0)}, {P(6, 4, 0)}, {P(6, 5, 0), P(6, 5, 600), P(9, 6, 0)},
              {P(2, 6, 0)}, {P(8, 6, 600)}, {P(5, 5, 0)}, {P(7, 2, 0)}}

\* No byte is read behind the frame or written behind the buffer.
ASSUME Yuy2Reaches ==
  \A w \in {2, 4, 6}, h \in 1 .. 3, stride \in 4 .. 14, bytes \in 1 .. 40, capacity \in {6, 18, 36, 54} :
    Yuy2Accepts(bytes, w, h, stride, capacity) =>
      \A row \in 0 .. h - 1, column \in {x \in 0 .. w - 1 : x % 2 = 0} :
        /\ Yuy2Read(stride, row, column) < bytes
        /\ Yuy2Write(w, row, column) < capacity

\* With even sizes every byte of the packed image is written, and every luma byte once.
ASSUME PackedOnce ==
  \A w \in {2, 4, 6}, h \in {2, 4} :
    LET Places == (0 .. w - 1) \X (0 .. h - 1)
        Luma == {PackedLuma(w, at[1], at[2]) : at \in Places}
        Chroma == {PackedChroma(w, at[1], at[2]) : at \in Places}
    IN  /\ Luma \cup Chroma = 0 .. (w * h * 3) \div 2 - 1
        /\ Luma \cap Chroma = {}
        /\ \A a, b \in Places :
             PackedLuma(w, a[1], a[2]) = PackedLuma(w, b[1], b[2]) => a = b
=============================================================================
