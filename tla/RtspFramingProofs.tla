------------------------- MODULE RtspFramingProofs -------------------------
(***************************************************************************)
(* The framer and its receive loop, for every size of a byte, every limit  *)
(* and every stream: the buffer never fills up without a frame in it, and  *)
(* every byte the client sent is consumed, buffered or still to come.      *)
(***************************************************************************)
EXTENDS RtspFraming, TLAPS, SequenceTheorems

\* What the loop keeps: the types, and neither of the two errors it checks for.
FramingInv == FramingTypeOK /\ NeverStuck

-----------------------------------------------------------------------------
\* Concatenation is associative.
LEMMA Associative ==
  ASSUME NEW s \in Seq(Byte), NEW t \in Seq(Byte), NEW u \in Seq(Byte)
  PROVE  (s \o t) \o u = s \o (t \o u)
  BY ConcatAssociative

\* A sequence cut in two: the types and lengths of the parts.
LEMMA Parts ==
  ASSUME NEW s \in Seq(Byte), NEW n \in 0 .. Len(s)
  PROVE  /\ SubSeq(s, 1, n) \in Seq(Byte) /\ Len(SubSeq(s, 1, n)) = n
         /\ SubSeq(s, n + 1, Len(s)) \in Seq(Byte)
         /\ Len(SubSeq(s, n + 1, Len(s))) = Len(s) - n
<1>1. Len(s) \in Nat /\ n \in Nat
  BY LenProperties
<1>2. \A i \in 1 .. n : s[i] \in Byte
  BY <1>1, ElementOfSeq
<1>3. \A i \in n + 1 .. Len(s) : s[i] \in Byte
  BY <1>1, ElementOfSeq
<1>4. SubSeq(s, 1, n) \in Seq(Byte) /\ Len(SubSeq(s, 1, n)) = IF 1 <= n THEN n - 1 + 1 ELSE 0
  BY <1>1, <1>2, SubSeqProperties
<1>5. /\ SubSeq(s, n + 1, Len(s)) \in Seq(Byte)
      /\ Len(SubSeq(s, n + 1, Len(s))) = IF n + 1 <= Len(s) THEN Len(s) - (n + 1) + 1 ELSE 0
  BY <1>1, <1>3, SubSeqProperties
<1> QED
  BY <1>1, <1>4, <1>5

\* The parts put together again.
LEMMA Rejoined ==
  ASSUME NEW s \in Seq(Byte), NEW n \in 0 .. Len(s)
  PROVE  SubSeq(s, 1, n) \o SubSeq(s, n + 1, Len(s)) = s
<1>1. Len(s) \in Nat /\ n \in Nat
  BY LenProperties
<1>2. 1 \in 1 .. Len(s) + 1 /\ n \in 1 - 1 .. Len(s) /\ Len(s) \in n .. Len(s)
  BY <1>1
<1>3. SubSeq(s, 1, n) \o SubSeq(s, n + 1, Len(s)) = SubSeq(s, 1, Len(s))
  BY <1>2, ConcatAdjacentSubSeq, Zenon
<1> QED
  BY <1>3, SubSeqFull

\* What is done, buffered and to come, as one sequence.
Joined(d, b, p) == (d \o b) \o p

\* A received piece moves from the peer to the end of the buffer.
LEMMA Moved ==
  ASSUME NEW d \in Seq(Byte), NEW b \in Seq(Byte), NEW p \in Seq(Byte), NEW n \in 0 .. Len(p)
  PROVE  Joined(d, b \o SubSeq(p, 1, n), SubSeq(p, n + 1, Len(p))) = Joined(d, b, p)
<1> DEFINE x == SubSeq(p, 1, n)
           y == SubSeq(p, n + 1, Len(p))
<1>1. x \in Seq(Byte) /\ y \in Seq(Byte)
  BY Parts
<1>2. x \o y = p
  BY Rejoined
<1> HIDE DEF x, y
<1>3. d \o b \in Seq(Byte)
  BY ConcatProperties
<1>4. (d \o b) \o x = d \o (b \o x)
  BY <1>1, Associative
<1>5. ((d \o b) \o x) \o y = (d \o b) \o (x \o y)
  BY <1>1, <1>3, Associative
<1>6. (d \o (b \o x)) \o y = (d \o b) \o p
  BY <1>2, <1>4, <1>5, Zenon
<1> QED
  BY <1>6, Zenon DEF x, y, Joined

\* A consumed frame moves from the buffer to what is done.
LEMMA Consumed ==
  ASSUME NEW d \in Seq(Byte), NEW b \in Seq(Byte), NEW n \in 0 .. Len(b)
  PROVE  (d \o SubSeq(b, 1, n)) \o SubSeq(b, n + 1, Len(b)) = d \o b
<1> DEFINE x == SubSeq(b, 1, n)
           y == SubSeq(b, n + 1, Len(b))
<1>1. x \in Seq(Byte) /\ y \in Seq(Byte)
  BY Parts
<1>2. x \o y = b
  BY Rejoined
<1> HIDE DEF x, y
<1>3. (d \o x) \o y = d \o (x \o y)
  BY <1>1, Associative
<1>4. (d \o x) \o y = d \o b
  BY <1>2, <1>3, Zenon
<1> QED
  BY <1>4, Zenon DEF x, y

\* The size in a header is a number.
LEMMA PayloadIsNat ==
  ASSUME NEW b \in Seq(Byte), Len(b) >= HeaderBytes
  PROVE  PayloadSize(b) \in Nat
<1>1. Len(b) \in Nat /\ 3 \in 1 .. Len(b) /\ 4 \in 1 .. Len(b)
  BY LenProperties DEF HeaderBytes
<1>2. b[3] \in Byte /\ b[4] \in Byte
  BY <1>1, ElementOfSeq
<1>3. Base \in Nat /\ b[3] \in Nat /\ b[4] \in Nat
  BY <1>2, FramingBytes DEF Byte
<1>4. b[3] * Base \in Nat
  BY <1>3
<1> QED
  BY <1>3, <1>4 DEF PayloadSize

\* The heart of it: a buffer without room holds a frame, or what cannot become one.
\* The text of a request is too long by then; an interleaved frame within the limit
\* fits (MaxPayload <= MaxRequest), header included.
LEMMA FullIsDecided ==
  ASSUME NEW b \in Seq(Byte), Len(b) = Capacity, Incomplete(b)
  PROVE  IsError(b)
<1>1. Len(b) \in Nat /\ Len(b) = MaxRequest + 4 /\ Len(b) > MaxRequest /\ Len(b) >= HeaderBytes
  BY FramingBounds DEF Capacity, HeaderBytes
<1>2. b # <<>>
  BY <1>1, EmptySeq, FramingBounds
<1>3. CASE IsBinary(b) /\ (HasHeader(b) => Len(b) < PayloadSize(b) + HeaderBytes)
  <2>1. HasHeader(b)
    BY <1>1, <1>3 DEF HasHeader
  <2>2. PayloadSize(b) \in Nat
    BY <1>1, PayloadIsNat
  <2>3. MaxRequest + 4 < PayloadSize(b) + 4
    BY <1>1, <1>3, <2>1 DEF HeaderBytes
  <2>4. PayloadSize(b) > MaxPayload
    BY <2>2, <2>3, FramingBounds
  <2> QED
    BY <2>1, <2>4 DEF IsError
<1>4. CASE IsText(b) /\ Ends(b) = {}
  BY <1>1, <1>4 DEF IsError
<1> QED
  BY <1>2, <1>3, <1>4 DEF Incomplete

-----------------------------------------------------------------------------
(* Frames.                                                                 *)

\* A prefix has the bytes of the whole.
LEMMA Prefix ==
  ASSUME NEW s \in Seq(Byte), NEW n \in 0 .. Len(s)
  PROVE  /\ SubSeq(s, 1, n) \in Seq(Byte) /\ Len(SubSeq(s, 1, n)) = n
         /\ \A i \in 1 .. n : SubSeq(s, 1, n)[i] = s[i]
<1>1. Len(s) \in Nat /\ n \in Nat
  BY LenProperties
<1>2. \A i \in 1 .. n : s[i] \in Byte
  BY <1>1, ElementOfSeq
<1>3. \A i \in 1 .. n - 1 + 1 : SubSeq(s, 1, n)[i] = s[1 + i - 1]
  BY <1>1, <1>2, SubSeqProperties
<1> QED
  BY <1>1, <1>3, Parts

\* A prefix ends with an empty line just where next() finds the end of one.
LEMMA PrefixEnds ==
  ASSUME NEW b \in Seq(Byte), NEW m \in 1 .. Len(b)
  PROVE  EndsLine(SubSeq(b, 1, m)) <=> m \in Ends(b)
<1> DEFINE s == SubSeq(b, 1, m)
           t == SubSeq(s, m - 3, m)
<1>1. Len(b) \in Nat /\ m \in Nat
  BY LenProperties
<1>2. s \in Seq(Byte) /\ Len(s) = m /\ \A i \in 1 .. m : s[i] = b[i]
  BY <1>1, Prefix
<1> HIDE DEF s
<1>3. CASE m < 4
  BY <1>1, <1>2, <1>3 DEF EndsLine, Ends, s
<1>4. CASE m >= 4
  <2>1. \A i \in m - 3 .. m : s[i] \in Byte
    BY <1>1, <1>2, <1>4, ElementOfSeq
  <2>2. m - 3 \in Int /\ m \in Int /\ m - 3 <= m
    BY <1>1
  <2>3. /\ t \in Seq(Byte) /\ Len(t) = m - (m - 3) + 1
        /\ \A i \in 1 .. m - (m - 3) + 1 : t[i] = s[m - 3 + i - 1]
    BY <2>1, <2>2, SubSeqProperties
  <2>4. /\ Len(t) = 4
        /\ t[1] = s[m - 3] /\ t[2] = s[m - 2] /\ t[3] = s[m - 1] /\ t[4] = s[m]
    BY <1>1, <2>3
  <2>5. t[1] = b[m - 3] /\ t[2] = b[m - 2] /\ t[3] = b[m - 1] /\ t[4] = b[m]
    <3>1. m - 3 \in 1 .. m /\ m - 2 \in 1 .. m /\ m - 1 \in 1 .. m /\ m \in 1 .. m
      BY <1>1, <1>4
    <3>2. \A i \in 1 .. m : s[i] = b[i]
      BY <1>2
    <3>3. s[m - 3] = b[m - 3] /\ s[m - 2] = b[m - 2] /\ s[m - 1] = b[m - 1] /\ s[m] = b[m]
      BY <3>1, <3>2, Zenon
    <3> QED
      BY <2>4, <3>3, Zenon
  <2> HIDE DEF t
  <2> DEFINE e == <<CR, LF, CR, LF>>
  <2>6. t = e <=> t[1] = CR /\ t[2] = LF /\ t[3] = CR /\ t[4] = LF
    <3>1. /\ e \in Seq(Byte) /\ Len(e) = 4
          /\ e[1] = CR /\ e[2] = LF /\ e[3] = CR /\ e[4] = LF
      BY FramingBytes
    <3> HIDE DEF e
    <3>2. ASSUME t[1] = CR, t[2] = LF, t[3] = CR, t[4] = LF
          PROVE  t = e
      <4>1. \A i \in 1 .. 4 : t[i] = e[i]
        BY <3>1, <3>2
      <4> QED
        BY <2>3, <2>4, <3>1, <4>1, SeqEqual
    <3> QED
      BY <3>1, <3>2
  <2>7. m \in Ends(b) <=> b[m - 3] = CR /\ b[m - 2] = LF /\ b[m - 1] = CR /\ b[m] = LF
    BY <1>1, <1>4 DEF Ends
  <2>8. EndsLine(s) <=> t = e
    BY <1>2, <1>4 DEF EndsLine, t
  <2> QED
    BY <2>5, <2>6, <2>7, <2>8 DEF s
<1> QED
  BY <1>1, <1>3, <1>4

\* A prefix of a prefix.
LEMMA PrefixOfPrefix ==
  ASSUME NEW s \in Seq(Byte), NEW n \in 1 .. Len(s), NEW m \in 1 .. n
  PROVE  SubSeq(SubSeq(s, 1, n), 1, m) = SubSeq(s, 1, m)
<1> DEFINE p == SubSeq(s, 1, n)
<1>1. Len(s) \in Nat /\ n \in Nat /\ m \in Nat /\ n \in 0 .. Len(s) /\ m \in 0 .. Len(s)
  BY LenProperties
<1>2. p \in Seq(Byte) /\ Len(p) = n /\ \A i \in 1 .. n : p[i] = s[i]
  BY <1>1, Prefix
<1> HIDE DEF p
<1>3. /\ SubSeq(p, 1, m) \in Seq(Byte) /\ Len(SubSeq(p, 1, m)) = m
      /\ \A i \in 1 .. m : SubSeq(p, 1, m)[i] = p[i]
  BY <1>1, <1>2, Prefix
<1>4. /\ SubSeq(s, 1, m) \in Seq(Byte) /\ Len(SubSeq(s, 1, m)) = m
      /\ \A i \in 1 .. m : SubSeq(s, 1, m)[i] = s[i]
  BY <1>1, Prefix
<1>5. \A i \in 1 .. m : SubSeq(p, 1, m)[i] = SubSeq(s, 1, m)[i]
  BY <1>1, <1>2, <1>3, <1>4
<1> QED
  BY <1>3, <1>4, <1>5, SeqEqual DEF p

\* What next() takes for a request is one.
LEMMA RequestIsFrame ==
  ASSUME NEW b \in Seq(Byte), NEW n \in 1 .. Len(b), StartsRequest(b, n)
  PROVE  IsFrame(SubSeq(b, 1, n))
<1> DEFINE s == SubSeq(b, 1, n)
<1>1. Len(b) \in Nat /\ n \in Nat /\ n \in 0 .. Len(b)
  BY LenProperties
<1>2. Len(s) = n /\ \A i \in 1 .. n : s[i] = b[i]
  BY <1>1, Prefix
<1>3. Len(s) \in 1 .. MaxRequest /\ s[1] # Dollar
  BY <1>1, <1>2, FramingBounds DEF StartsRequest, IsText
<1>4. EndsLine(s)
  BY PrefixEnds DEF StartsRequest
<1>5. ASSUME NEW m \in 1 .. n - 1
      PROVE  ~EndsLine(SubSeq(s, 1, m))
  <2>1. m \in 1 .. n /\ m \in 1 .. Len(b) /\ m < n
    BY <1>1
  <2>2. SubSeq(s, 1, m) = SubSeq(b, 1, m)
    BY <2>1, PrefixOfPrefix
  <2>3. m \notin Ends(b)
    BY <1>1, <2>1 DEF StartsRequest
  <2> QED
    BY <2>1, <2>2, <2>3, PrefixEnds
<1> HIDE DEF s
<1>6. \A m \in 1 .. Len(s) - 1 : ~EndsLine(SubSeq(s, 1, m))
  BY <1>2, <1>5
<1> QED
  BY <1>3, <1>4, <1>6 DEF IsFrame, s

\* What it takes for an interleaved frame is one.
LEMMA InterleavedIsFrame ==
  ASSUME NEW b \in Seq(Byte), NEW n \in 1 .. Len(b), StartsInterleaved(b, n)
  PROVE  IsFrame(SubSeq(b, 1, n))
<1> DEFINE s == SubSeq(b, 1, n)
<1>1. Len(b) \in Nat /\ n \in Nat /\ n \in 0 .. Len(b) /\ Len(b) >= HeaderBytes
  BY LenProperties DEF StartsInterleaved, HasHeader
<1>2. Len(s) = n /\ \A i \in 1 .. n : s[i] = b[i]
  BY <1>1, Prefix
<1>3. PayloadSize(b) \in Nat
  BY <1>1, PayloadIsNat
<1>4. n = PayloadSize(b) + 4 /\ PayloadSize(b) <= MaxPayload /\ n >= 4
  BY <1>3 DEF StartsInterleaved, HeaderBytes
<1>5. s[1] = b[1] /\ s[3] = b[3] /\ s[4] = b[4]
  BY <1>1, <1>2, <1>4
<1>6. b[1] = Dollar
  BY DEF StartsInterleaved, HasHeader, IsBinary
<1> HIDE DEF s
<1>7. s[3] * Base + s[4] = PayloadSize(b)
  BY <1>5 DEF PayloadSize
<1>8. b[3] * Base \in Int /\ b[4] \in Int
  <2>1. b[3] \in Byte /\ b[4] \in Byte
    BY <1>1, ElementOfSeq DEF HeaderBytes
  <2>2. b[3] \in Int /\ b[4] \in Int /\ Base \in Int
    BY <2>1, FramingBytes DEF Byte
  <2> QED
    BY <2>2
<1>9. HeaderBytes + s[3] * Base + s[4] = 4 + PayloadSize(b)
  BY <1>5, <1>8 DEF PayloadSize, HeaderBytes
<1>10. /\ Len(s) >= HeaderBytes /\ s[1] = Dollar
       /\ Len(s) = HeaderBytes + s[3] * Base + s[4]
       /\ Len(s) <= HeaderBytes + MaxPayload
  BY <1>2, <1>3, <1>4, <1>5, <1>6, <1>9, FramingBounds DEF HeaderBytes
<1> QED
  BY <1>10 DEF IsFrame, s

\* Whatever follows it, what next() calls an error does not begin a frame.
LEMMA ErrorIsFinal ==
  ASSUME NEW b \in Seq(Byte), NEW p \in Seq(Byte), IsError(b)
  PROVE  ~BeginsFrame(b \o p)
<1> DEFINE w == b \o p
<1>1. Len(b) \in Nat /\ Len(p) \in Nat
  BY LenProperties
<1>2. w \in Seq(Byte) /\ Len(w) = Len(b) + Len(p) /\ \A i \in 1 .. Len(b) : w[i] = b[i]
  <2>1. \A i \in 1 .. Len(b) + Len(p) : w[i] = IF i <= Len(b) THEN b[i] ELSE p[i - Len(b)]
    BY ConcatProperties
  <2>2. w \in Seq(Byte) /\ Len(w) = Len(b) + Len(p)
    BY ConcatProperties
  <2> QED
    BY <1>1, <2>1, <2>2
<1> HIDE DEF w
<1> SUFFICES ASSUME NEW n \in 1 .. Len(w), IsFrame(SubSeq(w, 1, n)) PROVE FALSE
  BY DEF BeginsFrame, w
<1> DEFINE s == SubSeq(w, 1, n)
<1>3. s \in Seq(Byte) /\ Len(s) = n /\ \A i \in 1 .. n : s[i] = w[i]
  BY <1>1, <1>2, Prefix
<1>4. b # <<>> /\ Len(b) >= 1
  BY <1>1, EmptySeq DEF IsError, HasHeader, IsBinary, IsText
<1>5. IsFrame(s)
  OBVIOUS
<1> HIDE DEF s
<1>6. s[1] = b[1]
  BY <1>1, <1>2, <1>3, <1>4
<1>7. CASE HasHeader(b) /\ PayloadSize(b) > MaxPayload
  <2>1. Len(b) >= 4 /\ b[1] = Dollar
    BY <1>7 DEF HasHeader, IsBinary, HeaderBytes
  <2>2. /\ Len(s) >= 4 /\ Len(s) = HeaderBytes + s[3] * Base + s[4]
        /\ Len(s) <= HeaderBytes + MaxPayload
    BY <1>5, <1>6, <2>1 DEF IsFrame, HeaderBytes
  <2>3. s[3] = b[3] /\ s[4] = b[4]
    BY <1>1, <1>2, <1>3, <2>1, <2>2
  <2>4. PayloadSize(b) \in Nat
    BY <2>1, PayloadIsNat DEF HeaderBytes
  <2>5. b[3] * Base \in Int /\ b[4] \in Int
    <3>1. b[3] \in Byte /\ b[4] \in Byte
      BY <1>1, <2>1, ElementOfSeq
    <3>2. b[3] \in Int /\ b[4] \in Int /\ Base \in Int
      BY <3>1, FramingBytes DEF Byte
    <3> QED
      BY <3>2
  <2>6. Len(s) = 4 + PayloadSize(b)
    BY <2>2, <2>3, <2>5 DEF PayloadSize, HeaderBytes
  <2> QED
    BY <1>7, <2>2, <2>4, <2>6, FramingBounds DEF HeaderBytes
<1>8. CASE IsText(b) /\ Len(b) > MaxRequest /\ \A m \in Ends(b) : m > MaxRequest
  <2>1. Len(s) \in 1 .. MaxRequest /\ EndsLine(s)
    BY <1>5, <1>6, <1>8 DEF IsFrame, IsText
  <2>2. n \in 1 .. Len(b) /\ n <= MaxRequest
    BY <1>1, <1>3, <1>8, <2>1, FramingBounds
  <2>3. s = SubSeq(b, 1, n)
    <3>1. /\ SubSeq(b, 1, n) \in Seq(Byte) /\ Len(SubSeq(b, 1, n)) = n
          /\ \A i \in 1 .. n : SubSeq(b, 1, n)[i] = b[i]
      BY <1>1, <2>2, Prefix
    <3>2. \A i \in 1 .. n : s[i] = SubSeq(b, 1, n)[i]
      BY <1>1, <1>2, <1>3, <2>2, <3>1
    <3> QED
      BY <1>3, <3>1, <3>2, SeqEqual
  <2>4. n \in Ends(b)
    BY <2>1, <2>2, <2>3, PrefixEnds
  <2> QED
    BY <1>1, <1>8, <2>2, <2>4, FramingBounds
<1> QED
  BY <1>7, <1>8 DEF IsError

-----------------------------------------------------------------------------
\* A client connects.
LEMMA FramingInitInv == FramingInit => FramingInv
<1> SUFFICES ASSUME FramingInit PROVE FramingInv
  OBVIOUS
<1>1. <<>> \in Seq(Byte) /\ Len(<<>>) = 0
  BY EmptySeq
<1>2. peer \in Seq(Byte)
  BY FramingStreams DEF FramingInit
<1> QED
  BY <1>1, <1>2, FramingBounds
  DEF FramingInit, FramingInv, FramingTypeOK, NeverStuck, Capacity, HeaderBytes, Turns, Left

\* Receiving keeps to the room in the framer, so append() never refuses.
LEMMA ReceiveStep ==
  ASSUME FramingInv, NEW n \in 1 .. ReceiveSize, Receive(n)
  PROVE  FramingInv' /\ done' \o buffer' \o peer' = done \o buffer \o peer
<1>1. /\ peer \in Seq(Byte) /\ buffer \in Seq(Byte) /\ done \in Seq(Byte) /\ frame \in Seq(Byte)
      /\ Len(buffer) <= Capacity
  BY DEF FramingInv, FramingTypeOK
<1>2. Len(peer) \in Nat /\ Len(buffer) \in Nat /\ Capacity \in Nat /\ ReceiveSize \in Nat
  BY <1>1, LenProperties, FramingBounds DEF Capacity, HeaderBytes
<1>3. n \in 0 .. Len(peer) /\ n <= Writable /\ ~(n > Writable)
  BY <1>2 DEF Receive, RecvLimit, Writable
<1>4. /\ turn' = "parse" /\ buffer' = buffer \o SubSeq(peer, 1, n)
      /\ peer' = SubSeq(peer, n + 1, Len(peer)) /\ done' = done /\ frame' = frame
  BY <1>3 DEF Receive
<1>5. /\ SubSeq(peer, 1, n) \in Seq(Byte) /\ Len(SubSeq(peer, 1, n)) = n
      /\ SubSeq(peer, n + 1, Len(peer)) \in Seq(Byte)
  BY <1>1, <1>3, Parts
<1>6. buffer' \in Seq(Byte) /\ Len(buffer') = Len(buffer) + n
  BY <1>1, <1>4, <1>5, ConcatProperties
<1>7. Len(buffer') <= Capacity
  BY <1>2, <1>3, <1>6 DEF Writable
<1>8. FramingInv'
  BY <1>1, <1>4, <1>5, <1>6, <1>7 DEF FramingInv, FramingTypeOK, NeverStuck, Turns
<1>9. Joined(done, buffer \o SubSeq(peer, 1, n), SubSeq(peer, n + 1, Len(peer)))
        = Joined(done, buffer, peer)
  BY <1>1, <1>3, Moved
<1>10. done' \o buffer' \o peer' = done \o buffer \o peer
  BY <1>4, <1>9, Zenon DEF Joined
<1> QED
  BY <1>8, <1>10

\* Consuming a frame.
LEMMA ConsumeStep ==
  ASSUME FramingInv, NEW n \in 1 .. Len(buffer), Consume(n), UNCHANGED peer, turn' = "receive"
  PROVE  FramingInv' /\ done' \o buffer' \o peer' = done \o buffer \o peer
<1>1. /\ peer \in Seq(Byte) /\ buffer \in Seq(Byte) /\ done \in Seq(Byte)
      /\ Len(buffer) <= Capacity
  BY DEF FramingInv, FramingTypeOK
<1>2. Len(buffer) \in Nat /\ Capacity \in Nat /\ n \in 0 .. Len(buffer)
  BY <1>1, LenProperties, FramingBounds DEF Capacity, HeaderBytes
<1>3. /\ SubSeq(buffer, 1, n) \in Seq(Byte)
      /\ SubSeq(buffer, n + 1, Len(buffer)) \in Seq(Byte)
      /\ Len(SubSeq(buffer, n + 1, Len(buffer))) = Len(buffer) - n
  BY <1>1, <1>2, Parts
<1>4. buffer' \in Seq(Byte) /\ Len(buffer') <= Capacity /\ frame' \in Seq(Byte)
  BY <1>1, <1>2, <1>3 DEF Consume
<1>5. done' \in Seq(Byte)
  BY <1>1, <1>3, ConcatProperties DEF Consume
<1>6. FramingInv'
  BY <1>1, <1>4, <1>5 DEF FramingInv, FramingTypeOK, NeverStuck, Turns
<1>7. done' \o buffer' = done \o buffer
  BY <1>1, <1>2, Consumed DEF Consume
<1> QED
  BY <1>6, <1>7

\* A turn without a frame: the loop goes on, or the client is let go for its own sake.
LEMMA IdleStep ==
  ASSUME FramingInv, UNCHANGED <<peer, buffer, done, frame>>, turn' \in Turns \ {"exhausted", "overflow"}
  PROVE  FramingInv' /\ done' \o buffer' \o peer' = done \o buffer \o peer
  BY DEF FramingInv, FramingTypeOK, NeverStuck

\* Waiting for more is only possible where there is room for it.
LEMMA NeedMoreHasRoom ==
  ASSUME FramingInv, NeedMore
  PROVE  turn' = "receive"
<1>1. buffer \in Seq(Byte) /\ Len(buffer) \in Nat /\ Capacity \in Nat
  BY LenProperties, FramingBounds DEF FramingInv, FramingTypeOK, Capacity, HeaderBytes
<1>2. Len(buffer) # Capacity
  BY <1>1, FullIsDecided DEF NeedMore
<1>3. Writable # 0
  BY <1>1, <1>2 DEF Writable
<1> QED
  BY <1>3 DEF NeedMore

\* Every step keeps the invariant and the bytes.
LEMMA FramingStep ==
  ASSUME FramingInv, [FramingNext]_framingVars
  PROVE  FramingInv' /\ done' \o buffer' \o peer' = done \o buffer \o peer
<1>1. ASSUME NEW n \in 1 .. ReceiveSize, Receive(n)
      PROVE  FramingInv' /\ done' \o buffer' \o peer' = done \o buffer \o peer
  BY <1>1, ReceiveStep
<1>2. CASE ReceiveNothing
  BY <1>2, IdleStep DEF ReceiveNothing, Turns
<1>3. CASE PeerGone
  BY <1>3, IdleStep DEF PeerGone, Turns, Left
<1>4. CASE Reject
  BY <1>4, IdleStep DEF Reject, Turns, Left
<1>5. CASE NeedMore
  BY <1>5, IdleStep, NeedMoreHasRoom DEF NeedMore, Turns
<1>6. CASE TakeInterleaved
  BY <1>6, ConsumeStep DEF TakeInterleaved
<1>7. CASE TakeRequest
  BY <1>7, ConsumeStep DEF TakeRequest
<1>8. CASE EndSession
  BY <1>8, IdleStep DEF EndSession, Turns, Left
<1>9. CASE GiveUp
  BY <1>9, IdleStep DEF GiveUp, Turns, Left
<1>10. CASE UNCHANGED framingVars
  BY <1>10 DEF framingVars, FramingInv, FramingTypeOK, NeverStuck
<1> QED
  BY <1>1, <1>2, <1>3, <1>4, <1>5, <1>6, <1>7, <1>8, <1>9, <1>10 DEF FramingNext

-----------------------------------------------------------------------------
\* The invariant of the loop (rtsp_framing.cpp with the loop of handle_client).
THEOREM FramingInvariant == FramingSpec => []FramingInv
<1>1. FramingInit => FramingInv
  BY FramingInitInv
<1>2. FramingInv /\ [FramingNext]_framingVars => FramingInv'
  BY FramingStep
<1> QED
  BY <1>1, <1>2, PTL DEF FramingSpec

\* The buffer neither overflows nor fills up without a frame in it: the two branches
\* of handle_client that check for it (rtsp_server.cpp:1309 and 1325) are dead code.
THEOREM FramerNeverStuck == FramingSpec => []NeverStuck
<1>1. FramingInv => NeverStuck
  BY DEF FramingInv
<1> QED
  BY <1>1, FramingInvariant, PTL

\* Every byte of the client is consumed, buffered or still to come, in order.
THEOREM BytesNotLost == FramingSpec => NothingLost
<1>1. FramingInv /\ [FramingNext]_framingVars =>
        [done' \o buffer' \o peer' = done \o buffer \o peer]_framingVars
  BY FramingStep
<1> QED
  BY <1>1, FramingInvariant, PTL DEF FramingSpec, NothingLost

-----------------------------------------------------------------------------
\* Every step hands on frames only, and rejects only what cannot become one.
LEMMA ProtocolStep ==
  ASSUME FramingInv, FramesAreWhole, RejectsOnlyTheUnframable, [FramingNext]_framingVars
  PROVE  FramesAreWhole' /\ RejectsOnlyTheUnframable'
<1>1. peer \in Seq(Byte) /\ buffer \in Seq(Byte)
  BY DEF FramingInv, FramingTypeOK
<1>2. CASE UNCHANGED frame /\ turn' # "rejected"
  BY <1>2 DEF FramesAreWhole, RejectsOnlyTheUnframable
<1>3. CASE Reject
  <2>1. UNCHANGED <<frame, buffer, peer>> /\ IsError(buffer)
    BY <1>3 DEF Reject
  <2>2. ~BeginsFrame(buffer \o peer)
    BY <1>1, <2>1, ErrorIsFinal
  <2>3. FramesAreWhole'
    BY <2>1 DEF FramesAreWhole
  <2>4. RejectsOnlyTheUnframable'
    BY <2>1, <2>2 DEF RejectsOnlyTheUnframable
  <2> QED
    BY <2>3, <2>4
<1>4. CASE TakeInterleaved
  <2> PICK n \in 1 .. Len(buffer) : StartsInterleaved(buffer, n) /\ Consume(n) /\ turn' = "receive"
    BY <1>4 DEF TakeInterleaved
  <2>1. IsFrame(SubSeq(buffer, 1, n))
    BY <1>1, InterleavedIsFrame
  <2> QED
    BY <2>1 DEF Consume, FramesAreWhole, RejectsOnlyTheUnframable
<1>5. CASE TakeRequest
  <2> PICK n \in 1 .. Len(buffer) : StartsRequest(buffer, n) /\ Consume(n) /\ turn' = "receive"
    BY <1>5 DEF TakeRequest
  <2>1. IsFrame(SubSeq(buffer, 1, n))
    BY <1>1, RequestIsFrame
  <2> QED
    BY <2>1 DEF Consume, FramesAreWhole, RejectsOnlyTheUnframable
<1>6. CASE UNCHANGED framingVars
  BY <1>6 DEF framingVars, FramesAreWhole, RejectsOnlyTheUnframable
<1>7. CASE \E n \in 1 .. ReceiveSize : Receive(n)
  BY <1>2, <1>7 DEF Receive
<1>8. CASE ReceiveNothing \/ PeerGone \/ EndSession \/ GiveUp
  BY <1>2, <1>8 DEF ReceiveNothing, PeerGone, EndSession, GiveUp
<1>9. CASE NeedMore
  BY <1>2, <1>9 DEF NeedMore
<1> QED
  BY <1>3, <1>4, <1>5, <1>6, <1>7, <1>8, <1>9 DEF FramingNext

\* In whatever pieces the stream arrives, every frame taken from it is a frame of the
\* protocol, ended by its first empty line or by its size.
THEOREM FramerTakesFrames == FramingSpec => []FramesAreWhole
<1>1. FramingInit => FramesAreWhole /\ RejectsOnlyTheUnframable
  BY DEF FramingInit, FramesAreWhole, RejectsOnlyTheUnframable
<1>2. FramingInv /\ FramesAreWhole /\ RejectsOnlyTheUnframable /\ [FramingNext]_framingVars
        => FramesAreWhole' /\ RejectsOnlyTheUnframable'
  BY ProtocolStep
<1> QED
  BY <1>1, <1>2, FramingInvariant, PTL DEF FramingSpec

\* Only a stream is rejected that no bytes to come would make a frame of.
THEOREM FramerRejectsForCause == FramingSpec => []RejectsOnlyTheUnframable
<1>1. FramingInit => FramesAreWhole /\ RejectsOnlyTheUnframable
  BY DEF FramingInit, FramesAreWhole, RejectsOnlyTheUnframable
<1>2. FramingInv /\ FramesAreWhole /\ RejectsOnlyTheUnframable /\ [FramingNext]_framingVars
        => FramesAreWhole' /\ RejectsOnlyTheUnframable'
  BY ProtocolStep
<1> QED
  BY <1>1, <1>2, FramingInvariant, PTL DEF FramingSpec
=============================================================================
