------------------------ MODULE RtspConnectionProofs ------------------------
(***************************************************************************)
(* The connection runs the framer's loop unchanged, and its sender keeps   *)
(* one deadline, one numbering and one place in the byte stream; what it   *)
(* cuts an access unit into are the NAL units of the byte stream format,   *)
(* and its packets put together are those again.  All this for every       *)
(* packet size, deadline and range of sequence numbers, and for every      *)
(* access unit that is a string of bytes without a NAL unit of type 28.    *)
(***************************************************************************)
EXTENDS RtspConnection, RtspFramingProofs, FiniteSetTheorems, WellFoundedInduction

-----------------------------------------------------------------------------
(* Remainders: what the sequence numbers need.                             *)

\* Division with remainder.
LEMMA DivMod ==
  ASSUME NEW a \in Int, NEW r \in Nat \ {0}
  PROVE  a % r \in 0 .. r - 1 /\ a \div r \in Int /\ a = r * (a \div r) + (a % r)
  BY SMT

\* The remainder is unique.
LEMMA RemainderUnique ==
  ASSUME NEW r \in Nat \ {0}, NEW p \in Int, NEW q \in Int,
         NEW x \in 0 .. r - 1, NEW y \in 0 .. r - 1, r * p + x = r * q + y
  PROVE  x = y
<1>1. r * (p - q) = y - x /\ y - x < r /\ y - x > -r
  BY SMT
<1>2. CASE p - q >= 1
  <2>1. r * (p - q) >= r
    BY <1>2, SMT
  <2> QED
    BY <1>1, <2>1
<1>3. CASE p - q <= -1
  <2>1. r * (p - q) <= -r
    BY <1>3, SMT
  <2> QED
    BY <1>1, <2>1
<1>4. CASE p - q = 0
  BY <1>1, <1>4, SMT
<1> QED
  BY <1>2, <1>3, <1>4

\* A remainder may be taken before the sum.
LEMMA RemainderOfSum ==
  ASSUME NEW a \in Int, NEW b \in Int, NEW r \in Nat \ {0}
  PROVE  ((a % r) + b) % r = (a + b) % r
<1> DEFINE m == a % r
           q == a \div r
           c == m + b
           d == a + b
           u == c \div r
           v == d \div r
           x == c % r
           y == d % r
<1>1. m \in 0 .. r - 1 /\ q \in Int /\ a = r * q + m
  BY DivMod
<1>2. c \in Int /\ d \in Int /\ d = c + r * q
  BY <1>1
<1>3. x \in 0 .. r - 1 /\ u \in Int /\ c = r * u + x
  BY <1>2, DivMod
<1>4. y \in 0 .. r - 1 /\ v \in Int /\ d = r * v + y
  BY <1>2, DivMod
<1> HIDE DEF m, q, c, d, u, v, x, y
<1>5. r * (u + q) + x = d
  <2>1. r * (u + q) = r * u + r * q
    BY <1>1, <1>3, SMT
  <2>2. r * u \in Int /\ r * q \in Int
    BY <1>1, <1>3
  <2> QED
    BY <1>2, <1>3, <2>1, <2>2
<1>6. x = y
  BY <1>1, <1>3, <1>4, <1>5, RemainderUnique
<1> QED
  BY <1>6 DEF x, y, c, d, m

\* A number in the range is its own remainder.
LEMMA SmallRemainder ==
  ASSUME NEW r \in Nat \ {0}, NEW a \in 0 .. r - 1
  PROVE  a % r = a
  BY SMT

-----------------------------------------------------------------------------
(* The connection and the framer.                                          *)

\* Every step of the connection is one of the framer's loop, or none of its business.
LEMMA ConnectionFrames == [Next]_vars => [FramingNext]_framingVars
<1> SUFFICES ASSUME [Next]_vars PROVE [FramingNext]_framingVars
  OBVIOUS
<1>1. CASE Listen
  BY <1>1 DEF Listen, FramingNext
<1>2. CASE Answer
  BY <1>2 DEF Answer, FramingNext
<1>3. CASE AnswerFails
  BY <1>3 DEF AnswerFails, FramingNext
<1>4. CASE Media
  BY <1>4 DEF Media, FramingNext
<1>5. CASE UNCHANGED vars
  BY <1>5 DEF vars
<1> QED
  BY <1>1, <1>2, <1>3, <1>4, <1>5 DEF Next

\* The receive side of handle_client is the loop of RtspFraming, whatever is sent in
\* the same turns.
THEOREM ConnectionRefinesFraming == Spec => FramingSpec
<1>1. Init => FramingInit
  BY DEF Init
<1> QED
  BY <1>1, ConnectionFrames, PTL DEF Spec, FramingSpec

\* No client is dropped because its bytes were cut badly: the buffer of the framer
\* neither overflows nor fills up without a frame in it.
THEOREM ConnectionNeverStuck == Spec => []NeverStuck
  BY ConnectionRefinesFraming, FramerNeverStuck, PTL

\* Every byte of the client is consumed, buffered or still to come, in order.
THEOREM ConnectionLosesNothing == Spec => NothingLost
  BY ConnectionRefinesFraming, BytesNotLost, PTL

\* Every frame taken is a frame of the protocol.
THEOREM ConnectionTakesFrames == Spec => []FramesAreWhole
  BY ConnectionRefinesFraming, FramerTakesFrames, PTL

\* A client is only rejected for a stream that no framing can go on with.
THEOREM ConnectionRejectsForCause == Spec => []RejectsOnlyTheUnframable
  BY ConnectionRefinesFraming, FramerRejectsForCause, PTL

-----------------------------------------------------------------------------
(* The sender.                                                             *)

Medias == {"stopped", "idle", "next", "sending", "sent", "failed", "closed"}

\* The time waited and the time left are never more than one deadline.
Deadline == budget \in Nat /\ spent \in Nat /\ budget + spent <= SendDeadline
\* A client left with part of a message is one the failure path will not keep.
CutIsCounted == cut => media = "closed" \/ (media = "failed" /\ counted)
\* Between packets the next number is the one the client waits for; a packet on its way
\* has that number.
InNumber ==
  /\ media \in Medias /\ seq \in Seqs /\ expected \in Seqs
  /\ media \in {"stopped", "idle", "next", "sent"} \/ (media = "failed" /\ ~counted) => seq = expected
  /\ media = "sending" => packet.seq = expected /\ seq = (expected + 1) % SeqRange
HeardIsSeq == \E S : heard \in Seq(S)

SenderInv == Deadline /\ CutIsCounted /\ InNumber /\ HeardIsSeq /\ NumberedAsAnnounced

\* The next number is a number.
LEMMA NextNumber == \A n \in Seqs : (n + 1) % SeqRange \in Seqs
  BY SenderBounds, DivMod DEF Seqs

\* Before anything is sent: what PLAY and a new unit start from.
LEMMA NothingHeard == heard' = <<>> => HeardIsSeq' /\ NumberedAsAnnounced'
<1> SUFFICES ASSUME heard' = <<>> PROVE HeardIsSeq' /\ NumberedAsAnnounced'
  OBVIOUS
<1>1. HeardIsSeq'
  BY EmptySeq DEF HeardIsSeq
<1>2. DOMAIN heard' = {}
  OBVIOUS
<1> QED
  BY <1>1, <1>2 DEF NumberedAsAnnounced

\* A step that leaves what is heard and expected alone, and takes up no unit.
LEMMA HeardKept ==
  ASSUME HeardIsSeq, NumberedAsAnnounced, UNCHANGED <<heard, expected>>,
         media' \in {"next", "sending", "sent"} => media \in {"next", "sending", "sent"}
  PROVE  HeardIsSeq' /\ NumberedAsAnnounced'
  BY DEF HeardIsSeq, NumberedAsAnnounced

\* A connection starts with the invariant.
LEMMA SenderInitInv == SenderInit => SenderInv
<1> SUFFICES ASSUME SenderInit PROVE SenderInv
  OBVIOUS
<1>1. HeardIsSeq
  BY EmptySeq DEF HeardIsSeq, SenderInit
<1>2. NumberedAsAnnounced
  BY DEF NumberedAsAnnounced, SenderInit
<1>3. Deadline /\ CutIsCounted /\ InNumber
  BY SenderBounds DEF SenderInit, Deadline, CutIsCounted, InNumber, Seqs, Medias
<1> QED
  BY <1>1, <1>2, <1>3 DEF SenderInv

\* PLAY: the number it draws is the one it announces.
LEMMA PlayStep == ASSUME SenderInv, Play PROVE SenderInv'
<1>1. Deadline' /\ CutIsCounted'
  BY DEF SenderInv, Play, Deadline, CutIsCounted
<1>2. InNumber'
  BY DEF SenderInv, Play, InNumber, Medias
<1>3. HeardIsSeq' /\ NumberedAsAnnounced'
  BY DEF SenderInv, Play, HeardIsSeq, NumberedAsAnnounced
<1> QED
  BY <1>1, <1>2, <1>3 DEF SenderInv

\* A new unit has a new deadline and nothing sent.
LEMMA StartUnitStep == ASSUME SenderInv, NEW d, StartUnit(d) PROVE SenderInv'
<1>1. media' \in {"next", "failed"} /\ media = "idle"
  BY DEF StartUnit
<1>2. Deadline' /\ CutIsCounted'
  BY <1>1, SenderBounds DEF SenderInv, StartUnit, Deadline, CutIsCounted
<1>3. InNumber'
  BY <1>1 DEF SenderInv, StartUnit, InNumber, Medias
<1>4. HeardIsSeq' /\ NumberedAsAnnounced'
  BY NothingHeard DEF StartUnit
<1> QED
  BY <1>2, <1>3, <1>4 DEF SenderInv

\* The next packet takes the next number.
LEMMA NextPacketStep == ASSUME SenderInv, NextPacket PROVE SenderInv'
<1>1. /\ media = "next" /\ media' = "sending" /\ packet'.seq = seq
      /\ seq' = (seq + 1) % SeqRange
      /\ UNCHANGED <<budget, spent, counted, heard, expected, cut>>
  BY DEF NextPacket
<1>2. Deadline' /\ CutIsCounted'
  BY <1>1 DEF SenderInv, Deadline, CutIsCounted
<1>3. InNumber'
  BY <1>1, NextNumber DEF SenderInv, InNumber, Medias
<1>4. HeardIsSeq' /\ NumberedAsAnnounced'
  BY <1>1, HeardKept DEF SenderInv
<1> QED
  BY <1>2, <1>3, <1>4 DEF SenderInv

\* A packet is with the client whole: it is the next in number.
LEMMA DeliveredNumbers ==
  ASSUME SenderInv, media = "sending", Delivered
  PROVE  HeardIsSeq' /\ NumberedAsAnnounced'
<1> PICK S : heard \in Seq(S)
  BY DEF SenderInv, HeardIsSeq
<1> DEFINE T == S \cup {packet}
           n == Len(heard)
<1>1. heard \in Seq(T) /\ packet \in T
  BY SeqMonotonic
<1> HIDE DEF T
<1>2. heard' = Append(heard, packet) /\ expected' = (expected + 1) % SeqRange
  BY DEF Delivered
<1>3. /\ heard' \in Seq(T) /\ Len(heard') = n + 1
      /\ \A i \in 1 .. n : heard'[i] = heard[i]
      /\ heard'[n + 1] = packet
  BY <1>1, <1>2, AppendProperties
<1>4. n \in Nat /\ DOMAIN heard = 1 .. n /\ DOMAIN heard' = 1 .. n + 1
  BY <1>1, <1>3, LenProperties
<1>5. expected \in Nat /\ expected \in 0 .. SeqRange - 1 /\ SeqRange \in Nat \ {0}
  BY SenderBounds DEF SenderInv, InNumber, Seqs
<1>6. ASSUME NEW i \in 1 .. n
      PROVE  heard'[i].seq = (expected' + i - 1 - Len(heard')) % SeqRange
  <2>1. heard[i].seq = (expected + i - 1 - n) % SeqRange
    BY <1>4 DEF SenderInv, NumberedAsAnnounced
  <2>2. (((expected + 1) % SeqRange) + (i - 1 - (n + 1))) % SeqRange
          = (expected + 1 + (i - 1 - (n + 1))) % SeqRange
    <3>1. expected + 1 \in Int /\ i - 1 - (n + 1) \in Int
      BY <1>4, <1>5
    <3> QED
      BY <1>5, <3>1, RemainderOfSum, Zenon
  <2>3. expected + 1 + (i - 1 - (n + 1)) = expected + i - 1 - n
    BY <1>4, <1>5
  <2>4. expected' \in Int
    BY <1>2, <1>5
  <2>5. expected' + i - 1 - Len(heard') = ((expected + 1) % SeqRange) + (i - 1 - (n + 1))
    BY <1>2, <1>3, <1>4, <2>4
  <2> QED
    BY <1>3, <2>1, <2>2, <2>3, <2>5
<1>7. heard'[n + 1].seq = (expected' + (n + 1) - 1 - Len(heard')) % SeqRange
  <2>1. packet.seq = expected
    BY DEF SenderInv, InNumber
  <2>2. (((expected + 1) % SeqRange) + (-1)) % SeqRange = (expected + 1 + (-1)) % SeqRange
    <3>1. expected + 1 \in Int /\ -1 \in Int
      BY <1>5
    <3> QED
      BY <1>5, <3>1, RemainderOfSum, Zenon
  <2>3. (expected + 1 + (-1)) % SeqRange = expected
    BY <1>5, SmallRemainder
  <2>4. expected' \in Int
    BY <1>2, <1>5
  <2>5. expected' + (n + 1) - 1 - Len(heard') = ((expected + 1) % SeqRange) + (-1)
    BY <1>2, <1>3, <1>4, <2>4
  <2> QED
    BY <1>3, <2>1, <2>2, <2>3, <2>5
<1>8. \A i \in DOMAIN heard' : heard'[i].seq = (expected' + i - 1 - Len(heard')) % SeqRange
  <2> SUFFICES ASSUME NEW i \in 1 .. n + 1
               PROVE  heard'[i].seq = (expected' + i - 1 - Len(heard')) % SeqRange
    BY <1>4
  <2>1. CASE i \in 1 .. n
    BY <1>6, <2>1
  <2>2. CASE i = n + 1
    BY <1>7, <2>2
  <2> QED
    BY <1>4, <2>1, <2>2
<1> QED
  BY <1>3, <1>8 DEF HeardIsSeq, NumberedAsAnnounced

\* The socket takes part of a packet, or the rest of it.
LEMMA SendStep ==
  ASSUME SenderInv, NEW n, Send(n)
  PROVE  SenderInv'
<1>1. media = "sending" /\ UNCHANGED <<seq, budget, spent, counted, cut>>
  BY DEF Send
<1>2. CASE n = pending
  <2>1. Delivered
    BY <1>2 DEF Send
  <2>2. media' \in {"next", "sent"} /\ expected' = (expected + 1) % SeqRange
    BY <2>1 DEF Delivered
  <2>3. Deadline' /\ CutIsCounted'
    BY <1>1, <2>2 DEF SenderInv, Deadline, CutIsCounted
  <2>4. InNumber'
    BY <1>1, <2>2 DEF SenderInv, InNumber, Medias
  <2> QED
    BY <1>1, <2>1, <2>3, <2>4, DeliveredNumbers DEF SenderInv
<1>3. CASE n # pending
  <2>1. UNCHANGED <<packet, heard, expected, media>>
    BY <1>3 DEF Send
  <2>2. Deadline' /\ CutIsCounted'
    BY <1>1, <2>1 DEF SenderInv, Deadline, CutIsCounted
  <2>3. InNumber'
    BY <1>1, <2>1 DEF SenderInv, InNumber
  <2>4. HeardIsSeq' /\ NumberedAsAnnounced'
    BY <2>1, HeardKept DEF SenderInv
  <2> QED
    BY <2>2, <2>3, <2>4 DEF SenderInv
<1> QED
  BY <1>2, <1>3

\* Waiting takes from the deadline what it adds to the time waited.
LEMMA WaitStep == ASSUME SenderInv, SendWaits PROVE SenderInv'
<1>1. Deadline'
  BY SenderBounds DEF SenderInv, SendWaits, Deadline
<1>2. CutIsCounted' /\ InNumber'
  BY DEF SenderInv, SendWaits, CutIsCounted, InNumber
<1>3. HeardIsSeq' /\ NumberedAsAnnounced'
  BY HeardKept DEF SenderInv, SendWaits
<1> QED
  BY <1>1, <1>2, <1>3 DEF SenderInv

\* A unit comes to its end, or fails, and what comes of it.
LEMMA UnitEnds ==
  ASSUME SenderInv, SendFails \/ UnitSent \/ EncoderFails \/ Disconnect \/ Recover
  PROVE  SenderInv'
<1>1. CASE SendFails
  <2>1. Deadline' /\ CutIsCounted'
    BY <1>1 DEF SenderInv, SendFails, Deadline, CutIsCounted
  <2>2. InNumber'
    BY <1>1 DEF SenderInv, SendFails, InNumber, Medias
  <2>3. HeardIsSeq' /\ NumberedAsAnnounced'
    BY <1>1, HeardKept DEF SenderInv, SendFails
  <2> QED
    BY <2>1, <2>2, <2>3 DEF SenderInv
<1>2. CASE UnitSent \/ Recover
  <2>1. /\ media' \in {"idle", "failed"} /\ heard' = <<>> /\ budget' = 0 /\ spent' = 0
        /\ UNCHANGED <<seq, expected, counted, cut>>
        /\ media = "sent" \/ (media = "failed" /\ ~counted /\ media' = "idle")
    BY <1>2 DEF UnitSent, Recover, Forgotten
  <2>2. Deadline' /\ CutIsCounted'
    BY <2>1, SenderBounds DEF SenderInv, Deadline, CutIsCounted
  <2>3. InNumber'
    BY <2>1 DEF SenderInv, InNumber, Medias
  <2>4. HeardIsSeq' /\ NumberedAsAnnounced'
    BY <2>1, NothingHeard
  <2> QED
    BY <2>2, <2>3, <2>4 DEF SenderInv
<1>3. CASE EncoderFails
  <2>1. Deadline' /\ CutIsCounted'
    BY <1>3 DEF SenderInv, EncoderFails, Deadline, CutIsCounted
  <2>2. InNumber'
    BY <1>3 DEF SenderInv, EncoderFails, InNumber, Medias
  <2>3. HeardIsSeq' /\ NumberedAsAnnounced'
    BY <1>3, HeardKept DEF SenderInv, EncoderFails
  <2> QED
    BY <2>1, <2>2, <2>3 DEF SenderInv
<1>4. CASE Disconnect
  <2>1. Deadline' /\ CutIsCounted'
    BY <1>4 DEF SenderInv, Disconnect, Deadline, CutIsCounted
  <2>2. InNumber'
    BY <1>4 DEF SenderInv, Disconnect, InNumber, Medias
  <2>3. HeardIsSeq' /\ NumberedAsAnnounced'
    BY <1>4, HeardKept DEF SenderInv, Disconnect
  <2> QED
    BY <2>1, <2>2, <2>3 DEF SenderInv
<1> QED
  BY <1>1, <1>2, <1>3, <1>4

\* The session ends with a request, its answer sent or cut.
LEMMA AnswerFailsStep == ASSUME SenderInv, AnswerFails PROVE SenderInv'
<1>1. Deadline' /\ CutIsCounted'
  BY DEF SenderInv, AnswerFails, Deadline, CutIsCounted
<1>2. InNumber'
  BY DEF SenderInv, AnswerFails, InNumber, Medias
<1>3. HeardIsSeq' /\ NumberedAsAnnounced'
  BY HeardKept DEF SenderInv, AnswerFails
<1> QED
  BY <1>1, <1>2, <1>3 DEF SenderInv

\* Nothing is sent.
LEMMA SenderRests == ASSUME SenderInv, UNCHANGED senderVars PROVE SenderInv'
<1>1. Deadline' /\ CutIsCounted' /\ InNumber'
  BY DEF SenderInv, senderVars, Deadline, CutIsCounted, InNumber
<1>2. HeardIsSeq' /\ NumberedAsAnnounced'
  BY HeardKept DEF SenderInv, senderVars
<1> QED
  BY <1>1, <1>2 DEF SenderInv

\* Every step of the connection keeps the invariant.
LEMMA SenderStep == SenderInv /\ [Next]_vars => SenderInv'
<1> SUFFICES ASSUME SenderInv, [Next]_vars PROVE SenderInv'
  OBVIOUS
<1>1. CASE Listen
  BY <1>1, SenderRests DEF Listen
<1>2. CASE Answer
  BY <1>2, PlayStep, SenderRests DEF Answer
<1>3. CASE AnswerFails
  BY <1>3, AnswerFailsStep
<1>4. CASE Media
  <2>1. CASE \E d \in Gets(client) : StartUnit(d)
    BY <2>1, StartUnitStep
  <2>2. CASE MediaNext
    BY <2>2, NextPacketStep, SendStep, WaitStep, UnitEnds DEF MediaNext
  <2> QED
    BY <1>4, <2>1, <2>2 DEF Media
<1>5. CASE UNCHANGED vars
  BY <1>5, SenderRests DEF vars
<1> QED
  BY <1>1, <1>2, <1>3, <1>4, <1>5 DEF Next

\* The invariant of the sender (send_h264_access_unit to send_all, with what
\* handle_client makes of a failure).
THEOREM SenderInvariant == Spec => []SenderInv
<1>1. Init => SenderInv
  BY SenderInitInv DEF Init
<1> QED
  BY <1>1, SenderStep, PTL DEF Spec

\* rtsp_server.cpp:1130: an access unit has one deadline, whatever its size.
THEOREM UnitHasOneDeadline == Spec => []OneDeadline
<1>1. SenderInv => OneDeadline
  BY SenderBounds DEF SenderInv, Deadline, OneDeadline
<1> QED
  BY <1>1, SenderInvariant, PTL

\* Nothing follows a message that the client has in part.
THEOREM NothingAfterACut == Spec => []CutIsLast
<1>1. SenderInv => CutIsLast
  BY DEF SenderInv, CutIsCounted, CutIsLast
<1> QED
  BY <1>1, SenderInvariant, PTL

\* The packets are numbered without a gap from the number announced by PLAY, across
\* the end of the range.
THEOREM PacketsInNumber == Spec => []NumberedAsAnnounced
<1>1. SenderInv => NumberedAsAnnounced
  BY DEF SenderInv
<1> QED
  BY <1>1, SenderInvariant, PTL

-----------------------------------------------------------------------------
(* Induction over numbers, from the least one for which a claim fails.     *)

\* A set of naturals has a least element.
LEMMA Least ==
  ASSUME NEW T, T \subseteq Nat, T # {}
  PROVE  \E m \in T : \A k \in T : m <= k
<1> DEFINE R == {ss \in Nat \X Nat : ss[1] < ss[2]}
<1>1. IsWellFoundedOn(R, Nat)
  BY NatLessThanWellFounded DEF OpToRel
<1> HIDE DEF R
<1>2. PICK m \in T : \A k \in T : ~ (<<k, m>> \in R)
  BY <1>1, WFMin
<1>3. ASSUME NEW k \in T, k < m PROVE FALSE
  <2>1. <<k, m>> \in Nat \X Nat /\ <<k, m>>[1] < <<k, m>>[2]
    BY <1>3
  <2>2. <<k, m>> \in R
    BY <2>1 DEF R
  <2> QED
    BY <1>2, <2>2
<1>4. m \in Nat /\ \A k \in T : k \in Nat
  OBVIOUS
<1> QED
  BY <1>3, <1>4

\* Induction from the top of an interval down, every greater number at hand.
LEMMA Downward ==
  ASSUME NEW n \in Nat, NEW T,
         \A i \in 1 .. n : (\A k \in i + 1 .. n : k \in T) => i \in T
  PROVE  1 .. n \subseteq T
<1> SUFFICES ASSUME NEW x \in 1 .. n, x \notin T PROVE FALSE
  OBVIOUS
<1> DEFINE U == {u \in 0 .. n : n - u \in 1 .. n /\ n - u \notin T}
<1>1. n - x \in U /\ U \subseteq Nat
  OBVIOUS
<1>2. PICK m \in U : \A k \in U : m <= k
  BY <1>1, Least
<1>3. \A k \in n - m + 1 .. n : k \in T
  <2> SUFFICES ASSUME NEW k \in n - m + 1 .. n, k \notin T PROVE FALSE
    OBVIOUS
  <2>1. n - k \in U /\ n - k < m
    BY <1>2
  <2> QED
    BY <1>2, <2>1
<1> QED
  BY <1>2, <1>3

\* Induction upward, one step at a time.
LEMMA Upward ==
  ASSUME NEW n \in Nat, NEW T, 0 \in T, \A k \in 1 .. n : k - 1 \in T => k \in T
  PROVE  0 .. n \subseteq T
<1> SUFFICES ASSUME NEW x \in 0 .. n, x \notin T PROVE FALSE
  OBVIOUS
<1> DEFINE U == {u \in 0 .. n : u \notin T}
<1>1. PICK m \in U : \A k \in U : m <= k
  <2>1. U \subseteq Nat /\ x \in U
    OBVIOUS
  <2> QED
    BY <2>1, Least
<1> QED
  BY <1>1

-----------------------------------------------------------------------------
(* Ranks: what the n-th of the NAL units of Annex B rests on.              *)

\* The rank of a member is between one and the number of members.
LEMMA RankRange ==
  ASSUME NEW S, IsFiniteSet(S), S \subseteq Int, NEW i \in S
  PROVE  Rank(S, i) \in 1 .. Cardinality(S)
<1> DEFINE B == {j \in S : j <= i}
<1>1. B \in SUBSET S /\ i \in B
  OBVIOUS
<1> HIDE DEF B
<1>2. IsFiniteSet(B) /\ Cardinality(B) <= Cardinality(S)
  BY <1>1, FS_Subset
<1>3. Cardinality(B) \in Nat /\ Cardinality(B) # 0 /\ Cardinality(S) \in Nat
  BY <1>1, <1>2, FS_CardinalityType, FS_EmptySet
<1> QED
  BY <1>2, <1>3 DEF Rank, B

\* The greater member has the greater rank.
LEMMA RankGrows ==
  ASSUME NEW S, IsFiniteSet(S), S \subseteq Int, NEW i \in S, NEW k \in S, i < k
  PROVE  Rank(S, i) < Rank(S, k)
<1> DEFINE A == {j \in S : j <= i}
           B == {j \in S : j <= k}
<1>1. A \in SUBSET B /\ B \in SUBSET S /\ k \in B /\ k \notin A
  <2>1. i \in Int /\ k \in Int /\ \A j \in S : j \in Int
    OBVIOUS
  <2>2. k \in B /\ k \notin A
    BY <2>1
  <2>3. A \in SUBSET B
    <3>1. \A j \in A : j \in B
      BY <2>1
    <3> QED
      BY <3>1
  <2>4. B \in SUBSET S
    OBVIOUS
  <2> QED
    BY <2>2, <2>3, <2>4
<1> HIDE DEF A, B
<1>2. IsFiniteSet(B)
  BY <1>1, FS_Subset
<1>3. IsFiniteSet(A) /\ Cardinality(A) <= Cardinality(B) /\ Cardinality(A) # Cardinality(B)
  BY <1>1, <1>2, FS_Subset
<1>4. Cardinality(A) \in Nat /\ Cardinality(B) \in Nat
  BY <1>2, <1>3, FS_CardinalityType
<1> QED
  BY <1>3, <1>4 DEF Rank, A, B

\* Every number up to that of the members is the rank of exactly one.
LEMMA RankOnto ==
  ASSUME NEW S, IsFiniteSet(S), S \subseteq Int, NEW n \in 1 .. Cardinality(S)
  PROVE  \E i \in S : Rank(S, i) = n /\ \A k \in S : Rank(S, k) = n => k = i
<1> DEFINE C == 1 .. Cardinality(S)
           f == [i \in S |-> Rank(S, i)]
<1>1. f \in [S -> C]
  BY RankRange
<1>2. ASSUME NEW i \in S, NEW k \in S, f[i] = f[k] PROVE i = k
  <2>1. Rank(S, i) = Rank(S, k)
    BY <1>2
  <2>2. Rank(S, i) \in Int /\ Rank(S, k) \in Int
    <3>1. Rank(S, i) \in 1 .. Cardinality(S) /\ Rank(S, k) \in 1 .. Cardinality(S)
      BY RankRange
    <3> QED
      BY <3>1
  <2>3. i < k => Rank(S, i) < Rank(S, k)
    BY RankGrows
  <2>4. k < i => Rank(S, k) < Rank(S, i)
    BY RankGrows
  <2>5. ~ (i < k) /\ ~ (k < i)
    BY <2>1, <2>2, <2>3, <2>4
  <2> QED
    BY <2>5
<1>3. Cardinality(S) \in Nat
  BY FS_CardinalityType
<1>4. IsFiniteSet(C) /\ Cardinality(C) = Cardinality(S)
  BY <1>3, FS_Interval
<1> HIDE DEF C
<1>5. f \in Injection(S, C)
  BY <1>1, <1>2 DEF Injection, IsInjective
<1> HIDE DEF f
<1>6. f \in Surjection(S, C)
  BY <1>4, <1>5, FS_Injection
<1>7. PICK i \in S : f[i] = n
  BY <1>6 DEF Surjection, C
<1>8. \A k \in S : f[k] = n => k = i
  BY <1>2, <1>7
<1> QED
  BY <1>7, <1>8 DEF f

-----------------------------------------------------------------------------
(* Scans and evaluations, which are defined by recursive functions.        *)

\* A scan: up to a stop, something is found at each place, and the scan goes on elsewhere.
HasScan(n, Stop, part, next) ==
  \E f : f = [i \in 1 .. n |-> IF i \in Stop THEN <<>> ELSE part[i] \o f[next[i]]]

\* A scan that always goes on behind where it is has a result.
LEMMA ScanDefined ==
  ASSUME NEW n \in Nat, NEW Stop, NEW part, NEW next,
         \A i \in 1 .. n : i \notin Stop => next[i] \in i + 1 .. n
  PROVE  HasScan(n, Stop, part, next)
<1> DEFINE Result(g, i) == g[i] = IF i \in Stop THEN <<>> ELSE part[i] \o g[next[i]]
           T == {i \in 1 .. n : \E g : \A k \in i .. n : Result(g, k)}
<1>1. ASSUME NEW i \in 1 .. n, \A k \in i + 1 .. n : k \in T
      PROVE  i \in T
  <2>1. PICK g : \A k \in i + 1 .. n : Result(g, k)
    <3>1. CASE i = n
      <4>1. i + 1 .. n = {}
        BY <3>1
      <4> QED
        BY <4>1, Zenon
    <3>2. CASE i # n
      <4>1. i + 1 \in i + 1 .. n
        BY <3>2
      <4> QED
        BY <1>1, <4>1, Zenon
    <3> QED
      BY <3>1, <3>2
  <2> DEFINE value == IF i \in Stop THEN <<>> ELSE part[i] \o g[next[i]]
             h == [k \in 1 .. n |-> IF k = i THEN value ELSE g[k]]
  <2>2. \A k \in i .. n : k \in 1 .. n
    OBVIOUS
  <2> HIDE DEF value
  <2>3. h[i] = value /\ \A k \in i + 1 .. n : h[k] = g[k]
    OBVIOUS
  <2> HIDE DEF h
  <2>4. ASSUME NEW k \in i .. n PROVE Result(h, k)
    <3>1. ASSUME k \notin Stop PROVE h[next[k]] = g[next[k]]
      <4>1. next[k] \in k + 1 .. n
        BY <2>2, <3>1, Zenon
      <4>2. next[k] \in i + 1 .. n
        BY <4>1
      <4> QED
        BY <2>3, <4>2
    <3>2. CASE k = i
      BY <2>3, <3>1, <3>2, Zenon DEF value
    <3>3. CASE k # i
      <4>1. k \in i + 1 .. n
        BY <3>3
      <4> QED
        BY <2>1, <2>3, <3>1, <4>1, Zenon
    <3> QED
      BY <3>2, <3>3
  <2> QED
    BY <2>4
<1> HIDE DEF T
<1>2. 1 .. n \subseteq T
  BY <1>1, Downward
<1>3. PICK g : \A k \in 1 .. n : Result(g, k)
  <2>1. CASE n = 0
    BY <2>1
  <2>2. CASE n # 0
    <3>1. 1 \in 1 .. n
      BY <2>2
    <3> QED
      BY <1>2, <3>1, Zenon DEF T
  <2> QED
    BY <2>1, <2>2
<1> DEFINE f == [i \in 1 .. n |-> g[i]]
<1>4. ASSUME NEW i \in 1 .. n
      PROVE  f[i] = IF i \in Stop THEN <<>> ELSE part[i] \o f[next[i]]
  <2>1. i \notin Stop => next[i] \in 1 .. n
    OBVIOUS
  <2>2. i \notin Stop => f[next[i]] = g[next[i]]
    BY <2>1
  <2> QED
    BY <1>3, <2>2, Zenon
<1>5. f = [i \in 1 .. n |-> IF i \in Stop THEN <<>> ELSE part[i] \o f[next[i]]]
  BY <1>4, Zenon
<1> QED
  BY <1>5 DEF HasScan

\* An evaluation packet by packet has a result.
LEMMA LoopDefined ==
  ASSUME NEW n \in Nat, NEW ps
  PROVE  \E f : f = [i \in 0 .. n |-> IF i = 0 THEN <<>> ELSE Rebuilt(f[i - 1], ps[i])]
<1> DEFINE Result(g, i) == g[i] = IF i = 0 THEN <<>> ELSE Rebuilt(g[i - 1], ps[i])
           T == {i \in 0 .. n : \E g : \A k \in 0 .. i : Result(g, k)}
<1>1. 0 \in T
  <2> DEFINE g == [k \in 0 .. 0 |-> <<>>]
  <2>1. \A k \in 0 .. 0 : Result(g, k)
    OBVIOUS
  <2>2. 0 \in 0 .. n
    OBVIOUS
  <2> HIDE DEF g
  <2> QED
    BY <2>1, <2>2, Zenon
<1>2. ASSUME NEW i \in 1 .. n, i - 1 \in T PROVE i \in T
  <2>1. PICK g : \A k \in 0 .. i - 1 : Result(g, k)
    BY <1>2
  <2> DEFINE h == [k \in 0 .. i |-> IF k = i THEN Rebuilt(g[i - 1], ps[i]) ELSE g[k]]
  <2>2. h[i] = Rebuilt(g[i - 1], ps[i]) /\ \A k \in 0 .. i - 1 : h[k] = g[k]
    OBVIOUS
  <2> HIDE DEF h
  <2>3. ASSUME NEW k \in 0 .. i PROVE Result(h, k)
    <3>1. CASE k = i
      <4>1. h[k - 1] = g[k - 1] /\ k # 0
        BY <2>2, <3>1
      <4> QED
        BY <2>2, <3>1, <4>1, Zenon
    <3>2. CASE k # i
      <4>1. k \in 0 .. i - 1 /\ (k # 0 => k - 1 \in 0 .. i - 1)
        BY <3>2
      <4> QED
        BY <2>1, <2>2, <4>1, Zenon
    <3> QED
      BY <3>1, <3>2
  <2> QED
    BY <2>3
<1> HIDE DEF T
<1>3. 0 .. n \subseteq T
  BY <1>1, <1>2, Upward
<1>4. PICK g : \A k \in 0 .. n : Result(g, k)
  BY <1>3 DEF T
<1> DEFINE f == [i \in 0 .. n |-> g[i]]
<1>5. ASSUME NEW i \in 0 .. n
      PROVE  f[i] = IF i = 0 THEN <<>> ELSE Rebuilt(f[i - 1], ps[i])
  <2>1. i # 0 => i - 1 \in 0 .. n
    OBVIOUS
  <2>2. i # 0 => f[i - 1] = g[i - 1]
    BY <2>1
  <2> QED
    BY <1>4, <2>2, Zenon
<1>6. f = [i \in 0 .. n |-> IF i = 0 THEN <<>> ELSE Rebuilt(f[i - 1], ps[i])]
  BY <1>5, Zenon
<1> QED
  BY <1>6

\* The scan that Nals computes follows its own equation, provided it goes on.
LEMMA NalsEquation ==
  ASSUME NEW d, Len(d) \in Nat,
         \A i \in 1 .. Len(d) + 1 :
           NextCode(d, i) > Len(d) \/ NextNal(d, NextCode(d, i)) \in i + 1 .. Len(d) + 1
  PROVE  \E f : /\ Nals(d) = f[1]
                /\ \A i \in 1 .. Len(d) + 1 :
                     f[i] = IF NextCode(d, i) > Len(d) THEN <<>>
                            ELSE (IF NalUnit(d, NextCode(d, i)) = <<>> THEN <<>>
                                  ELSE <<NalUnit(d, NextCode(d, i))>>) \o f[NextNal(d, NextCode(d, i))]
<1> DEFINE n == Len(d) + 1
           Rest(i) == IF NalUnit(d, NextCode(d, i)) = <<>> THEN <<>> ELSE <<NalUnit(d, NextCode(d, i))>>
           Defines(g) == g = [i \in 1 .. n |-> IF NextCode(d, i) > Len(d) THEN <<>>
                                               ELSE Rest(i) \o g[NextNal(d, NextCode(d, i))]]
           Stop == {i \in 1 .. n : NextCode(d, i) > Len(d)}
           part == [i \in 1 .. n |-> Rest(i)]
           next == [i \in 1 .. n |-> NextNal(d, NextCode(d, i))]
<1>1. n \in Nat
  OBVIOUS
<1>2. \A i \in 1 .. n : i \notin Stop => next[i] \in i + 1 .. n
  OBVIOUS
<1>3. HasScan(n, Stop, part, next)
  <2> HIDE DEF n, Stop, part, next
  <2> QED
    BY <1>1, <1>2, ScanDefined
<1>4. PICK f : f = [i \in 1 .. n |-> IF i \in Stop THEN <<>> ELSE part[i] \o f[next[i]]]
  BY <1>3, Zenon DEF HasScan
<1>5. Defines(f)
  <2> HIDE DEF n, Rest
  <2> QED
    BY <1>4, Zenon
<1>6. \A g : Defines(g) => \A i \in 1 .. n : g[i] = IF NextCode(d, i) > Len(d) THEN <<>>
                                                    ELSE Rest(i) \o g[NextNal(d, NextCode(d, i))]
  <2> HIDE DEF n, Rest
  <2> QED
    BY Zenon
<1>7. Nals(d) = (CHOOSE g : Defines(g))[1]
  BY Zenon DEF Nals
<1>8. Defines(CHOOSE g : Defines(g))
  <2> HIDE DEF Defines
  <2> QED
    BY <1>5, Zenon
<1> QED
  BY <1>6, <1>8, <1>7, Zenon

\* The receiver's result follows its own equation.
LEMMA DepacketizedEquation ==
  ASSUME NEW ps, Len(ps) \in Nat
  PROVE  \E f : /\ Depacketized(ps) = f[Len(ps)]
                /\ \A i \in 0 .. Len(ps) : f[i] = IF i = 0 THEN <<>> ELSE Rebuilt(f[i - 1], ps[i])
<1> DEFINE n == Len(ps)
           Defines(g) == g = [i \in 0 .. n |-> IF i = 0 THEN <<>> ELSE Rebuilt(g[i - 1], ps[i])]
<1>1. \E f : Defines(f)
  BY LoopDefined, Zenon
<1>2. \A g : Defines(g) => \A i \in 0 .. n : g[i] = IF i = 0 THEN <<>> ELSE Rebuilt(g[i - 1], ps[i])
  <2> HIDE DEF n
  <2> QED
    BY Zenon
<1>3. Depacketized(ps) = (CHOOSE g : Defines(g))[n]
  BY Zenon DEF Depacketized
<1>4. Defines(CHOOSE g : Defines(g))
  <2> HIDE DEF Defines
  <2> QED
    BY <1>1, Zenon
<1> QED
  BY <1>2, <1>3, <1>4, Zenon

\* Nothing heard, nothing received.
LEMMA DepacketizedEmpty == Depacketized(<<>>) = <<>>
<1> DEFINE e == <<>>
<1>1. Len(e) = 0 /\ Len(e) \in Nat /\ 0 \in 0 .. Len(e)
  BY EmptySeq
<1> HIDE DEF e
<1>2. PICK f : /\ Depacketized(e) = f[Len(e)]
               /\ \A i \in 0 .. Len(e) : f[i] = IF i = 0 THEN <<>> ELSE Rebuilt(f[i - 1], e[i])
  BY <1>1, DepacketizedEquation, Zenon
<1>3. f[0] = <<>>
  BY <1>1, <1>2, Zenon
<1> QED
  BY <1>1, <1>2, <1>3, Zenon DEF e

\* One packet more is one step of the receiver more.
LEMMA DepacketizedAppend ==
  ASSUME NEW S, NEW ps \in Seq(S), NEW p \in S
  PROVE  Depacketized(Append(ps, p)) = Rebuilt(Depacketized(ps), p)
<1> DEFINE n == Len(ps)
           qs == Append(ps, p)
<1>1. n \in Nat /\ Len(qs) = n + 1 /\ qs[n + 1] = p /\ \A i \in 1 .. n : qs[i] = ps[i]
  BY LenProperties, AppendProperties
<1> HIDE DEF qs
<1>2. PICK f : /\ Depacketized(ps) = f[n]
               /\ \A i \in 0 .. n : f[i] = IF i = 0 THEN <<>> ELSE Rebuilt(f[i - 1], ps[i])
  BY <1>1, DepacketizedEquation, Zenon
<1>3. PICK g : /\ Depacketized(qs) = g[Len(qs)]
               /\ \A i \in 0 .. Len(qs) : g[i] = IF i = 0 THEN <<>> ELSE Rebuilt(g[i - 1], qs[i])
  <2>1. Len(qs) \in Nat
    BY <1>1
  <2> QED
    BY <2>1, DepacketizedEquation, Zenon
<1> DEFINE T == {i \in 0 .. n : f[i] = g[i]}
<1>4. 0 \in T
  <2>1. 0 \in 0 .. n /\ 0 \in 0 .. Len(qs)
    BY <1>1
  <2> QED
    BY <1>2, <1>3, <2>1, Zenon
<1>5. ASSUME NEW i \in 1 .. n, i - 1 \in T PROVE i \in T
  <2>1. i \in 0 .. n /\ i \in 0 .. Len(qs) /\ i # 0
    BY <1>1
  <2>2. f[i] = Rebuilt(f[i - 1], ps[i]) /\ g[i] = Rebuilt(g[i - 1], qs[i])
    BY <1>2, <1>3, <2>1, Zenon
  <2>3. f[i - 1] = g[i - 1] /\ ps[i] = qs[i]
    BY <1>1, <1>5, Zenon
  <2> QED
    BY <2>1, <2>2, <2>3, Zenon
<1> HIDE DEF T
<1>6. 0 .. n \subseteq T
  BY <1>1, <1>4, <1>5, Upward
<1>7. f[n] = g[n]
  <2>1. n \in 0 .. n
    BY <1>1
  <2> QED
    BY <1>6, <2>1, Zenon DEF T
<1> DEFINE m == n + 1
<1>8. m \in 0 .. Len(qs) /\ m # 0 /\ m - 1 = n /\ qs[m] = p /\ Len(qs) = m
  BY <1>1
<1> HIDE DEF m
<1>9. g[m] = Rebuilt(g[m - 1], qs[m])
  BY <1>3, <1>8, Zenon
<1>10. g[m] = Rebuilt(f[n], p)
  BY <1>7, <1>8, <1>9, Zenon
<1> QED
  BY <1>2, <1>3, <1>8, <1>10, Zenon DEF qs

-----------------------------------------------------------------------------
(* Start codes.                                                            *)

Bytes == 0 .. 255

\* The bytes of an access unit by their places.
Zeros(d, i, k) == \A j \in i .. k : d[j] = 0
Three(d, i) == i \in 1 .. Len(d) - 2 /\ d[i] = 0 /\ d[i + 1] = 0 /\ d[i + 2] = 1
Four(d, i) == i \in 1 .. Len(d) - 3 /\ d[i] = 0 /\ Three(d, i + 1)

\* Three bytes at a place.
LEMMA ThreeBytes ==
  ASSUME NEW d \in Seq(Bytes), NEW i \in 1 .. Len(d) - 2
  PROVE  SubSeq(d, i, i + 2) = <<0, 0, 1>> <=> Three(d, i)
<1>1. Len(d) \in Nat /\ \A j \in i .. i + 2 : d[j] \in Bytes
  BY LenProperties, ElementOfSeq
<1>2. /\ SubSeq(d, i, i + 2) \in Seq(Bytes) /\ Len(SubSeq(d, i, i + 2)) = 3
      /\ \A j \in 1 .. 3 : SubSeq(d, i, i + 2)[j] = d[i + j - 1]
  <2>1. i \in Int /\ i + 2 \in Int /\ i + 2 - i + 1 = 3 /\ i <= i + 2
    BY <1>1
  <2> QED
    BY <1>1, <2>1, SubSeqProperties
<1> DEFINE s == SubSeq(d, i, i + 2)
<1>3. s[1] = d[i] /\ s[2] = d[i + 1] /\ s[3] = d[i + 2]
  <2>1. i + 1 - 1 = i /\ i + 2 - 1 = i + 1 /\ i + 3 - 1 = i + 2
    BY <1>1
  <2>2. 1 \in 1 .. 3 /\ 2 \in 1 .. 3 /\ 3 \in 1 .. 3
    OBVIOUS
  <2>3. s[1] = d[i + 1 - 1] /\ s[2] = d[i + 2 - 1] /\ s[3] = d[i + 3 - 1]
    BY <1>2, <2>2, Zenon
  <2> QED
    BY <2>1, <2>3, Zenon
<1> HIDE DEF s
<1>4. s = <<0, 0, 1>> <=> s[1] = 0 /\ s[2] = 0 /\ s[3] = 1
  <2>1. s \in Seq(Bytes) /\ Len(s) = 3
    BY <1>2 DEF s
  <2> QED
    BY <2>1
<1> QED
  BY <1>3, <1>4 DEF Three, s

\* Four bytes at a place.
LEMMA FourBytes ==
  ASSUME NEW d \in Seq(Bytes), NEW i \in 1 .. Len(d) - 3
  PROVE  SubSeq(d, i, i + 3) = <<0, 0, 0, 1>> <=> Four(d, i)
<1>1. Len(d) \in Nat /\ \A j \in i .. i + 3 : d[j] \in Bytes
  BY LenProperties, ElementOfSeq
<1>2. /\ SubSeq(d, i, i + 3) \in Seq(Bytes) /\ Len(SubSeq(d, i, i + 3)) = 4
      /\ \A j \in 1 .. 4 : SubSeq(d, i, i + 3)[j] = d[i + j - 1]
  <2>1. i \in Int /\ i + 3 \in Int /\ i + 3 - i + 1 = 4 /\ i <= i + 3
    BY <1>1
  <2> QED
    BY <1>1, <2>1, SubSeqProperties
<1> DEFINE s == SubSeq(d, i, i + 3)
<1>3. s[1] = d[i] /\ s[2] = d[i + 1] /\ s[3] = d[i + 2] /\ s[4] = d[i + 3]
  <2>1. i + 1 - 1 = i /\ i + 2 - 1 = i + 1 /\ i + 3 - 1 = i + 2 /\ i + 4 - 1 = i + 3
    BY <1>1
  <2>2. 1 \in 1 .. 4 /\ 2 \in 1 .. 4 /\ 3 \in 1 .. 4 /\ 4 \in 1 .. 4
    OBVIOUS
  <2>3. s[1] = d[i + 1 - 1] /\ s[2] = d[i + 2 - 1] /\ s[3] = d[i + 3 - 1] /\ s[4] = d[i + 4 - 1]
    BY <1>2, <2>2, Zenon
  <2> QED
    BY <2>1, <2>3, Zenon
<1> HIDE DEF s
<1>4. s = <<0, 0, 0, 1>> <=> s[1] = 0 /\ s[2] = 0 /\ s[3] = 0 /\ s[4] = 1
  <2>1. s \in Seq(Bytes) /\ Len(s) = 4
    BY <1>2 DEF s
  <2> QED
    BY <2>1
<1>5. Four(d, i) <=> d[i] = 0 /\ d[i + 1] = 0 /\ d[i + 2] = 0 /\ d[i + 3] = 1
  BY <1>1 DEF Four, Three
<1> QED
  BY <1>3, <1>4, <1>5 DEF s

\* start_code_size tells the long start code from the short one and from none.
LEMMA StartCodeSize ==
  ASSUME NEW d \in Seq(Bytes), NEW i \in 1 .. Len(d) + 1
  PROVE  StartCode(d, i) = IF Four(d, i) THEN 4 ELSE IF Three(d, i) THEN 3 ELSE 0
<1>1. Len(d) \in Nat
  BY LenProperties
<1>2. (i + 3 <= Len(d) /\ SubSeq(d, i, i + 3) = <<0, 0, 0, 1>>) <=> Four(d, i)
  <2>1. i + 3 <= Len(d) <=> i \in 1 .. Len(d) - 3
    BY <1>1
  <2>2. i \in 1 .. Len(d) - 3 => (SubSeq(d, i, i + 3) = <<0, 0, 0, 1>> <=> Four(d, i))
    BY FourBytes
  <2>3. Four(d, i) => i \in 1 .. Len(d) - 3
    BY DEF Four
  <2> QED
    BY <2>1, <2>2, <2>3, Zenon
<1>3. (i + 2 <= Len(d) /\ SubSeq(d, i, i + 2) = <<0, 0, 1>>) <=> Three(d, i)
  <2>1. i + 2 <= Len(d) <=> i \in 1 .. Len(d) - 2
    BY <1>1
  <2>2. i \in 1 .. Len(d) - 2 => (SubSeq(d, i, i + 2) = <<0, 0, 1>> <=> Three(d, i))
    BY ThreeBytes
  <2>3. Three(d, i) => i \in 1 .. Len(d) - 2
    BY DEF Three
  <2> QED
    BY <2>1, <2>2, <2>3, Zenon
<1> QED
  BY <1>2, <1>3, Zenon DEF StartCode

\* What a scan for the next start code finds.
LEMMA NextCodeFound ==
  ASSUME NEW d \in Seq(Bytes), NEW i \in 1 .. Len(d) + 1
  PROVE  /\ NextCode(d, i) \in i .. Len(d) + 1
         /\ NextCode(d, i) = Len(d) + 1 \/ StartCode(d, NextCode(d, i)) > 0
         /\ \A k \in i .. NextCode(d, i) - 1 : StartCode(d, k) = 0
<1> DEFINE n == Len(d)
           U == {j \in i .. n + 1 : j = n + 1 \/ StartCode(d, j) > 0}
           Found(j) == (j = n + 1 \/ StartCode(d, j) > 0) /\ \A k \in i .. j - 1 : StartCode(d, k) = 0
<1>1. n \in Nat
  BY LenProperties
<1>2. PICK m \in U : \A k \in U : m <= k
  <2>1. U \subseteq Nat /\ n + 1 \in U
    BY <1>1
  <2> HIDE DEF U
  <2> QED
    BY <2>1, Least
<1>3. \A k \in i .. m - 1 : StartCode(d, k) = 0
  <2> SUFFICES ASSUME NEW k \in i .. m - 1 PROVE StartCode(d, k) = 0
    OBVIOUS
  <2>1. k \notin U /\ k \in i .. n + 1
    BY <1>1, <1>2
  <2>2. StartCode(d, k) \in {0, 3, 4}
    BY <2>1, StartCodeSize
  <2> QED
    BY <2>1, <2>2
<1>4. m \in i .. n + 1 /\ Found(m)
  BY <1>2, <1>3
<1>5. NextCode(d, i) = CHOOSE j \in i .. n + 1 : Found(j)
  BY Zenon DEF NextCode
<1> HIDE DEF Found
<1>6. NextCode(d, i) \in i .. n + 1 /\ Found(NextCode(d, i))
  BY <1>4, <1>5, Zenon
<1> QED
  BY <1>6 DEF Found

\* Trimming stops at the first place from which on there are only zeros.
LEMMA TrimmedFound ==
  ASSUME NEW d, NEW first \in Nat \ {0}, NEW end \in Nat, first <= end
  PROVE  /\ Trimmed(d, first, end) \in first .. end
         /\ Trimmed(d, first, end) = first \/ d[Trimmed(d, first, end) - 1] # 0
         /\ Zeros(d, Trimmed(d, first, end), end - 1)
<1> DEFINE U == {e \in first .. end : Zeros(d, e, end - 1)}
           Found(e) == (e = first \/ d[e - 1] # 0) /\ \A k \in e .. end - 1 : d[k] = 0
<1>1. PICK m \in U : \A k \in U : m <= k
  <2>1. U \subseteq Nat /\ end \in U
    BY DEF Zeros
  <2> HIDE DEF U
  <2> QED
    BY <2>1, Least
<1>2. m = first \/ d[m - 1] # 0
  <2> SUFFICES ASSUME m # first, d[m - 1] = 0 PROVE FALSE
    OBVIOUS
  <2>1. m \in first .. end /\ Zeros(d, m, end - 1)
    BY <1>1
  <2>2. m - 1 \in first .. end /\ \A k \in m - 1 .. end - 1 : k = m - 1 \/ k \in m .. end - 1
    BY <2>1
  <2>3. Zeros(d, m - 1, end - 1)
    BY <2>1, <2>2 DEF Zeros
  <2>4. m - 1 \in U
    BY <2>2, <2>3
  <2> QED
    BY <1>1, <2>1, <2>4
<1>3. m \in first .. end /\ Found(m)
  BY <1>1, <1>2 DEF Zeros
<1>4. Trimmed(d, first, end) = CHOOSE e \in first .. end : Found(e)
  BY Zenon DEF Trimmed
<1> HIDE DEF Found
<1>5. Trimmed(d, first, end) \in first .. end /\ Found(Trimmed(d, first, end))
  BY <1>3, <1>4, Zenon
<1> QED
  BY <1>5 DEF Found, Zeros

\* The start codes of three bytes.
LEMMA CodesAre == ASSUME NEW d \in Seq(Bytes) PROVE \A i : i \in Codes(d) <=> Three(d, i)
  BY ThreeBytes DEF Codes, Three

\* The next start code after one of them, or the end.
LEMMA CodeAfterFound ==
  ASSUME NEW d \in Seq(Bytes), NEW i \in Codes(d)
  PROVE  /\ CodeAfter(d, i) \in Codes(d) \cup {Len(d) + 1}
         /\ CodeAfter(d, i) > i
         /\ \A k \in Codes(d) : k > i => CodeAfter(d, i) <= k
<1> DEFINE n == Len(d)
           U == {j \in Codes(d) \cup {n + 1} : j > i}
           Found(j) == j > i /\ \A k \in Codes(d) : k > i => j <= k
<1>1. n \in Nat /\ Codes(d) \subseteq 1 .. n - 2
  BY LenProperties DEF Codes
<1>2. PICK m \in U : \A k \in U : m <= k
  <2>1. U \subseteq Nat /\ n + 1 \in U
    BY <1>1
  <2> HIDE DEF U
  <2> QED
    BY <2>1, Least
<1>3. m \in Codes(d) \cup {n + 1} /\ Found(m)
  BY <1>2
<1>4. CodeAfter(d, i) = CHOOSE j \in Codes(d) \cup {n + 1} : Found(j)
  BY Zenon DEF CodeAfter
<1> HIDE DEF Found
<1>5. CodeAfter(d, i) \in Codes(d) \cup {n + 1} /\ Found(CodeAfter(d, i))
  BY <1>3, <1>4, Zenon
<1> QED
  BY <1>5 DEF Found

-----------------------------------------------------------------------------
(* The scan of send_h264_access_unit, and Annex B.                         *)

\* The NAL unit behind a start code of three bytes, as AnnexB has it.
NalBehind(d, b) == SubSeq(d, b + 3, b + 2 + Cardinality(Content(d, b)))

\* A size of zero is no start code.
LEMMA NoCode ==
  ASSUME NEW d \in Seq(Bytes), NEW k \in 1 .. Len(d) + 1, StartCode(d, k) = 0
  PROVE  k \notin Codes(d)
  BY StartCodeSize, CodesAre

\* The scan finds the next start code, and takes both lengths of it for what they are.
LEMMA CodeFound ==
  ASSUME NEW d \in Seq(Bytes), NEW i \in 1 .. Len(d) + 1, NextCode(d, i) <= Len(d)
  PROVE  \E b \in Codes(d) :
           /\ i <= b /\ NalStart(d, NextCode(d, i)) = b + 3
           /\ \A k \in Codes(d) : k >= i => k >= b
<1> DEFINE n == Len(d)
           c == NextCode(d, i)
           b == IF Four(d, c) THEN c + 1 ELSE c
<1>1. n \in Nat /\ Codes(d) \subseteq 1 .. n - 2
  BY LenProperties DEF Codes
<1>2. c \in i .. n /\ StartCode(d, c) > 0 /\ \A k \in i .. c - 1 : StartCode(d, k) = 0
  BY <1>1, NextCodeFound
<1> HIDE DEF c
<1>3. StartCode(d, c) = IF Four(d, c) THEN 4 ELSE IF Three(d, c) THEN 3 ELSE 0
  BY <1>1, <1>2, StartCodeSize
<1>4. Four(d, c) \/ Three(d, c)
  BY <1>2, <1>3
<1>5. \A k \in Codes(d) : k >= i => k >= c
  <2> SUFFICES ASSUME NEW k \in Codes(d), k >= i, ~ (k >= c) PROVE FALSE
    OBVIOUS
  <2>1. k \in i .. c - 1 /\ k \in 1 .. n + 1
    BY <1>1, <1>2
  <2> QED
    BY <1>2, <2>1, NoCode
<1>6. CASE Four(d, c)
  <2>1. Three(d, c + 1) /\ ~ Three(d, c)
    BY <1>1, <1>6 DEF Four, Three
  <2>2. c + 1 \in Codes(d) /\ c \notin Codes(d)
    BY <2>1, CodesAre
  <2>3. \A k \in Codes(d) : k >= i => k >= c + 1
    BY <1>1, <1>2, <1>5, <2>2
  <2>4. NalStart(d, c) = c + 1 + 3 /\ i <= c + 1
    BY <1>1, <1>2, <1>3, <1>6 DEF NalStart
  <2> QED
    BY <2>2, <2>3, <2>4 DEF c
<1>7. CASE ~ Four(d, c)
  <2>1. c \in Codes(d) /\ NalStart(d, c) = c + 3 /\ i <= c
    BY <1>2, <1>3, <1>4, <1>7, CodesAre DEF NalStart
  <2> QED
    BY <1>5, <2>1 DEF c
<1> QED
  BY <1>6, <1>7

\* Where the scan goes on there is no start code of three bytes in between, and the next
\* one is there, or one byte on, behind a zero.
LEMMA CodeFollows ==
  ASSUME NEW d \in Seq(Bytes), NEW b \in Codes(d)
  PROVE  /\ b + 3 \in 1 .. Len(d) + 1
         /\ NextCode(d, b + 3) \in b + 3 .. Len(d) + 1
         /\ \A k \in Codes(d) : k > b => k >= NextCode(d, b + 3)
         /\ \/ CodeAfter(d, b) = NextCode(d, b + 3)
            \/ CodeAfter(d, b) = NextCode(d, b + 3) + 1 /\ d[NextCode(d, b + 3)] = 0
<1> DEFINE n == Len(d)
           end == NextCode(d, b + 3)
           a == CodeAfter(d, b)
<1>1. n \in Nat /\ Codes(d) \subseteq 1 .. n - 2 /\ b + 3 \in 1 .. n + 1
  BY LenProperties DEF Codes
<1>2. /\ end \in b + 3 .. n + 1 /\ (end = n + 1 \/ StartCode(d, end) > 0)
      /\ \A k \in b + 3 .. end - 1 : StartCode(d, k) = 0
  BY <1>1, NextCodeFound
<1>3. a \in Codes(d) \cup {n + 1} /\ a > b /\ \A k \in Codes(d) : k > b => a <= k
  BY CodeAfterFound
<1> HIDE DEF end, a
<1>4. \A k \in Codes(d) : k > b => k >= end
  <2> SUFFICES ASSUME NEW k \in Codes(d), k > b, k < end PROVE FALSE
    BY <1>1, <1>2
  <2>1. Three(d, k) /\ Three(d, b)
    BY CodesAre
  <2>2. k # b + 1 /\ k # b + 2
    BY <1>1, <2>1 DEF Three
  <2>3. k \in b + 3 .. end - 1 /\ k \in 1 .. n + 1
    BY <1>1, <1>2, <2>2
  <2> QED
    BY <1>2, <2>3, NoCode
<1>5. a = end \/ (a = end + 1 /\ d[end] = 0)
  <2>1. CASE end = n + 1
    BY <1>1, <1>3, <1>4, <2>1
  <2>2. CASE end # n + 1
    <3>1. end \in 1 .. n /\ StartCode(d, end) > 0
      BY <1>1, <1>2, <2>2
    <3>2. Four(d, end) \/ Three(d, end)
      BY <1>1, <3>1, StartCodeSize
    <3>3. CASE Three(d, end)
      <4>1. end \in Codes(d) /\ end > b
        BY <1>1, <1>2, <3>3, CodesAre
      <4> QED
        BY <1>1, <1>3, <1>4, <4>1
    <3>4. CASE Four(d, end)
      <4>1. Three(d, end + 1) /\ ~ Three(d, end) /\ d[end] = 0
        BY <1>1, <3>4 DEF Four, Three
      <4>2. end + 1 \in Codes(d) /\ end \notin Codes(d) /\ end + 1 > b
        BY <1>1, <1>2, <4>1, CodesAre
      <4> QED
        BY <1>1, <1>2, <1>3, <1>4, <2>2, <4>1, <4>2
    <3> QED
      BY <3>2, <3>3, <3>4
  <2> QED
    BY <2>1, <2>2
<1> QED
  BY <1>1, <1>2, <1>4, <1>5 DEF end, a

\* What is between is the same for the scan and for AnnexB.
LEMMA SameContent ==
  ASSUME NEW d \in Seq(Bytes), NEW b \in Codes(d)
  PROVE  Content(d, b) = b + 3 .. Trimmed(d, b + 3, NextCode(d, b + 3)) - 1
<1> DEFINE end == NextCode(d, b + 3)
           a == CodeAfter(d, b)
           t == Trimmed(d, b + 3, end)
<1>1. b \in Nat /\ end \in Nat /\ b + 3 <= end /\ a \in Nat
  <2>1. Len(d) \in Nat /\ Codes(d) \subseteq Nat
    BY LenProperties DEF Codes
  <2>2. a \in Codes(d) \cup {Len(d) + 1}
    BY CodeAfterFound
  <2>3. end \in b + 3 .. Len(d) + 1
    BY CodeFollows
  <2> HIDE DEF a, end
  <2> QED
    BY <2>1, <2>2, <2>3
<1>2. a = end \/ (a = end + 1 /\ d[end] = 0)
  BY CodeFollows
<1> HIDE DEF end, a
<1>3. t \in b + 3 .. end /\ (t = b + 3 \/ d[t - 1] # 0) /\ Zeros(d, t, end - 1)
  <2>1. b + 3 \in Nat \ {0}
    BY <1>1
  <2> QED
    BY <1>1, <2>1, TrimmedFound
<1> HIDE DEF t
<1>4. ASSUME NEW k \in b + 3 .. a - 1, NEW l \in k .. a - 1, d[l] # 0
      PROVE  k \in b + 3 .. t - 1
  <2>1. l \notin t .. end - 1 /\ ~ (a = end + 1 /\ l = end)
    BY <1>2, <1>4, <1>3 DEF Zeros
  <2> QED
    BY <1>1, <1>2, <1>3, <2>1
<1>5. ASSUME NEW k \in b + 3 .. t - 1
      PROVE  k \in b + 3 .. a - 1 /\ t - 1 \in k .. a - 1 /\ d[t - 1] # 0
  BY <1>1, <1>2, <1>3
<1>6. Content(d, b) = b + 3 .. t - 1
  <2>1. Content(d, b) = {k \in b + 3 .. a - 1 : \E l \in k .. a - 1 : d[l] # 0}
    BY Zenon DEF Content, a
  <2>2. \A k : k \in Content(d, b) => k \in b + 3 .. t - 1
    BY <1>4, <2>1, Zenon
  <2>3. \A k : k \in b + 3 .. t - 1 => k \in Content(d, b)
    BY <1>5, <2>1, Zenon
  <2> QED
    BY <2>2, <2>3, Zenon
<1> QED
  BY <1>6 DEF t, end

\* One round of the scan: it finds the next NAL unit of AnnexB, or an empty one, and goes
\* on before any other start code.
LEMMA OneNal ==
  ASSUME NEW d \in Seq(Bytes), NEW i \in 1 .. Len(d) + 1, NextCode(d, i) <= Len(d)
  PROVE  \E b \in Codes(d) :
           /\ i <= b /\ NextNal(d, NextCode(d, i)) \in b + 1 .. Len(d) + 1
           /\ \A k \in Codes(d) : k >= i => k = b \/ k >= NextNal(d, NextCode(d, i))
           /\ NalUnit(d, NextCode(d, i)) = NalBehind(d, b)
           /\ NalBehind(d, b) \in Seq(Bytes)
           /\ NalBehind(d, b) = <<>> <=> Content(d, b) = {}
<1>1. PICK b \in Codes(d) : /\ i <= b /\ NalStart(d, NextCode(d, i)) = b + 3
                            /\ \A k \in Codes(d) : k >= i => k >= b
  BY CodeFound
<1> DEFINE end == NextCode(d, b + 3)
           t == Trimmed(d, b + 3, end)
<1>2. NextNal(d, NextCode(d, i)) = end
  BY <1>1 DEF NextNal
<1>3. NalUnit(d, NextCode(d, i)) = SubSeq(d, b + 3, t - 1)
  BY <1>1, <1>2 DEF NalUnit
<1>4. end \in b + 3 .. Len(d) + 1 /\ \A k \in Codes(d) : k > b => k >= end
  BY CodeFollows
<1>5. Len(d) \in Nat /\ Codes(d) \subseteq Nat \ {0}
  BY LenProperties DEF Codes
<1>6. Content(d, b) = b + 3 .. t - 1
  BY SameContent
<1> HIDE DEF end
<1>7. t \in b + 3 .. end
  <2>1. b + 3 \in Nat \ {0} /\ end \in Nat /\ b + 3 <= end
    BY <1>4, <1>5
  <2> QED
    BY <2>1, TrimmedFound
<1> HIDE DEF t
<1>8. Cardinality(Content(d, b)) = t - (b + 3)
  <2>1. b + 3 \in Int /\ t - 1 \in Int /\ t \in Int /\ b + 3 <= t
    BY <1>4, <1>5, <1>7
  <2>2. Cardinality(b + 3 .. t - 1) = IF b + 3 > t - 1 THEN 0 ELSE t - 1 - (b + 3) + 1
    BY <2>1, FS_Interval
  <2> QED
    BY <1>6, <2>1, <2>2
<1>9. NalBehind(d, b) = SubSeq(d, b + 3, t - 1)
  <2>1. b + 2 + (t - (b + 3)) = t - 1
    BY <1>4, <1>5, <1>7
  <2> QED
    BY <1>8, <2>1 DEF NalBehind
<1>10. /\ SubSeq(d, b + 3, t - 1) \in Seq(Bytes)
       /\ Len(SubSeq(d, b + 3, t - 1)) = t - (b + 3)
  <2>1. b + 3 \in Int /\ t - 1 \in Int /\ \A j \in b + 3 .. t - 1 : j \in 1 .. Len(d)
    BY <1>4, <1>5, <1>7
  <2>2. \A j \in b + 3 .. t - 1 : d[j] \in Bytes
    BY <2>1, ElementOfSeq
  <2>3. /\ SubSeq(d, b + 3, t - 1) \in Seq(Bytes)
        /\ Len(SubSeq(d, b + 3, t - 1)) = IF b + 3 <= t - 1 THEN t - 1 - (b + 3) + 1 ELSE 0
    BY <2>1, <2>2, SubSeqProperties
  <2> QED
    BY <1>4, <1>5, <1>7, <2>3
<1>11. NalBehind(d, b) = <<>> <=> Content(d, b) = {}
  <2>1. Content(d, b) = {} <=> t = b + 3
    <3>1. b \in Int /\ t \in Int /\ b + 3 <= t
      BY <1>4, <1>5, <1>7
    <3>2. b + 3 .. t - 1 = {} <=> t = b + 3
      <4>1. t = b + 3 => b + 3 .. t - 1 = {}
        BY <3>1
      <4>2. t # b + 3 => b + 3 \in b + 3 .. t - 1
        BY <3>1
      <4> QED
        BY <4>1, <4>2
    <3> QED
      BY <1>6, <3>2, Zenon
  <2>2. SubSeq(d, b + 3, t - 1) = <<>> <=> t - (b + 3) = 0
    BY <1>10, EmptySeq
  <2> QED
    BY <1>4, <1>5, <1>7, <1>9, <2>1, <2>2
<1>12. /\ end \in b + 1 .. Len(d) + 1
       /\ \A k \in Codes(d) : k >= i => k = b \/ k >= end
  BY <1>1, <1>4, <1>5
<1> QED
  BY <1>1, <1>2, <1>3, <1>9, <1>10, <1>11, <1>12

\* A least member ahead of a set moves every rank by one.
LEMMA RankBehind ==
  ASSUME NEW R, IsFiniteSet(R), R \subseteq Int, NEW b \in Int, \A r \in R : b < r
  PROVE  /\ IsFiniteSet(R \cup {b}) /\ Cardinality(R \cup {b}) = Cardinality(R) + 1
         /\ Rank(R \cup {b}, b) = 1
         /\ \A r \in R : Rank(R \cup {b}, r) = Rank(R, r) + 1
<1> DEFINE S == R \cup {b}
<1>1. b \notin R
  OBVIOUS
<1>2. IsFiniteSet(S) /\ Cardinality(S) = Cardinality(R) + 1
  BY <1>1, FS_AddElement
<1>3. Rank(S, b) = 1
  <2>1. {j \in S : j <= b} = {b}
    <3>1. \A j \in S : j <= b <=> j = b
      OBVIOUS
    <3> QED
      BY <3>1
  <2> HIDE DEF S
  <2> QED
    BY <2>1, FS_Singleton DEF Rank
<1>4. ASSUME NEW r \in R PROVE Rank(S, r) = Rank(R, r) + 1
  <2> DEFINE A == {j \in R : j <= r}
  <2>1. {j \in S : j <= r} = A \cup {b}
    <3>1. b <= r
      OBVIOUS
    <3> QED
      BY <3>1
  <2>2. IsFiniteSet(A) /\ b \notin A
    <3>1. A \in SUBSET R
      OBVIOUS
    <3> HIDE DEF A
    <3>2. IsFiniteSet(A)
      BY <3>1, FS_Subset
    <3> QED
      BY <1>1, <3>1, <3>2
  <2> HIDE DEF A, S
  <2>3. Cardinality(A \cup {b}) = Cardinality(A) + 1
    BY <2>2, FS_AddElement
  <2> QED
    BY <2>1, <2>3 DEF Rank, A
<1> QED
  BY <1>2, <1>3, <1>4

\* The start codes that begin a NAL unit, from a place on.
BodiesFrom(d, i) == {b \in Bodies(d) : b >= i}

\* They are finitely many.
LEMMA BodiesFinite ==
  ASSUME NEW d \in Seq(Bytes), NEW i
  PROVE  IsFiniteSet(BodiesFrom(d, i)) /\ BodiesFrom(d, i) \subseteq Int
<1>1. Len(d) \in Nat /\ BodiesFrom(d, i) \in SUBSET (1 .. Len(d))
  <2>1. Len(d) \in Nat
    BY LenProperties
  <2>2. BodiesFrom(d, i) \subseteq Codes(d)
    BY DEF BodiesFrom, Bodies
  <2>3. Codes(d) \subseteq 1 .. Len(d)
    BY <2>1 DEF Codes
  <2> QED
    BY <2>1, <2>2, <2>3
<1>2. IsFiniteSet(1 .. Len(d)) /\ 1 .. Len(d) \subseteq Int
  BY <1>1, FS_Interval
<1> QED
  BY <1>1, <1>2, FS_Subset

\* The NAL units in s are those behind the start codes in S, in their order.
InOrder(d, s, S) ==
  /\ s \in Seq(Seq(Bytes)) /\ Len(s) = Cardinality(S)
  /\ \A b \in S : s[Rank(S, b)] = NalBehind(d, b)

\* One more at the front.
LEMMA InOrderFront ==
  ASSUME NEW d, NEW R, IsFiniteSet(R), R \subseteq Int, NEW b \in Int, \A r \in R : b < r,
         NEW s, InOrder(d, s, R), NalBehind(d, b) \in Seq(Bytes)
  PROVE  InOrder(d, <<NalBehind(d, b)>> \o s, R \cup {b})
<1> DEFINE u == NalBehind(d, b)
           t == <<u>> \o s
           S == R \cup {b}
<1>1. /\ s \in Seq(Seq(Bytes)) /\ <<u>> \in Seq(Seq(Bytes)) /\ Len(<<u>>) = 1
      /\ <<u>>[1] = u /\ Len(s) = Cardinality(R) /\ Len(s) \in Nat
  BY LenProperties DEF InOrder
<1> HIDE DEF u
<1>2. /\ t \in Seq(Seq(Bytes)) /\ Len(t) = 1 + Len(s)
      /\ \A k \in 1 .. 1 + Len(s) : t[k] = IF k <= 1 THEN u ELSE s[k - 1]
  <2>1. /\ t \in Seq(Seq(Bytes)) /\ Len(t) = Len(<<u>>) + Len(s)
        /\ \A k \in 1 .. Len(<<u>>) + Len(s) :
             t[k] = IF k <= Len(<<u>>) THEN <<u>>[k] ELSE s[k - Len(<<u>>)]
    BY <1>1, ConcatProperties, Zenon
  <2>2. \A k \in 1 .. 1 + Len(s) : t[k] = IF k <= 1 THEN <<u>>[k] ELSE s[k - 1]
    BY <1>1, <2>1, Zenon
  <2>3. \A k \in 1 .. 1 + Len(s) : k <= 1 => k = 1
    BY <1>1
  <2> QED
    BY <1>1, <2>1, <2>2, <2>3, Zenon
<1> HIDE DEF t, S
<1>3. /\ Cardinality(S) = Cardinality(R) + 1 /\ Rank(S, b) = 1
      /\ \A r \in R : Rank(S, r) = Rank(R, r) + 1
  BY RankBehind DEF S
<1>4. t[1] = u
  BY <1>1, <1>2
<1>5. ASSUME NEW r \in R PROVE t[Rank(S, r)] = NalBehind(d, r)
  <2> DEFINE k == Rank(R, r)
  <2>1. k \in 1 .. Len(s)
    BY <1>1, RankRange
  <2>2. s[k] = NalBehind(d, r)
    BY DEF InOrder
  <2> HIDE DEF k
  <2> DEFINE m == k + 1
  <2>3. m \in 1 .. 1 + Len(s) /\ ~ (m <= 1) /\ m - 1 = k
    BY <1>1, <2>1
  <2> HIDE DEF m
  <2>4. t[m] = s[m - 1]
    BY <1>2, <2>3, Zenon
  <2>5. Rank(S, r) = k + 1
    BY <1>3 DEF k
  <2> QED
    BY <2>2, <2>3, <2>4, <2>5, Zenon DEF m
<1>6. \A r \in S : t[Rank(S, r)] = NalBehind(d, r)
  BY <1>3, <1>4, <1>5 DEF S, u
<1>7. Len(t) = Cardinality(S)
  BY <1>1, <1>2, <1>3
<1> QED
  BY <1>2, <1>6, <1>7 DEF InOrder, t, S, u

\* The scan from a place on has the NAL units from there on.
LEMMA NalsInOrder == ASSUME NEW d \in Seq(Bytes) PROVE InOrder(d, Nals(d), Bodies(d))
<1> DEFINE n == Len(d) + 1
           code(i) == NextCode(d, i)
           next(i) == NextNal(d, code(i))
           first(i) == NalUnit(d, code(i))
<1>1. Len(d) \in Nat /\ n \in Nat
  BY LenProperties
<1>2. \A i \in 1 .. n : code(i) > Len(d) \/ next(i) \in i + 1 .. n
  <2> SUFFICES ASSUME NEW i \in 1 .. n, ~ (code(i) > Len(d)) PROVE next(i) \in i + 1 .. n
    OBVIOUS
  <2>1. code(i) <= Len(d)
    <3>1. code(i) \in i .. n
      BY NextCodeFound
    <3> QED
      BY <1>1, <3>1
  <2>2. PICK b \in Codes(d) : i <= b /\ next(i) \in b + 1 .. n
    BY <2>1, OneNal
  <2>3. b \in Nat
    BY <1>1 DEF Codes
  <2> QED
    BY <1>1, <2>2, <2>3
<1>3. PICK f : /\ Nals(d) = f[1]
               /\ \A i \in 1 .. n : f[i] = IF code(i) > Len(d) THEN <<>>
                                           ELSE (IF first(i) = <<>> THEN <<>> ELSE <<first(i)>>) \o f[next(i)]
  BY <1>1, <1>2, NalsEquation, Zenon
<1> DEFINE T == {i \in 1 .. n : InOrder(d, f[i], BodiesFrom(d, i))}
<1>4. ASSUME NEW i \in 1 .. n, \A k \in i + 1 .. n : k \in T
      PROVE  InOrder(d, f[i], BodiesFrom(d, i))
  <2>1. CASE code(i) > Len(d)
    <3>1. BodiesFrom(d, i) = {}
      <4> SUFFICES ASSUME NEW k \in Codes(d), k >= i PROVE FALSE
        BY DEF BodiesFrom, Bodies
      <4>1. k \in 1 .. Len(d)
        BY <1>1 DEF Codes
      <4>2. k \in i .. code(i) - 1 /\ k \in 1 .. n
        <5>1. code(i) \in i .. n
          BY NextCodeFound
        <5> QED
          BY <1>1, <2>1, <4>1, <5>1
      <4>3. StartCode(d, k) = 0
        BY <4>2, NextCodeFound
      <4> QED
        BY <4>2, <4>3, NoCode
    <3>2. f[i] = <<>>
      BY <1>3, <2>1, Zenon
    <3>3. <<>> \in Seq(Seq(Bytes)) /\ Len(<<>>) = 0 /\ Cardinality({}) = 0
      BY EmptySeq, FS_EmptySet
    <3> QED
      BY <3>1, <3>2, <3>3 DEF InOrder
  <2>2. CASE ~ (code(i) > Len(d))
    <3>1. code(i) <= Len(d)
      <4>1. code(i) \in i .. n
        BY NextCodeFound
      <4> QED
        BY <1>1, <2>2, <4>1
    <3>2. PICK b \in Codes(d) :
            /\ i <= b /\ next(i) \in b + 1 .. n
            /\ \A k \in Codes(d) : k >= i => k = b \/ k >= next(i)
            /\ first(i) = NalBehind(d, b) /\ NalBehind(d, b) \in Seq(Bytes)
            /\ NalBehind(d, b) = <<>> <=> Content(d, b) = {}
      BY <3>1, OneNal, Zenon
    <3>3. b \in Nat /\ Codes(d) \subseteq Nat
      BY <1>1 DEF Codes
    <3>4. next(i) \in i + 1 .. n /\ next(i) \in Int /\ next(i) > b
      BY <1>1, <3>2, <3>3
    <3>5. InOrder(d, f[next(i)], BodiesFrom(d, next(i)))
      BY <1>4, <3>4
    <3>6. f[i] = (IF first(i) = <<>> THEN <<>> ELSE <<first(i)>>) \o f[next(i)]
      BY <1>3, <2>2, Zenon
    <3>7. f[next(i)] \in Seq(Seq(Bytes))
      BY <3>5 DEF InOrder
    <3>8. \A k \in Bodies(d) : k >= i <=> k = b \/ k >= next(i)
      BY <3>2, <3>3, <3>4 DEF Bodies
    <3>9. CASE Content(d, b) = {}
      <4>1. b \notin Bodies(d)
        BY <3>9 DEF Bodies
      <4>2. BodiesFrom(d, i) = BodiesFrom(d, next(i))
        BY <3>8, <4>1, Zenon DEF BodiesFrom
      <4>3. f[i] = <<>> \o f[next(i)]
        BY <3>2, <3>6, <3>9, Zenon
      <4>4. f[i] = f[next(i)]
        BY <3>7, <4>3, ConcatEmptySeq
      <4> QED
        BY <3>5, <4>2, <4>4, Zenon
    <3>10. CASE Content(d, b) # {}
      <4>1. b \in Bodies(d)
        BY <3>10 DEF Bodies
      <4>2. BodiesFrom(d, i) = BodiesFrom(d, next(i)) \cup {b}
        <5>1. \A k : k \in BodiesFrom(d, i) <=> k \in BodiesFrom(d, next(i)) \/ k = b
          BY <3>8, <4>1, Zenon DEF BodiesFrom
        <5> QED
          BY <5>1
      <4>3. f[i] = <<NalBehind(d, b)>> \o f[next(i)]
        BY <3>2, <3>6, <3>10, Zenon
      <4>4. \A r \in BodiesFrom(d, next(i)) : b < r
        <5>1. \A r \in BodiesFrom(d, next(i)) : r >= next(i) /\ r \in Int
          BY BodiesFinite DEF BodiesFrom
        <5> QED
          BY <3>3, <3>4, <5>1
      <4>5. InOrder(d, <<NalBehind(d, b)>> \o f[next(i)], BodiesFrom(d, next(i)) \cup {b})
        <5>1. IsFiniteSet(BodiesFrom(d, next(i))) /\ BodiesFrom(d, next(i)) \subseteq Int
          BY BodiesFinite, Zenon
        <5>2. b \in Int
          BY <3>3
        <5> QED
          BY <3>2, <3>5, <4>4, <5>1, <5>2, InOrderFront, Zenon
      <4> QED
        BY <4>2, <4>3, <4>5, Zenon
    <3> QED
      BY <3>9, <3>10
  <2> QED
    BY <2>1, <2>2
<1>5. 1 .. n \subseteq T
  <2>1. \A i \in 1 .. n : (\A k \in i + 1 .. n : k \in T) => i \in T
    BY <1>4
  <2> HIDE DEF T
  <2> QED
    BY <1>1, <2>1, Downward
<1>6. 1 \in T
  BY <1>1, <1>5
<1>7. BodiesFrom(d, 1) = Bodies(d)
  <2>1. \A k \in Bodies(d) : k >= 1
    BY <1>1 DEF Bodies, Codes
  <2> QED
    BY <2>1 DEF BodiesFrom
<1> QED
  BY <1>3, <1>6, <1>7, Zenon

\* AnnexB has the same.
LEMMA AnnexBInOrder ==
  ASSUME NEW d \in Seq(Bytes), NEW s, InOrder(d, s, Bodies(d))
  PROVE  s = AnnexB(d)
<1> DEFINE B == Bodies(d)
           n == Cardinality(B)
           a == AnnexB(d)
           at(k) == CHOOSE i \in B : Rank(B, i) = k
<1>1. IsFiniteSet(B) /\ B \subseteq Int
  <2>1. BodiesFrom(d, 1) = B
    <3>1. \A k \in B : k >= 1
      BY LenProperties DEF Bodies, Codes
    <3> QED
      BY <3>1 DEF BodiesFrom
  <2> QED
    BY <2>1, BodiesFinite
<1>2. n \in Nat
  BY <1>1, FS_CardinalityType
<1>3. a = [k \in 1 .. n |-> NalBehind(d, at(k))]
  BY DEF AnnexB, NalBehind
<1>4. s \in Seq(Seq(Bytes)) /\ Len(s) = n
  BY DEF InOrder
<1>5. s \in [1 .. n -> Seq(Bytes)]
  BY <1>4, LenProperties
<1>6. ASSUME NEW k \in 1 .. n PROVE s[k] = NalBehind(d, at(k))
  <2>1. at(k) \in B /\ Rank(B, at(k)) = k
    <3>1. \E i \in B : Rank(B, i) = k
      BY <1>1, RankOnto
    <3> QED
      BY <3>1, Zenon
  <2> HIDE DEF at
  <2>2. s[Rank(B, at(k))] = NalBehind(d, at(k))
    BY <2>1 DEF InOrder
  <2> QED
    BY <2>1, <2>2
<1> HIDE DEF n, a, B, at
<1> QED
  BY <1>3, <1>5, <1>6 DEF a

\* send_h264_access_unit finds what H.264 says is there: for every byte string, the NAL units
\* it sends are those of the byte stream format, none missing, none cut, in order.
THEOREM ScanIsAnnexB == \A d \in Seq(Bytes) : Nals(d) = AnnexB(d)
  BY NalsInOrder, AnnexBInOrder

\* What there is behind a start code begins right there.
LEMMA FirstByte ==
  ASSUME NEW d \in Seq(Bytes), NEW b \in Bodies(d)
  PROVE  /\ b + 3 \in 1 .. Len(d)
         /\ NalBehind(d, b) \in Seq(Bytes) /\ Len(NalBehind(d, b)) \in Nat \ {0}
         /\ NalBehind(d, b)[1] = d[b + 3]
<1> DEFINE end == NextCode(d, b + 3)
           t == Trimmed(d, b + 3, end)
<1>1. b \in Codes(d) /\ Content(d, b) # {} /\ Content(d, b) = b + 3 .. t - 1
  BY SameContent DEF Bodies
<1>2. Len(d) \in Nat /\ b \in Nat \ {0}
  BY <1>1, LenProperties DEF Codes
<1>3. end \in b + 3 .. Len(d) + 1
  BY <1>1, CodeFollows
<1> HIDE DEF end
<1>4. t \in b + 3 .. end
  <2>1. b + 3 \in Nat \ {0} /\ end \in Nat /\ b + 3 <= end
    BY <1>2, <1>3
  <2> QED
    BY <2>1, TrimmedFound
<1> HIDE DEF t
<1>5. t \in Int /\ b + 3 < t /\ t - 1 <= Len(d)
  <2>1. t \in Int /\ b + 3 <= t /\ t - 1 <= Len(d)
    BY <1>2, <1>3, <1>4
  <2>2. t = b + 3 => b + 3 .. t - 1 = {}
    BY <1>2
  <2> QED
    BY <1>1, <1>2, <2>1, <2>2
<1>6. Cardinality(Content(d, b)) = t - (b + 3)
  <2>1. b + 3 \in Int /\ t - 1 \in Int
    BY <1>2, <1>5
  <2>2. Cardinality(b + 3 .. t - 1) = IF b + 3 > t - 1 THEN 0 ELSE t - 1 - (b + 3) + 1
    BY <2>1, FS_Interval
  <2> QED
    BY <1>1, <1>2, <1>5, <2>2
<1>7. NalBehind(d, b) = SubSeq(d, b + 3, t - 1)
  <2>1. b + 2 + (t - (b + 3)) = t - 1
    BY <1>2, <1>5
  <2> QED
    BY <1>6, <2>1 DEF NalBehind
<1>8. /\ SubSeq(d, b + 3, t - 1) \in Seq(Bytes)
      /\ Len(SubSeq(d, b + 3, t - 1)) \in Nat \ {0}
      /\ SubSeq(d, b + 3, t - 1)[1] = d[b + 3]
  <2>1. b + 3 \in Int /\ t - 1 \in Int /\ \A j \in b + 3 .. t - 1 : j \in 1 .. Len(d)
    BY <1>2, <1>5
  <2>2. \A j \in b + 3 .. t - 1 : d[j] \in Bytes
    BY <2>1, ElementOfSeq
  <2>3. /\ SubSeq(d, b + 3, t - 1) \in Seq(Bytes)
        /\ Len(SubSeq(d, b + 3, t - 1)) = IF b + 3 <= t - 1 THEN t - 1 - (b + 3) + 1 ELSE 0
        /\ \A j \in 1 .. t - 1 - (b + 3) + 1 : SubSeq(d, b + 3, t - 1)[j] = d[b + 3 + j - 1]
    BY <2>1, <2>2, SubSeqProperties
  <2>4. 1 \in 1 .. t - 1 - (b + 3) + 1 /\ b + 3 + 1 - 1 = b + 3
    BY <1>2, <1>5
  <2>5. SubSeq(d, b + 3, t - 1)[1] = d[b + 3 + 1 - 1]
    BY <2>3, <2>4
  <2>6. SubSeq(d, b + 3, t - 1)[1] = d[b + 3]
    BY <2>4, <2>5, Zenon
  <2> QED
    BY <1>2, <1>5, <2>3, <2>6
<1> QED
  BY <1>2, <1>5, <1>7, <1>8

\* A start code before a byte that is not zero begins a NAL unit.
LEMMA ByteBehindCode ==
  ASSUME NEW d \in Seq(Bytes), NEW b \in Codes(d), b + 3 <= Len(d), d[b + 3] # 0
  PROVE  b \in Bodies(d)
<1> DEFINE end == NextCode(d, b + 3)
           t == Trimmed(d, b + 3, end)
<1>1. Content(d, b) = b + 3 .. t - 1
  BY SameContent
<1>2. Len(d) \in Nat /\ b \in Nat \ {0}
  BY LenProperties DEF Codes
<1>3. end \in b + 3 .. Len(d) + 1
  BY CodeFollows
<1>4. end # b + 3
  <2> SUFFICES ASSUME end = b + 3 PROVE FALSE
    OBVIOUS
  <2>1. b + 3 \in 1 .. Len(d) + 1 /\ b + 3 # Len(d) + 1
    BY <1>2
  <2>2. StartCode(d, b + 3) > 0
    BY <2>1, NextCodeFound
  <2>3. Four(d, b + 3) \/ Three(d, b + 3)
    BY <2>1, <2>2, StartCodeSize
  <2> QED
    BY <2>3 DEF Four, Three
<1> HIDE DEF end
<1>5. t \in b + 3 .. end /\ Zeros(d, t, end - 1)
  <2>1. b + 3 \in Nat \ {0} /\ end \in Nat /\ b + 3 <= end
    BY <1>2, <1>3
  <2> QED
    BY <2>1, TrimmedFound
<1> HIDE DEF t
<1>6. t # b + 3
  <2>1. b + 3 \in b + 3 .. end - 1
    BY <1>2, <1>3, <1>4
  <2> QED
    BY <1>5, <2>1 DEF Zeros
<1>7. b + 3 \in b + 3 .. t - 1
  BY <1>2, <1>3, <1>5, <1>6
<1> QED
  BY <1>1, <1>7 DEF Bodies

\* The NAL units of AnnexB are those behind its start codes, each at its rank.
LEMMA NalAtRank ==
  ASSUME NEW d \in Seq(Bytes)
  PROVE  /\ AnnexB(d) \in Seq(Seq(Bytes)) /\ DOMAIN AnnexB(d) = 1 .. Len(AnnexB(d))
         /\ \A b \in Bodies(d) : Rank(Bodies(d), b) \in DOMAIN AnnexB(d)
                                 /\ AnnexB(d)[Rank(Bodies(d), b)] = NalBehind(d, b)
         /\ \A k \in DOMAIN AnnexB(d) : \E b \in Bodies(d) : AnnexB(d)[k] = NalBehind(d, b)
<1> DEFINE B == Bodies(d)
           s == AnnexB(d)
<1>1. InOrder(d, s, B)
  BY NalsInOrder, ScanIsAnnexB
<1>2. IsFiniteSet(B) /\ B \subseteq Int
  <2>1. BodiesFrom(d, 1) = B
    <3>1. \A k \in B : k >= 1
      BY LenProperties DEF Bodies, Codes
    <3> QED
      BY <3>1 DEF BodiesFrom
  <2> QED
    BY <2>1, BodiesFinite
<1> HIDE DEF B, s
<1>3. s \in Seq(Seq(Bytes)) /\ DOMAIN s = 1 .. Len(s) /\ DOMAIN s = 1 .. Cardinality(B)
  BY <1>1, LenProperties DEF InOrder
<1>4. \A b \in B : Rank(B, b) \in DOMAIN s /\ s[Rank(B, b)] = NalBehind(d, b)
  BY <1>1, <1>2, <1>3, RankRange DEF InOrder
<1>5. \A k \in DOMAIN s : \E b \in B : s[k] = NalBehind(d, b)
  <2> SUFFICES ASSUME NEW k \in 1 .. Cardinality(B) PROVE \E b \in B : s[k] = NalBehind(d, b)
    BY <1>3
  <2>1. \E b \in B : Rank(B, b) = k
    BY <1>2, RankOnto
  <2> QED
    BY <1>4, <2>1
<1> QED
  BY <1>3, <1>4, <1>5 DEF B, s

\* prime_parameter_sets and every client agree about which access units have a NAL unit of a
\* type (of any but zero), although the server looks for it without cutting the unit up.
THEOREM TypeIsThere ==
  \A d \in Seq(Bytes), type \in 1 .. 31 :
    HasNalType(d, type) <=> \E i \in DOMAIN AnnexB(d) : AnnexB(d)[i][1] % 32 = type
<1> SUFFICES ASSUME NEW d \in Seq(Bytes), NEW type \in 1 .. 31
             PROVE  HasNalType(d, type) <=> \E i \in DOMAIN AnnexB(d) : AnnexB(d)[i][1] % 32 = type
  OBVIOUS
<1>1. Len(d) \in Nat
  BY LenProperties
<1>2. ASSUME HasNalType(d, type)
      PROVE  \E i \in DOMAIN AnnexB(d) : AnnexB(d)[i][1] % 32 = type
  <2>1. PICK i \in 1 .. Len(d) : /\ StartCode(d, i) > 0 /\ i + StartCode(d, i) <= Len(d)
                                 /\ d[i + StartCode(d, i)] % 32 = type
    BY <1>2 DEF HasNalType
  <2>2. StartCode(d, i) = IF Four(d, i) THEN 4 ELSE IF Three(d, i) THEN 3 ELSE 0
    BY <1>1, StartCodeSize
  <2>3. PICK b \in Codes(d) : b + 3 = i + StartCode(d, i)
    <3>1. CASE Four(d, i)
      <4>1. i + 1 \in Codes(d) /\ i + 1 + 3 = i + StartCode(d, i)
        BY <2>2, <3>1, CodesAre DEF Four
      <4> QED
        BY <4>1
    <3>2. CASE ~ Four(d, i)
      <4>1. i \in Codes(d) /\ i + 3 = i + StartCode(d, i)
        BY <2>1, <2>2, <3>2, CodesAre
      <4> QED
        BY <4>1
    <3> QED
      BY <3>1, <3>2
  <2>4. b + 3 <= Len(d) /\ d[b + 3] % 32 = type
    BY <2>1, <2>3, Zenon
  <2>5. d[b + 3] # 0
    BY <2>4
  <2>6. b \in Bodies(d)
    BY <2>4, <2>5, ByteBehindCode
  <2>7. /\ Rank(Bodies(d), b) \in DOMAIN AnnexB(d)
        /\ AnnexB(d)[Rank(Bodies(d), b)][1] = d[b + 3]
    BY <2>6, NalAtRank, FirstByte
  <2> QED
    BY <2>4, <2>7
<1>3. ASSUME NEW i \in DOMAIN AnnexB(d), AnnexB(d)[i][1] % 32 = type
      PROVE  HasNalType(d, type)
  <2>1. PICK b \in Bodies(d) : AnnexB(d)[i] = NalBehind(d, b)
    BY NalAtRank
  <2>2. b + 3 \in 1 .. Len(d) /\ d[b + 3] % 32 = type
    BY <1>3, <2>1, FirstByte
  <2>3. b \in 1 .. Len(d) /\ Three(d, b)
    <3>1. b \in Codes(d)
      BY DEF Bodies
    <3> QED
      BY <1>1, <3>1, CodesAre DEF Three
  <2>4. StartCode(d, b) = 3
    <3>1. ~ Four(d, b)
      BY <1>1, <2>3 DEF Three, Four
    <3> QED
      BY <1>1, <2>3, <3>1, StartCodeSize
  <2> QED
    BY <2>2, <2>3, <2>4 DEF HasNalType
<1> QED
  BY <1>2, <1>3

-----------------------------------------------------------------------------
(* Fragments, cut and put together.                                        *)

\* The header byte of a NAL unit, split over the two bytes of a fragment and put together.
LEMMA HeaderSplit ==
  ASSUME NEW h \in Bytes
  PROVE  /\ ((h \div 32) * 32 + 28) % 32 = 28
         /\ (((h \div 32) * 32 + 28) \div 32) * 32 + (h % 32) = h
         /\ (h \div 32) * 32 + 28 \in Bytes /\ h % 32 \in 0 .. 31
<1> DEFINE q == h \div 32
           r == h % 32
<1>1. q \in 0 .. 7 /\ r \in 0 .. 31 /\ h = 32 * q + r
  BY SMT DEF Bytes
<1> HIDE DEF q, r
<1>2. (q * 32 + 28) % 32 = 28 /\ (q * 32 + 28) \div 32 = q /\ q * 32 + 28 \in 0 .. 255
  BY <1>1, SMT
<1> QED
  BY <1>1, <1>2, SMT DEF q, r, Bytes

\* The start and the end bit beside the type.
StartBits == {0, 128}
EndBits == {0, 64}
LEMMA FlagsSplit ==
  ASSUME NEW r \in 0 .. 31, NEW s \in StartBits, NEW e \in EndBits
  PROVE  (r + s + e) % 32 = r /\ r + s + e \in Bytes
  BY SMT DEF Bytes, StartBits, EndBits
LEMMA EndSplit ==
  ASSUME NEW r \in 0 .. 31, NEW s \in StartBits, NEW e \in EndBits
  PROVE  (((r + s + e) \div 64) % 2 = 1) <=> (e = 64)
  BY SMT DEF StartBits, EndBits

\* The parts of a fragment.
LEMMA FragmentParts ==
  ASSUME NEW nal \in Seq(Bytes), ~ IsSingle(nal), NEW at \in 1 .. Len(nal) - 1,
         NEW p, p.payload = Fragment(nal, at)
  PROVE  /\ ChunkSize(nal, at) \in 1 .. Len(nal) - at
         /\ IsFragment(p)
         /\ HasStart(p) <=> at = 1
         /\ HasEnd(p) <=> at + ChunkSize(nal, at) = Len(nal)
         /\ (p.payload[1] \div 32) * 32 + (p.payload[2] % 32) = nal[1]
         /\ SubSeq(p.payload, 3, Len(p.payload)) = SubSeq(nal, at + 1, at + ChunkSize(nal, at))
<1> DEFINE n == Len(nal)
           size == ChunkSize(nal, at)
           h == nal[1]
           s == IF at = 1 THEN 128 ELSE 0
           e == IF at + size = n THEN 64 ELSE 0
           a == (h \div 32) * 32 + 28
           b == (h % 32) + s + e
           data == SubSeq(nal, at + 1, at + size)
           head == <<a, b>>
<1>1. n \in Nat /\ MaxRtpPayload \in Nat /\ MaxRtpPayload > 2
  BY LenProperties, SenderBounds
<1>2. size \in 1 .. n - at
  BY <1>1 DEF ChunkSize
<1>3. h \in Bytes
  <2>1. 1 \in 1 .. n
    BY <1>1
  <2> QED
    BY <2>1, ElementOfSeq
<1>4. p.payload = head \o data
  BY DEF Fragment, FuType
<1> HIDE DEF size, h
<1>5. s \in StartBits /\ e \in EndBits
  BY DEF StartBits, EndBits
<1>6. (s = 128 <=> at = 1) /\ (e = 64 <=> at + size = n)
  OBVIOUS
<1> HIDE DEF s, e
<1>7. a \in Bytes /\ a % 32 = 28 /\ (a \div 32) * 32 + (h % 32) = h /\ h % 32 \in 0 .. 31
  BY <1>3, HeaderSplit
<1>8. b \in Bytes /\ b % 32 = h % 32 /\ (b >= 128 <=> at = 1)
      /\ ((b \div 64) % 2 = 1 <=> at + size = n)
  <2> DEFINE r == h % 32
  <2>1. r \in 0 .. 31
    BY <1>7
  <2> HIDE DEF r
  <2>2. (r + s + e) % 32 = r /\ r + s + e \in Bytes
    BY <1>5, <2>1, FlagsSplit, Zenon
  <2>3. (r + s + e >= 128) <=> (s = 128)
    BY <1>5, <2>1, SMT DEF StartBits, EndBits
  <2>4. (((r + s + e) \div 64) % 2 = 1) <=> (e = 64)
    BY <1>5, <2>1, EndSplit, Zenon
  <2> QED
    BY <1>6, <2>2, <2>3, <2>4, Zenon DEF r
<1> HIDE DEF a, b
<1>9. head \in Seq(Bytes) /\ Len(head) = 2 /\ head[1] = a /\ head[2] = b
  BY <1>7, <1>8
<1>10. data \in Seq(Bytes) /\ Len(data) = size
  <2> DEFINE first == at + 1
             last == at + size
  <2>1. /\ first \in Int /\ last \in Int /\ \A j \in first .. last : j \in 1 .. n
        /\ first <= last /\ last - first + 1 = size
    BY <1>1, <1>2
  <2>2. data = SubSeq(nal, first, last)
    OBVIOUS
  <2> HIDE DEF data, first, last
  <2>3. \A j \in first .. last : nal[j] \in Bytes
    BY <2>1, ElementOfSeq
  <2> QED
    BY <2>1, <2>2, <2>3, SubSeqProperties
<1> HIDE DEF head, data
<1>11. /\ head \o data \in Seq(Bytes) /\ Len(head \o data) = 2 + size
       /\ (head \o data)[1] = a /\ (head \o data)[2] = b
  <2>1. /\ head \o data \in Seq(Bytes) /\ Len(head \o data) = Len(head) + Len(data)
        /\ \A i \in 1 .. Len(head) + Len(data) :
             (head \o data)[i] = IF i <= Len(head) THEN head[i] ELSE data[i - Len(head)]
    BY <1>9, <1>10, ConcatProperties
  <2>2. \A i \in 1 .. 2 + size :
          (head \o data)[i] = IF i <= 2 THEN head[i] ELSE data[i - 2]
    BY <1>9, <1>10, <2>1, Zenon
  <2>3. 1 \in 1 .. 2 + size /\ 2 \in 1 .. 2 + size /\ 1 <= 2 /\ 2 <= 2
    BY <1>1, <1>2
  <2>4. (head \o data)[1] = head[1] /\ (head \o data)[2] = head[2]
    BY <2>2, <2>3, Zenon
  <2> QED
    BY <1>9, <1>10, <2>1, <2>4, Zenon
<1>12. SubSeq(head \o data, 3, 2 + size) = data
  <2> DEFINE last == 2 + size
  <2>1. /\ 3 \in Len(head) + 1 .. Len(head) + Len(data)
        /\ last \in Len(head) + 1 .. Len(head) + Len(data)
        /\ 3 - Len(head) = 1 /\ last - Len(head) = Len(data)
    BY <1>1, <1>2, <1>9, <1>10
  <2> HIDE DEF last
  <2>2. SubSeq(head \o data, 3, last) = SubSeq(data, 3 - Len(head), last - Len(head))
    BY <1>9, <1>10, <2>1, SubSeqOfConcat2, Zenon
  <2>3. SubSeq(data, 1, Len(data)) = data
    BY <1>10, SubSeqFull, Zenon
  <2> QED
    BY <2>1, <2>2, <2>3, Zenon DEF last
<1>13. IsFragment(p)
  BY <1>4, <1>7, <1>11, Zenon DEF IsFragment, FuType
<1>14. HasStart(p) <=> at = 1
  BY <1>4, <1>8, <1>11, Zenon DEF HasStart
<1>15. HasEnd(p) <=> at + size = n
  BY <1>4, <1>8, <1>11, Zenon DEF HasEnd
<1>16. (p.payload[1] \div 32) * 32 + (p.payload[2] % 32) = h
  BY <1>4, <1>7, <1>8, <1>11, Zenon
<1>17. SubSeq(p.payload, 3, Len(p.payload)) = data
  BY <1>4, <1>11, <1>12, Zenon
<1> QED
  BY <1>2, <1>13, <1>14, <1>15, <1>16, <1>17 DEF size, h, data

\* A receiver adds a fragment to what it has of the NAL unit.
LEMMA FragmentRebuilt ==
  ASSUME NEW nal \in Seq(Bytes), ~ IsSingle(nal), NEW at \in 1 .. Len(nal) - 1,
         NEW p, p.payload = Fragment(nal, at), NEW r \in Seq(Seq(Bytes)),
         NEW received, received = IF at = 1 THEN r ELSE Append(r, SubSeq(nal, 1, at))
  PROVE  Rebuilt(received, p) = Append(r, SubSeq(nal, 1, at + ChunkSize(nal, at)))
<1> DEFINE size == ChunkSize(nal, at)
           data == SubSeq(nal, at + 1, at + size)
           all == SubSeq(nal, 1, at + size)
<1>1. /\ size \in 1 .. Len(nal) - at /\ IsFragment(p) /\ (HasStart(p) <=> at = 1)
      /\ (p.payload[1] \div 32) * 32 + (p.payload[2] % 32) = nal[1]
      /\ SubSeq(p.payload, 3, Len(p.payload)) = data
  BY FragmentParts
<1>2. Len(nal) \in Nat
  BY LenProperties
<1>3. size \in 1 .. Len(nal) - at
  BY <1>1
<1> HIDE DEF size
<1>4. SubSeq(nal, 1, at) \o data = all
  <2>1. 1 \in 1 .. Len(nal) + 1 /\ at \in 1 - 1 .. Len(nal) /\ at + size \in at .. Len(nal)
    BY <1>2, <1>3
  <2> QED
    BY <2>1, ConcatAdjacentSubSeq, Zenon
<1>5. CASE at = 1
  <2>1. SubSeq(nal, 1, at) = <<nal[1]>>
    <3>1. 1 \in 1 .. Len(nal)
      BY <1>2
    <3>2. SubSeq(nal, 1, 1) = <<nal[1]>> \o SubSeq(nal, 1 + 1, 1)
      <4>1. 1 \in 1 .. Len(nal) /\ 1 \in 1 .. Len(nal)
        BY <3>1
      <4> QED
        BY <4>1, SubSeqRecursiveFirst
    <3>3. SubSeq(nal, 1 + 1, 1) = <<>>
      <4>1. 1 + 1 \in Int /\ 1 \in Int /\ 1 < 1 + 1
        OBVIOUS
      <4> QED
        BY <4>1, SubSeqEmpty, Zenon
    <3>4. <<nal[1]>> \in Seq(Bytes)
      BY <3>1, ElementOfSeq
    <3> QED
      BY <1>5, <3>2, <3>3, <3>4, ConcatEmptySeq, Zenon
  <2>2. received = r
    BY <1>5
  <2>3. Rebuilt(received, p) = Append(r, <<nal[1]>> \o data)
    BY <1>1, <1>5, <2>2, Zenon DEF Rebuilt
  <2> QED
    BY <1>4, <2>1, <2>3, Zenon DEF size
<1>6. CASE at # 1
  <2> DEFINE part == SubSeq(nal, 1, at)
  <2>1. part \in Seq(Bytes)
    <3>1. 1 \in Int /\ at \in Int /\ \A j \in 1 .. at : j \in 1 .. Len(nal)
      BY <1>2
    <3>2. \A j \in 1 .. at : nal[j] \in Bytes
      BY <3>1, ElementOfSeq
    <3> QED
      BY <3>1, <3>2, SubSeqProperties
  <2>2. received = Append(r, part)
    BY <1>6
  <2> HIDE DEF part
  <2>3. /\ Append(r, part) \in Seq(Seq(Bytes)) /\ Len(Append(r, part)) = Len(r) + 1
        /\ Append(r, part)[Len(r) + 1] = part /\ Len(r) \in Nat
    BY <2>1, AppendProperties, LenProperties
  <2>4. Last(received) = part
    BY <2>2, <2>3, Zenon DEF Last
  <2>5. Front(received) = r
    <3>1. Front(received) = SubSeq(Append(r, part), 1, Len(r))
      <4>1. Len(received) - 1 = Len(r)
        BY <2>2, <2>3
      <4> QED
        BY <2>2, <4>1, Zenon DEF Front
    <3>2. Append(r, part) = r \o <<part>> /\ <<part>> \in Seq(Seq(Bytes))
      BY <2>1, AppendIsConcat
    <3>3. SubSeq(Append(r, part), 1, Len(r)) = r
      <4>1. CASE Len(r) = 0
        <5>1. r = <<>>
          BY <4>1, EmptySeq
        <5>2. SubSeq(Append(r, part), 1, Len(r)) = <<>>
          <6>1. 1 \in Int /\ Len(r) \in Int /\ Len(r) < 1
            BY <4>1
          <6> QED
            BY <6>1, SubSeqEmpty, Zenon
        <5> QED
          BY <5>1, <5>2, Zenon
      <4>2. CASE Len(r) # 0
        <5>1. 1 \in 1 .. Len(r) /\ Len(r) \in 1 .. Len(r)
          BY <2>3, <4>2
        <5>2. SubSeq(r \o <<part>>, 1, Len(r)) = SubSeq(r, 1, Len(r))
          BY <3>2, <5>1, SubSeqOfConcat1, Zenon
        <5> QED
          BY <3>2, <5>2, SubSeqFull, Zenon
      <4> QED
        BY <4>1, <4>2
    <3> QED
      BY <3>1, <3>3, Zenon
  <2>6. Rebuilt(received, p) = Append(r, part \o data)
    BY <1>1, <1>6, <2>4, <2>5, Zenon DEF Rebuilt
  <2> QED
    BY <1>4, <2>6, Zenon DEF part, size
<1> QED
  BY <1>5, <1>6

-----------------------------------------------------------------------------
(* The packets of a unit.                                                  *)

\* What the encoder's units have in common once they are cut up: byte strings that are not
\* empty and not of the type that stands for a fragment.
Sendable(u) ==
  /\ u \in Seq(Seq(Bytes))
  /\ \A k \in 1 .. Len(u) : Len(u[k]) \in Nat \ {0} /\ u[k][1] % 32 # FuType

\* Of the NAL units u the first k are with the client, and of the next one all up to `at',
\* which is 1 when nothing of it is sent.
At(u, k, at) ==
  /\ k \in 0 .. Len(u)
  /\ at = 1 \/ (k < Len(u) /\ ~IsSingle(u[k + 1]) /\ at \in 2 .. Len(u[k + 1]) - 1)
\* So much can be put together from the packets ps.
Has(u, k, at, ps) ==
  Depacketized(ps) = IF at = 1 THEN SubSeq(u, 1, k) ELSE Append(SubSeq(u, 1, k), SubSeq(u[k + 1], 1, at))
\* The last of them is a fragment that is not the last of its NAL unit.
Open(ps) == ps # <<>> /\ IsFragment(ps[Len(ps)]) /\ ~HasEnd(ps[Len(ps)])
\* A fragment without start follows one without end, and one without end is followed by one
\* without start, or the last.
Started(ps) ==
  \A i \in 1 .. Len(ps) : IsFragment(ps[i]) /\ ~HasStart(ps[i]) =>
    i > 1 /\ IsFragment(ps[i - 1]) /\ ~HasEnd(ps[i - 1])
Continued(ps) ==
  \A i \in 1 .. Len(ps) : i < Len(ps) /\ IsFragment(ps[i]) /\ ~HasEnd(ps[i]) =>
    IsFragment(ps[i + 1]) /\ ~HasStart(ps[i + 1])
Paired(ps, at) == Started(ps) /\ Continued(ps) /\ (Open(ps) <=> at # 1)
\* The marker is on the last packet of the unit.
Marked(u, k, ps) == \A i \in 1 .. Len(ps) : ps[i].marker <=> (k = Len(u) /\ i = Len(ps))

Got(u, k, at, ps) == At(u, k, at) /\ Has(u, k, at, ps) /\ Paired(ps, at) /\ Marked(u, k, ps)

\* The packet after those, and how much of the NAL unit is sent with it.
IsPacket(u, k, at, o, p) ==
  /\ p.payload = IF IsSingle(u[k + 1]) THEN u[k + 1] ELSE Fragment(u[k + 1], at)
  /\ o = OffsetAfter(u[k + 1], at)
  /\ p.marker <=> (k + 1 = Len(u) /\ o = Len(u[k + 1]))

\* The encoder's units are sendable.
LEMMA UnitIsSendable == ASSUME NEW d \in Units PROVE Nals(d) = AnnexB(d) /\ Sendable(Nals(d))
<1>1. d \in Seq(Bytes)
  BY UnitsAreBytes DEF Bytes
<1>2. Nals(d) = AnnexB(d)
  BY <1>1, ScanIsAnnexB
<1>3. /\ AnnexB(d) \in Seq(Seq(Bytes)) /\ DOMAIN AnnexB(d) = 1 .. Len(AnnexB(d))
      /\ \A k \in DOMAIN AnnexB(d) : \E b \in Bodies(d) : AnnexB(d)[k] = NalBehind(d, b)
  BY <1>1, NalAtRank
<1>4. \A k \in DOMAIN AnnexB(d) : Len(AnnexB(d)[k]) \in Nat \ {0}
  BY <1>1, <1>3, FirstByte
<1>5. \A k \in DOMAIN AnnexB(d) : AnnexB(d)[k][1] % 32 # FuType
  BY UnitsAreH264
<1> QED
  BY <1>2, <1>3, <1>4, <1>5, Zenon DEF Sendable

\* Nothing of any unit is with a client that has no packet.
LEMMA NothingGot == ASSUME NEW u, Len(u) \in Nat PROVE Got(u, 0, 1, <<>>)
<1> DEFINE none == <<>>
<1>1. Len(none) = 0 /\ none = <<>>
  OBVIOUS
<1>2. At(u, 0, 1)
  BY DEF At
<1>3. Has(u, 0, 1, none)
  <2>1. SubSeq(u, 1, 0) = <<>>
    BY SubSeqEmpty
  <2> QED
    BY <2>1, DepacketizedEmpty, Zenon DEF Has
<1> HIDE DEF none
<1>4. Paired(none, 1)
  BY <1>1 DEF Paired, Started, Continued, Open
<1>5. Marked(u, 0, none)
  BY <1>1 DEF Marked
<1> QED
  BY <1>2, <1>3, <1>4, <1>5 DEF none, Got

\* Fragments stay paired when the next packet comes.
LEMMA PairedAppend ==
  ASSUME NEW S, NEW ps \in Seq(S), NEW p \in S, NEW at, NEW o, Paired(ps, at),
         IsFragment(p) => (HasStart(p) <=> at = 1), ~IsFragment(p) => at = 1,
         (IsFragment(p) /\ ~HasEnd(p)) <=> o # 1
  PROVE  Paired(Append(ps, p), o)
<1> DEFINE n == Len(ps)
           m == n + 1
           qs == Append(ps, p)
<1>1. /\ n \in Nat /\ m \in Nat /\ Len(qs) = m /\ qs[m] = p /\ qs # <<>>
      /\ \A i \in 1 .. n : qs[i] = ps[i]
  BY AppendProperties, LenProperties
<1>2. \A i \in 1 .. m : i = m \/ (i \in 1 .. n /\ i < m)
  BY <1>1
<1>3. \A i \in 1 .. n : i + 1 \in 2 .. m /\ (i + 1 = m <=> i = n) /\ (i < n <=> i + 1 \in 1 .. n)
  BY <1>1
<1>4. m - 1 = n /\ (n # 0 => n \in 1 .. n /\ m > 1) /\ (ps # <<>> <=> n # 0)
  BY <1>1, EmptySeq
<1> HIDE DEF qs
<1>5. Started(qs)
  <2> SUFFICES ASSUME NEW i \in 1 .. m, IsFragment(qs[i]), ~HasStart(qs[i])
               PROVE  i > 1 /\ IsFragment(qs[i - 1]) /\ ~HasEnd(qs[i - 1])
    BY <1>1 DEF Started
  <2>1. CASE i = m
    <3>1. Open(ps)
      BY <1>1, <2>1 DEF Paired
    <3>2. n # 0 /\ IsFragment(ps[n]) /\ ~HasEnd(ps[n])
      BY <1>4, <3>1 DEF Open
    <3>3. i > 1 /\ i - 1 = n /\ qs[n] = ps[n]
      BY <1>1, <1>4, <2>1, <3>2
    <3> QED
      BY <3>2, <3>3
  <2>2. CASE i \in 1 .. n
    <3>1. i > 1 /\ IsFragment(ps[i - 1]) /\ ~HasEnd(ps[i - 1])
      BY <1>1, <2>2 DEF Paired, Started
    <3>2. i - 1 \in 1 .. n
      BY <1>1, <2>2, <3>1
    <3>3. qs[i - 1] = ps[i - 1]
      BY <1>1, <3>2
    <3> QED
      BY <3>1, <3>3
  <2> QED
    BY <1>2, <2>1, <2>2
<1>6. Continued(qs)
  <2> SUFFICES ASSUME NEW i \in 1 .. m, i < m, IsFragment(qs[i]), ~HasEnd(qs[i])
               PROVE  IsFragment(qs[i + 1]) /\ ~HasStart(qs[i + 1])
    BY <1>1 DEF Continued
  <2>1. i \in 1 .. n /\ qs[i] = ps[i]
    BY <1>1
  <2>2. CASE i = n
    <3>1. Open(ps)
      BY <1>4, <2>1, <2>2 DEF Open
    <3> QED
      BY <1>1, <2>2, <3>1 DEF Paired
  <2>3. CASE i # n
    <3>1. i < n /\ i + 1 \in 1 .. n
      BY <1>1, <2>1, <2>3
    <3>2. IsFragment(ps[i + 1]) /\ ~HasStart(ps[i + 1])
      BY <2>1, <3>1 DEF Paired, Continued
    <3> QED
      BY <1>1, <3>1, <3>2
  <2> QED
    BY <2>2, <2>3
<1>7. Open(qs) <=> o # 1
  BY <1>1 DEF Open
<1> QED
  BY <1>5, <1>6, <1>7 DEF Paired, qs

\* The marker stays where it belongs.
LEMMA MarkedAppend ==
  ASSUME NEW S, NEW ps \in Seq(S), NEW p \in S, NEW u, NEW k, k # Len(u), Marked(u, k, ps),
         NEW l, p.marker <=> (l = Len(u))
  PROVE  Marked(u, l, Append(ps, p))
<1> DEFINE n == Len(ps)
           qs == Append(ps, p)
<1>1. /\ n \in Nat /\ Len(qs) = n + 1 /\ qs[n + 1] = p
      /\ \A i \in 1 .. n : qs[i] = ps[i]
  BY AppendProperties, LenProperties
<1> HIDE DEF qs
<1> SUFFICES ASSUME NEW i \in 1 .. n + 1
             PROVE  qs[i].marker <=> (l = Len(u) /\ i = n + 1)
  BY <1>1 DEF Marked, qs
<1>2. CASE i = n + 1
  BY <1>1, <1>2
<1>3. CASE i # n + 1
  <2>1. i \in 1 .. n
    BY <1>1, <1>3
  <2>2. qs[i] = ps[i] /\ ~ps[i].marker
    BY <1>1, <2>1 DEF Marked
  <2> QED
    BY <1>3, <2>2
<1> QED
  BY <1>2, <1>3

\* One more NAL unit.
LEMMA PrefixGrows ==
  ASSUME NEW S, NEW u \in Seq(S), NEW k \in 0 .. Len(u) - 1
  PROVE  Append(SubSeq(u, 1, k), u[k + 1]) = SubSeq(u, 1, k + 1) /\ SubSeq(u, 1, k) \in Seq(S)
<1> DEFINE m == k + 1
<1>1. m \in 1 .. Len(u) /\ 1 \in 1 .. Len(u) /\ m - 1 = k /\ k \in Int /\ 1 \in Int
  BY LenProperties
<1>2. \A i \in 1 .. k : i \in 1 .. Len(u)
  BY <1>1
<1> HIDE DEF m
<1>3. SubSeq(u, 1, k) \in Seq(S)
  <2>1. \A i \in 1 .. k : u[i] \in S
    BY <1>2, ElementOfSeq
  <2> QED
    BY <1>1, <2>1, SubSeqProperties, Zenon
<1>4. SubSeq(u, 1, m) = SubSeq(u, 1, k) \o <<u[m]>>
  <2>1. m \in 1 .. m
    BY <1>1
  <2>2. SubSeq(u, 1, m) = SubSeq(u, 1, m - 1) \o <<u[m]>>
    BY <1>1, <2>1, SubSeqRecursiveSecond
  <2> QED
    BY <1>1, <2>2
<1>5. u[m] \in S
  BY <1>1, ElementOfSeq
<1> QED
  BY <1>3, <1>4, <1>5, AppendIsConcat, Zenon DEF m

\* A NAL unit that is one packet.
LEMMA SingleGot ==
  ASSUME NEW u, Sendable(u), NEW k \in 0 .. Len(u) - 1, IsSingle(u[k + 1]),
         NEW S, NEW ps \in Seq(S), NEW p \in S, NEW at, Got(u, k, at, ps),
         NEW o, IsPacket(u, k, at, o, p)
  PROVE  o = Len(u[k + 1]) /\ Got(u, k + 1, 1, Append(ps, p))
<1> DEFINE m == k + 1
<1>1. u \in Seq(Seq(Bytes)) /\ m \in 1 .. Len(u) /\ m \in 0 .. Len(u) /\ k # Len(u)
  BY LenProperties DEF Sendable
<1>2. at = 1
  BY DEF Got, At
<1>3. p.payload = u[m] /\ o = Len(u[m]) /\ (p.marker <=> m = Len(u))
  BY DEF IsPacket, OffsetAfter
<1>4. ~IsFragment(p)
  BY <1>1, <1>3 DEF Sendable, IsFragment
<1>5. At(u, m, 1)
  BY <1>1 DEF At
<1>6. Has(u, m, 1, Append(ps, p))
  <2>1. Depacketized(ps) = SubSeq(u, 1, k)
    BY <1>2 DEF Got, Has
  <2>2. Rebuilt(Depacketized(ps), p) = Append(SubSeq(u, 1, k), u[m])
    BY <1>3, <1>4, <2>1, Zenon DEF Rebuilt
  <2>3. Append(SubSeq(u, 1, k), u[m]) = SubSeq(u, 1, m)
    BY <1>1, PrefixGrows
  <2>4. Depacketized(Append(ps, p)) = SubSeq(u, 1, m)
    BY <2>2, <2>3, DepacketizedAppend, Zenon
  <2> QED
    BY <2>4, Zenon DEF Has
<1>7. Paired(Append(ps, p), 1)
  <2>1. Paired(ps, 1)
    BY <1>2 DEF Got
  <2> QED
    BY <1>4, <2>1, PairedAppend, Zenon
<1>8. Marked(u, m, Append(ps, p))
  BY <1>1, <1>3, MarkedAppend, Zenon DEF Got
<1> QED
  BY <1>3, <1>5, <1>6, <1>7, <1>8, Zenon DEF Got

\* A fragment, the last of its NAL unit or not.
LEMMA FragmentGot ==
  ASSUME NEW u, Sendable(u), NEW k \in 0 .. Len(u) - 1, ~IsSingle(u[k + 1]),
         NEW S, NEW ps \in Seq(S), NEW p \in S, NEW at, Got(u, k, at, ps),
         NEW o, IsPacket(u, k, at, o, p)
  PROVE  /\ o < Len(u[k + 1]) => Got(u, k, o, Append(ps, p))
         /\ ~(o < Len(u[k + 1])) => o = Len(u[k + 1]) /\ Got(u, k + 1, 1, Append(ps, p))
<1> DEFINE m == k + 1
           nal == u[m]
           n == Len(nal)
           size == ChunkSize(nal, at)
           before == SubSeq(u, 1, k)
           qs == Append(ps, p)
<1>1. u \in Seq(Seq(Bytes)) /\ m \in 1 .. Len(u) /\ m \in 0 .. Len(u) /\ k # Len(u) /\ k \in 0 .. Len(u)
      /\ k < Len(u) /\ Len(u) \in Nat
  BY LenProperties DEF Sendable
<1>2. nal \in Seq(Bytes) /\ n \in Nat /\ n > 3
  <2>1. nal \in Seq(Bytes)
    BY <1>1, ElementOfSeq
  <2>2. n \in Nat
    BY <2>1, LenProperties
  <2> QED
    BY <2>1, <2>2, SenderBounds DEF IsSingle
<1>3. at \in 1 .. n - 1
  BY <1>2 DEF Got, At
<1>4. /\ p.payload = Fragment(nal, at) /\ o = at + size
      /\ (p.marker <=> (m = Len(u) /\ o = n))
  BY DEF IsPacket, OffsetAfter
<1>5. /\ size \in 1 .. n - at /\ IsFragment(p) /\ (HasStart(p) <=> at = 1)
      /\ (HasEnd(p) <=> at + size = n)
  <2>1. ~IsSingle(nal)
    OBVIOUS
  <2> HIDE DEF nal
  <2> QED
    BY <1>2, <1>3, <1>4, <2>1, FragmentParts
<1>6. before \in Seq(Seq(Bytes)) /\ Append(before, nal) = SubSeq(u, 1, m)
  BY <1>1, PrefixGrows
<1>7. Depacketized(qs) = Append(before, SubSeq(nal, 1, o))
  <2>1. Depacketized(ps) = IF at = 1 THEN before ELSE Append(before, SubSeq(nal, 1, at))
    BY DEF Got, Has
  <2>2. ~IsSingle(nal)
    OBVIOUS
  <2>3. Depacketized(qs) = Rebuilt(Depacketized(ps), p)
    BY DepacketizedAppend, Zenon
  <2> HIDE DEF nal, before, qs
  <2>4. Rebuilt(Depacketized(ps), p) = Append(before, SubSeq(nal, 1, at + size))
    BY <1>2, <1>3, <1>4, <1>6, <2>1, <2>2, FragmentRebuilt
  <2> QED
    BY <1>4, <2>3, <2>4, Zenon
<1>8. o \in 2 .. n /\ (o < n <=> o # n)
  BY <1>2, <1>3, <1>4, <1>5
<1>9. ASSUME NEW l, (IsFragment(p) /\ ~HasEnd(p)) <=> l # 1
      PROVE  Paired(qs, l)
  <2>1. Paired(ps, at)
    BY DEF Got
  <2> QED
    BY <1>5, <1>9, <2>1, PairedAppend, Zenon
<1>10. CASE o < n
  <2>1. At(u, k, o)
    BY <1>1, <1>2, <1>8, <1>10 DEF At
  <2>2. Has(u, k, o, qs)
    BY <1>7, <1>8 DEF Has
  <2>3. Paired(qs, o)
    <3>1. o # 1 /\ ~HasEnd(p)
      BY <1>4, <1>5, <1>8, <1>10
    <3> QED
      BY <1>5, <1>9, <3>1
  <2>4. Marked(u, k, qs)
    <3>1. p.marker <=> k = Len(u)
      BY <1>1, <1>4, <1>8, <1>10
    <3> QED
      BY <1>1, <3>1, MarkedAppend, Zenon DEF Got
  <2> QED
    BY <1>10, <2>1, <2>2, <2>3, <2>4 DEF Got
<1>11. CASE ~(o < n)
  <2>1. o = n
    BY <1>8, <1>11
  <2>2. At(u, m, 1)
    BY <1>1 DEF At
  <2>3. Has(u, m, 1, qs)
    <3>1. SubSeq(nal, 1, o) = nal
      BY <1>2, <2>1, SubSeqFull, Zenon
    <3>2. Depacketized(qs) = SubSeq(u, 1, m)
      BY <1>6, <1>7, <3>1, Zenon
    <3> QED
      BY <3>2, Zenon DEF Has
  <2>4. Paired(qs, 1)
    BY <1>4, <1>5, <1>9, <2>1
  <2>5. Marked(u, m, qs)
    <3>1. p.marker <=> m = Len(u)
      BY <1>4, <2>1
    <3> QED
      BY <1>1, <3>1, MarkedAppend, Zenon DEF Got
  <2> QED
    BY <1>11, <2>1, <2>2, <2>3, <2>4, <2>5 DEF Got
<1> QED
  BY <1>10, <1>11

-----------------------------------------------------------------------------
(* A unit on its way.                                                      *)

\* What of the unit is with the client, and on its way.
Streaming == media \in {"next", "sending", "sent"}
InUnit ==
  Streaming =>
    /\ unit \in Units
    /\ \E k \in 0 .. Len(Nals(unit)) :
         /\ nals = SubSeq(Nals(unit), k + 1, Len(Nals(unit)))
         /\ media = "sent" <=> k = Len(Nals(unit))
         /\ media # "sending" => Got(Nals(unit), k, offset, heard)
         /\ media = "sending" => \E at : /\ Got(Nals(unit), k, at, heard)
                                         /\ IsPacket(Nals(unit), k, at, offset, packet)
unitVars == <<unit, nals, offset, packet, heard, media>>
KnownClient == client \in Clients

\* The first of the NAL units from k + 1 on, and the ones after it.
LEMMA RestOf ==
  ASSUME NEW S, NEW u \in Seq(S), NEW k \in 0 .. Len(u) - 1,
         NEW s, s = SubSeq(u, k + 1, Len(u))
  PROVE  /\ Head(s) = u[k + 1] /\ Tail(s) = SubSeq(u, k + 1 + 1, Len(u))
         /\ Len(s) = Len(u) - k
<1> DEFINE m == k + 1
           n == Len(u)
<1>1. n \in Nat
  BY LenProperties
<1>2. m \in 1 .. n /\ n \in m .. n /\ m \in Int /\ n \in Int /\ \A i \in m .. n : i \in 1 .. n
  BY <1>1
<1>3. n - m + 1 = n - k /\ m <= n
  BY <1>1
<1>4. s = SubSeq(u, m, n)
  OBVIOUS
<1> HIDE DEF m
<1>5. Head(s) = u[m] /\ Tail(s) = SubSeq(u, m + 1, n)
  BY <1>2, <1>4, HeadTailOfSubSeq
<1>6. Len(s) = n - k
  <2>1. \A i \in m .. n : u[i] \in S
    BY <1>2, ElementOfSeq
  <2>2. Len(SubSeq(u, m, n)) = IF m <= n THEN n - m + 1 ELSE 0
    BY <1>2, <2>1, SubSeqProperties, Zenon
  <2> QED
    BY <1>3, <1>4, <2>2
<1> QED
  BY <1>5, <1>6 DEF m

\* A new unit.
LEMMA StartUnitInUnit == ASSUME NEW d \in Units, StartUnit(d) PROVE InUnit'
<1> SUFFICES ASSUME media' = "next" PROVE InUnit'
  BY DEF StartUnit, InUnit, Streaming
<1> DEFINE u == Nals(d)
<1>1. unit' = d /\ nals' = u /\ offset' = 1 /\ heard' = <<>> /\ u # <<>>
  BY DEF StartUnit
<1>2. u \in Seq(Seq(Bytes))
  BY UnitIsSendable DEF Sendable
<1> HIDE DEF u
<1>3. Len(u) \in Nat /\ 0 # Len(u) /\ 0 \in 0 .. Len(u) /\ 0 + 1 = 1
  BY <1>1, <1>2, LenProperties, EmptySeq
<1>4. nals' = SubSeq(u, 0 + 1, Len(u))
  BY <1>1, <1>2, <1>3, SubSeqFull
<1>5. Got(u, 0, offset', heard')
  BY <1>1, <1>3, NothingGot
<1>6. media' # "sending" /\ media' # "sent"
  OBVIOUS
<1>7. Nals(unit') = u
  BY <1>1 DEF u
<1> QED
  BY <1>1, <1>3, <1>4, <1>5, <1>6, <1>7, Zenon DEF InUnit

\* The packet that is written is the next one.
LEMMA NextPacketInUnit == ASSUME InUnit, NextPacket PROVE InUnit'
<1> DEFINE u == Nals(unit)
<1>1. media = "next" /\ media' = "sending" /\ UNCHANGED <<unit, nals, heard>>
  BY DEF NextPacket
<1>2. unit \in Units
  BY <1>1 DEF InUnit, Streaming
<1>3. PICK k \in 0 .. Len(u) : /\ nals = SubSeq(u, k + 1, Len(u)) /\ k # Len(u)
                               /\ Got(u, k, offset, heard)
  BY <1>1 DEF InUnit, Streaming
<1>4. u \in Seq(Seq(Bytes))
  BY <1>2, UnitIsSendable DEF Sendable
<1>5. Nals(unit') = u
  BY <1>1
<1> HIDE DEF u
<1>6. k \in 0 .. Len(u) - 1 /\ Len(u) \in Nat
  BY <1>3, <1>4, LenProperties
<1>7. Head(nals) = u[k + 1] /\ Len(nals) = Len(u) - k
  BY <1>3, <1>4, <1>6, RestOf
<1>8. (Len(nals) = 1) <=> (k + 1 = Len(u))
  BY <1>6, <1>7
<1>9. IsPacket(u, k, offset, offset', packet')
  <2>1. offset' = OffsetAfter(u[k + 1], offset)
    BY <1>7 DEF NextPacket
  <2>2. packet'.payload = IF IsSingle(u[k + 1]) THEN u[k + 1] ELSE Fragment(u[k + 1], offset)
    BY <1>7 DEF NextPacket
  <2>3. packet'.marker <=> (offset' = Len(u[k + 1]) /\ Len(nals) = 1)
    BY <1>7, <2>1 DEF NextPacket
  <2> QED
    BY <1>8, <2>1, <2>2, <2>3, Zenon DEF IsPacket
<1>10. \E at : Got(u, k, at, heard') /\ IsPacket(u, k, at, offset', packet')
  BY <1>1, <1>3, <1>9, Zenon
<1>11. nals' = SubSeq(u, k + 1, Len(u)) /\ unit' \in Units /\ media' = "sending" /\ "sending" # "sent"
  BY <1>1, <1>2, <1>3
<1> QED
  BY <1>3, <1>5, <1>10, <1>11, Zenon DEF InUnit

\* A packet is with the client.
LEMMA DeliveredInUnit ==
  ASSUME InUnit, HeardIsSeq, media = "sending", Delivered, UNCHANGED unit
  PROVE  InUnit'
<1> DEFINE u == Nals(unit)
<1>1. unit \in Units
  BY DEF InUnit, Streaming
<1>2. PICK k \in 0 .. Len(u) : /\ nals = SubSeq(u, k + 1, Len(u)) /\ k # Len(u)
                               /\ \E at : Got(u, k, at, heard) /\ IsPacket(u, k, at, offset, packet)
  BY DEF InUnit, Streaming
<1>3. PICK at : Got(u, k, at, heard) /\ IsPacket(u, k, at, offset, packet)
  BY <1>2
<1>4. Sendable(u) /\ u \in Seq(Seq(Bytes))
  BY <1>1, UnitIsSendable DEF Sendable
<1>5. Nals(unit') = u /\ unit' \in Units
  BY <1>1
<1> HIDE DEF u
<1>6. k \in 0 .. Len(u) - 1 /\ Len(u) \in Nat /\ k + 1 \in 0 .. Len(u)
  BY <1>2, <1>4, LenProperties
<1>7. Head(nals) = u[k + 1] /\ Tail(nals) = SubSeq(u, k + 1 + 1, Len(u)) /\ Len(nals) = Len(u) - k
  BY <1>2, <1>4, <1>6, RestOf
<1>8. PICK S : heard \in Seq(S) /\ packet \in S
  <2>1. PICK T : heard \in Seq(T)
    BY DEF HeardIsSeq
  <2>2. heard \in Seq(T \cup {packet})
    BY <2>1
  <2> QED
    BY <2>2
<1>9. heard' = Append(heard, packet)
  BY DEF Delivered
<1>10. /\ offset < Len(u[k + 1]) => Got(u, k, offset, heard')
       /\ ~(offset < Len(u[k + 1])) => Got(u, k + 1, 1, heard')
  <2>1. CASE IsSingle(u[k + 1])
    <3>1. offset = Len(u[k + 1]) /\ Got(u, k + 1, 1, heard')
      BY <1>3, <1>4, <1>6, <1>8, <1>9, <2>1, SingleGot
    <3>2. Len(u[k + 1]) \in Nat
      BY <1>4, <1>6 DEF Sendable
    <3> QED
      BY <3>1, <3>2
  <2>2. CASE ~IsSingle(u[k + 1])
    BY <1>3, <1>4, <1>6, <1>8, <1>9, <2>2, FragmentGot
  <2> QED
    BY <2>1, <2>2
<1>11. CASE offset < Len(u[k + 1])
  <2>1. media' = "next" /\ UNCHANGED <<nals, offset>>
    BY <1>7, <1>11 DEF Delivered
  <2>2. media' # "sending" /\ media' # "sent"
    BY <2>1
  <2>3. Got(u, k, offset', heard') /\ nals' = SubSeq(u, k + 1, Len(u))
    BY <1>2, <1>10, <1>11, <2>1
  <2> QED
    BY <1>2, <1>5, <2>2, <2>3, Zenon DEF InUnit
<1>12. CASE ~(offset < Len(u[k + 1]))
  <2>1. /\ nals' = Tail(nals) /\ offset' = 1
        /\ media' = IF Len(nals) = 1 THEN "sent" ELSE "next"
    BY <1>7, <1>12 DEF Delivered
  <2>2. media' # "sending" /\ ((media' = "sent") <=> (k + 1 = Len(u)))
    BY <1>6, <1>7, <2>1
  <2>3. nals' = SubSeq(u, k + 1 + 1, Len(u)) /\ Got(u, k + 1, offset', heard')
    BY <1>7, <1>10, <1>12, <2>1
  <2> QED
    BY <1>5, <1>6, <2>1, <2>2, <2>3, Zenon DEF InUnit
<1> QED
  BY <1>11, <1>12

\* No step but these touches what is heard while a unit is sent.
LEMMA KeptInUnit ==
  ASSUME InUnit, UNCHANGED unitVars
  PROVE  InUnit'
  BY DEF InUnit, Streaming, unitVars

\* Nothing is on its way.
LEMMA NotInUnit == ASSUME ~Streaming' PROVE InUnit'
  BY DEF InUnit, Streaming

\* The client is the one that connected.
LEMMA ClientStays == ASSUME KnownClient, [Next]_vars PROVE KnownClient'
  BY DEF KnownClient, Next, Listen, Answer, AnswerFails, Media, vars

\* Every step of the connection keeps what is known of the unit.
LEMMA InUnitStep ==
  ASSUME InUnit, KnownClient, HeardIsSeq, [Next]_vars
  PROVE  InUnit'
<1>1. UNCHANGED senderVars => InUnit'
  <2> SUFFICES ASSUME UNCHANGED senderVars PROVE InUnit'
    OBVIOUS
  <2>1. UNCHANGED unitVars
    BY DEF senderVars, unitVars
  <2> QED
    BY <2>1, KeptInUnit
<1>2. CASE Listen
  BY <1>1, <1>2 DEF Listen
<1>3. CASE Answer
  <2>1. CASE Play
    <3>1. ~Streaming'
      BY <2>1 DEF Play, Streaming
    <3> QED
      BY <3>1, NotInUnit
  <2> QED
    BY <1>1, <1>3, <2>1 DEF Answer
<1>4. CASE AnswerFails
  <2>1. ~Streaming'
    BY <1>4 DEF AnswerFails, Streaming
  <2> QED
    BY <2>1, NotInUnit
<1>5. CASE Media
  <2>1. ASSUME NEW d \in Gets(client), StartUnit(d) PROVE InUnit'
    BY <2>1, ClientsSendStreams, StartUnitInUnit DEF KnownClient
  <2>2. ASSUME NEW n \in 1 .. pending, Send(n) PROVE InUnit'
    <3>1. media = "sending" /\ UNCHANGED unit
      BY <2>2 DEF Send
    <3>2. CASE n = pending
      <4>1. Delivered
        BY <2>2, <3>2 DEF Send
      <4> QED
        BY <3>1, <4>1, DeliveredInUnit
    <3>3. CASE n # pending
      <4>1. UNCHANGED unitVars
        BY <2>2, <3>3 DEF Send, unitVars
      <4> QED
        BY <4>1, KeptInUnit
    <3> QED
      BY <3>2, <3>3
  <2>3. CASE SendWaits
    <3>1. UNCHANGED unitVars
      BY <2>3 DEF SendWaits, unitVars
    <3> QED
      BY <3>1, KeptInUnit
  <2>4. CASE SendFails \/ UnitSent \/ EncoderFails \/ Disconnect \/ Recover
    <3>1. ~Streaming'
      BY <2>4 DEF SendFails, UnitSent, EncoderFails, Disconnect, Recover, Streaming
    <3> QED
      BY <3>1, NotInUnit
  <2> QED
    BY <1>5, <2>1, <2>2, <2>3, <2>4, NextPacketInUnit DEF Media, MediaNext
<1>6. CASE UNCHANGED vars
  BY <1>1, <1>6 DEF vars
<1> QED
  BY <1>2, <1>3, <1>4, <1>5, <1>6 DEF Next

\* The invariant of a unit on its way.
THEOREM UnitInvariant == Spec => [](InUnit /\ KnownClient)
<1>1. Init => InUnit /\ KnownClient
  BY DEF Init, SenderInit, InUnit, Streaming, KnownClient
<1>2. SenderInv => HeardIsSeq
  BY DEF SenderInv
<1>3. InUnit /\ KnownClient /\ HeardIsSeq /\ [Next]_vars => (InUnit /\ KnownClient)'
  BY ClientStays, InUnitStep
<1> QED
  BY <1>1, <1>2, <1>3, SenderInvariant, PTL DEF Spec

\* A client that has all packets of an access unit puts its NAL units together from them.
THEOREM UnitsArrive == Spec => []UnitArrives
<1>1. InUnit => UnitArrives
  <2> SUFFICES ASSUME InUnit, media = "sent"
               PROVE  /\ Depacketized(heard) = AnnexB(unit) /\ FragmentsPaired(heard)
                      /\ \A i \in DOMAIN heard : heard[i].marker <=> i = Len(heard)
    BY DEF UnitArrives
  <2> DEFINE u == Nals(unit)
  <2>1. unit \in Units /\ Got(u, Len(u), 1, heard)
    <3>1. unit \in Units /\ Got(u, Len(u), offset, heard)
      BY DEF InUnit, Streaming
    <3>2. offset = 1
      BY <3>1, UnitIsSendable, LenProperties DEF Got, At, Sendable
    <3> QED
      BY <3>1, <3>2
  <2>2. u = AnnexB(unit) /\ u \in Seq(Seq(Bytes))
    BY <2>1, UnitIsSendable DEF Sendable
  <2>3. Depacketized(heard) = AnnexB(unit)
    BY <2>1, <2>2, SubSeqFull DEF Got, Has
  <2>4. FragmentsPaired(heard)
    BY <2>1 DEF Got, Paired, Started, Continued, Open, FragmentsPaired
  <2>5. \A i \in DOMAIN heard : heard[i].marker <=> i = Len(heard)
    BY <2>1 DEF Got, Marked
  <2> QED
    BY <2>3, <2>4, <2>5
<1> QED
  BY <1>1, UnitInvariant, PTL

\* The server and its client agree which units are IDRs.
THEOREM IdrsAreIdrs == Spec => []IdrIsIdr
<1>1. InUnit => IdrIsIdr
  <2> SUFFICES ASSUME InUnit, media = "sent"
               PROVE  HasNalType(unit, 5) <=> \E i \in DOMAIN AnnexB(unit) : AnnexB(unit)[i][1] % 32 = 5
    BY DEF IdrIsIdr
  <2>1. unit \in Seq(Bytes) /\ 5 \in 1 .. 31
    BY UnitsAreBytes DEF InUnit, Streaming, Bytes
  <2> QED
    BY <2>1, TypeIsThere, Zenon
<1> QED
  BY <1>1, UnitInvariant, PTL
=============================================================================
