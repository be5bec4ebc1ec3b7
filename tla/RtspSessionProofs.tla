------------------------- MODULE RtspSessionProofs -------------------------
(***************************************************************************)
(* The invariant of RtspSession, for every GOP, every number of attempts,  *)
(* drops and units of time, and every set of faults.                       *)
(***************************************************************************)
EXTENDS RtspSession, TLAPS

Encoder == [ready : BOOLEAN, on : BOOLEAN, at : Positions]
Session == [setup : BOOLEAN, playing : BOOLEAN, recoveries : {0, 1}, drops : 0 .. MaxDrops]
Priming == [why : Whys, left : 0 .. PrimeTries]

\* Where a step takes the records: within their types.
LEMMA Records ==
  /\ Closed \in Encoder /\ Opened \in Encoder
  /\ NoSession \in Session /\ NoPrime \in Priming
  /\ \A w \in Whys : [why |-> w, left |-> PrimeTries] \in Priming
  BY SessionBounds, SMT DEF Closed, Opened, NoSession, NoPrime, Encoder, Session, Priming, Positions, Whys

\* The position wraps within the GOP.
LEMMA NextPosition == \A p \in Positions : (p + 1) % Gop \in Positions
  BY SessionBounds, SMT DEF Positions

\* Changing one field of the encoder.
LEMMA EncoderOn ==
  ASSUME NEW e \in Encoder, NEW v \in BOOLEAN
  PROVE  /\ [e EXCEPT !.on = v] \in Encoder
         /\ [e EXCEPT !.on = v].ready = e.ready /\ [e EXCEPT !.on = v].on = v
         /\ [e EXCEPT !.on = v].at = e.at
  BY DEF Encoder

\* The same for its position.
LEMMA EncoderAt ==
  ASSUME NEW e \in Encoder, NEW v \in Positions
  PROVE  /\ [e EXCEPT !.at = v] \in Encoder
         /\ [e EXCEPT !.at = v].ready = e.ready /\ [e EXCEPT !.at = v].on = e.on
         /\ [e EXCEPT !.at = v].at = v
  BY DEF Encoder

\* The encoder after a frame, after a failure, and after both.
LEMMA EncoderFields ==
  ASSUME enc \in Encoder
  PROVE  /\ Advanced \in Encoder /\ Advanced.ready = enc.ready /\ Advanced.on = enc.on
         /\ Advanced.at = (enc.at + 1) % Gop
         /\ Quiesced \in Encoder /\ Quiesced.ready = enc.ready /\ Quiesced.on = FALSE
         /\ Starved \in Encoder /\ Starved.ready = enc.ready /\ Starved.on = FALSE
<1>1. (enc.at + 1) % Gop \in Positions
  BY NextPosition DEF Encoder
<1>2. Advanced = [enc EXCEPT !.at = (enc.at + 1) % Gop]
  BY DEF Advanced
<1>3. /\ Advanced \in Encoder /\ Advanced.ready = enc.ready /\ Advanced.on = enc.on
      /\ Advanced.at = (enc.at + 1) % Gop
  BY <1>1, <1>2, EncoderAt
<1>4. Quiesced \in Encoder /\ Quiesced.ready = enc.ready /\ Quiesced.on = FALSE
  BY EncoderOn DEF Quiesced
<1>5. Starved \in Encoder /\ Starved.ready = Advanced.ready /\ Starved.on = FALSE
  BY <1>3, EncoderOn DEF Starved
<1> QED
  BY <1>3, <1>4, <1>5

\* Changing fields of the session.
LEMMA SessionFields ==
  ASSUME NEW s \in Session, NEW n \in 0 .. MaxDrops
  PROVE  /\ [s EXCEPT !.setup = TRUE] \in Session
         /\ [s EXCEPT !.setup = TRUE].playing = s.playing
         /\ [s EXCEPT !.setup = TRUE].drops = s.drops
         /\ [s EXCEPT !.recoveries = 1] \in Session
         /\ [s EXCEPT !.recoveries = 1].playing = s.playing
         /\ [s EXCEPT !.recoveries = 1].drops = s.drops
         /\ [s EXCEPT !.drops = n] \in Session
         /\ [s EXCEPT !.drops = n].playing = s.playing
         /\ [s EXCEPT !.drops = n].drops = n
  BY DEF Session

\* Changing two fields of the session at once.
LEMMA SessionPairs ==
  ASSUME NEW s \in Session
  PROVE  /\ [s EXCEPT !.playing = TRUE, !.recoveries = 0] \in Session
         /\ [s EXCEPT !.playing = TRUE, !.recoveries = 0].playing = TRUE
         /\ [s EXCEPT !.playing = TRUE, !.recoveries = 0].drops = s.drops
         /\ [s EXCEPT !.recoveries = 1, !.drops = 0] \in Session
         /\ [s EXCEPT !.recoveries = 1, !.drops = 0].playing = s.playing
         /\ [s EXCEPT !.recoveries = 1, !.drops = 0].drops = 0
<1>0. 0 \in 0 .. MaxDrops
  BY SessionBounds
<1> QED
  BY <1>0 DEF Session

\* One priming attempt less.
LEMMA PrimeField ==
  ASSUME NEW p \in Priming, p.left # 1, p.left # 0
  PROVE  /\ [p EXCEPT !.left = @ - 1] \in Priming
         /\ [p EXCEPT !.left = @ - 1].why = p.why
         /\ [p EXCEPT !.left = @ - 1].left # 0
<1>1. p.left \in 0 .. PrimeTries
  BY DEF Priming
<1>2. p.left - 1 \in 0 .. PrimeTries /\ p.left - 1 # 0
  BY <1>1, SessionBounds
<1> QED
  BY <1>2 DEF Priming

-----------------------------------------------------------------------------
\* TypeOK with the records by name.
LEMMA Types ==
  TypeOK <=> /\ streaming \in BOOLEAN /\ enc \in Encoder /\ pending \in BOOLEAN /\ pc \in Pcs
             /\ ses \in Session /\ prime \in Priming /\ silent \in {Off} \cup 0 .. Stall
             /\ ref \in {"none", "next", "broken"}
  BY DEF TypeOK, Encoder, Session, Priming

\* The same of the next state.
LEMMA TypesNext ==
  TypeOK' <=> /\ streaming' \in BOOLEAN /\ enc' \in Encoder /\ pending' \in BOOLEAN /\ pc' \in Pcs
              /\ ses' \in Session /\ prime' \in Priming /\ silent' \in {Off} \cup 0 .. Stall
              /\ ref' \in {"none", "next", "broken"}
  BY DEF TypeOK, Encoder, Session, Priming

\* What the fields hold.
LEMMA Fields ==
  ASSUME TypeOK
  PROVE  /\ enc.ready \in BOOLEAN /\ enc.on \in BOOLEAN /\ enc.at \in Positions
         /\ ses.playing \in BOOLEAN /\ ses.drops \in 0 .. MaxDrops
         /\ prime.left \in 0 .. PrimeTries
         /\ Opened.ready /\ Opened.on /\ Closed.on = FALSE /\ Closed.ready = FALSE
         /\ NoSession.playing = FALSE /\ NoSession.drops = 0 /\ NoSession.drops # MaxDrops
         /\ 0 \in 0 .. MaxDrops /\ 0 # MaxDrops /\ 0 \in 0 .. Stall /\ PrimeTries # 0 /\ 0 # Off
  BY SessionBounds, OffIsNoTime DEF TypeOK, Opened, Closed, NoSession

\* The server starts without a client and with nothing kept: the invariant holds.
LEMMA InitInv == Init => IInv
<1> SUFFICES ASSUME Init PROVE IInv
  OBVIOUS
<1>1. TypeOK
  BY Types, Records DEF Init, Pcs
<1>2. ses.playing = FALSE /\ ses.drops # MaxDrops /\ (enc.on => enc.ready)
  BY SessionBounds DEF Init, NoSession, Opened, Closed
<1> QED
  BY <1>1, <1>2 DEF Init, IInv, Decodable, PlayingIsUsable, WatchdogArmed, PendingIsLast,
     AnsweredWithIdr, InStep, DropsCounted, OwnPlace

\* Where prime_parameter_sets leaves the variables when it begins.
LEMMA PrimeBegins ==
  ASSUME NEW why \in Whys, PrimeFor(why)
  PROVE  /\ prime' \in Priming /\ prime'.left = PrimeTries /\ pc' = "prime" /\ pending' = FALSE
         /\ ref' \in {"none", "broken"} /\ (ref # "broken" => ref' = "none")
  BY Records DEF PrimeFor

\* The four callers of prime_parameter_sets.
LEMMA KnownWhys == \A w \in {"describe", "play", "watchdog", "runtime"} : w \in Whys
  BY DEF Whys

\* Every step keeps the types.
LEMMA TypeStep ==
  ASSUME TypeOK, OwnPlace, DropsCounted, [Next]_vars
  PROVE  TypeOK'
<1>0. /\ streaming \in BOOLEAN /\ enc \in Encoder /\ pending \in BOOLEAN /\ pc \in Pcs
      /\ ses \in Session /\ prime \in Priming /\ silent \in {Off} \cup 0 .. Stall
      /\ ref \in {"none", "next", "broken"}
  BY Types
<1> USE SessionBounds, TypesNext, Fields DEF Pcs
<1>1. CASE Camera
  BY <1>1, <1>0 DEF Camera
<1>2. CASE Tick
  BY <1>2, <1>0, OffIsNoTime DEF Tick
<1>3. CASE Accept
  BY <1>3, <1>0 DEF Accept
<1>4. CASE Leave
  BY <1>4, <1>0, Records DEF Leave, Disconnect
<1>5. CASE NoRequest
  BY <1>5, <1>0 DEF NoRequest
<1>6. CASE Setup
  BY <1>6, <1>0, SessionFields DEF Setup
<1>7. CASE DescribeFails
  BY <1>7, <1>0, Records DEF DescribeFails, ShutDown, Disconnect
<1>8. CASE Describe
  BY <1>8, <1>0, Records, PrimeBegins, KnownWhys DEF Describe
<1>9. CASE SendSdp
  BY <1>9, <1>0, Records DEF SendSdp
<1>10. CASE SendSdpFails
  BY <1>10, <1>0, Records DEF SendSdpFails, ShutDown, Disconnect
<1>11. CASE PlayRefused
  BY <1>11, <1>0, Records DEF PlayRefused, ShutDown, Disconnect
<1>12. CASE Play
  BY <1>12, <1>0, Records, PrimeBegins, KnownWhys DEF Play
<1>13. CASE Start
  BY <1>13, <1>0, Records, SessionPairs DEF Start
<1>14. CASE ResponseFails
  BY <1>14, <1>0, Records DEF ResponseFails, Disconnect
<1>15. CASE PrimeDrops
  BY <1>15, <1>0, Records, PrimeField DEF PrimeDrops, NextAttempt, GiveUpPrime, ShutDown, Disconnect, OwnPlace
<1>16. CASE PrimeSkips
  BY <1>16, <1>0, Records, EncoderFields, PrimeField DEF PrimeSkips, NextAttempt, GiveUpPrime, ShutDown, Disconnect, OwnPlace
<1>17. CASE PrimeFails
  BY <1>17, <1>0, Records, EncoderFields DEF PrimeFails, GiveUpPrime, ShutDown, Disconnect
<1>18. CASE PrimeKeeps
  BY <1>18, <1>0, Records, EncoderFields DEF PrimeKeeps, Encodes, IsIdr
<1>19. CASE NotDue
  BY <1>19, <1>0 DEF NotDue
<1>20. CASE Watchdog
  BY <1>20, <1>0, Records, SessionPairs, PrimeBegins, KnownWhys DEF Watchdog, Rebuild
<1>21. CASE WatchdogGivesUp
  BY <1>21, <1>0, Records DEF WatchdogGivesUp, RebuildFails, ShutDown, Disconnect
<1>22. CASE SendPending
  BY <1>22, <1>0, SessionFields DEF SendPending, Due
<1>23. CASE SendFrame
  BY <1>23, <1>0, EncoderFields, SessionFields DEF SendFrame, Due, Encodes, RefAfter
<1>24. CASE SendFails
  BY <1>24, <1>0, Records, EncoderFields DEF SendFails, Due, Disconnect
<1>25. CASE DropFrame
  <2>1. ses.drops # MaxDrops
    BY <1>25 DEF DropFrame, Due, DropsCounted
  <2>2. ses.drops + 1 \in 0 .. MaxDrops
    BY <2>1
  <2> QED
    BY <1>25, <1>0, <2>2, SessionFields DEF DropFrame, Due
<1>26. CASE FrameFails
  BY <1>26, <1>0, EncoderFields, SessionFields DEF FrameFails, Due, Encodes, RefAfter
<1>27. CASE Recover
  BY <1>27, <1>0, Records, SessionFields, PrimeBegins, KnownWhys DEF Recover, Rebuild
<1>28. CASE RecoverGivesUp
  BY <1>28, <1>0, Records DEF RecoverGivesUp, RebuildFails, ShutDown, Disconnect
<1>29. CASE UNCHANGED vars
  BY <1>29, <1>0 DEF vars
<1> QED
  BY <1>1, <1>2, <1>3, <1>4, <1>5, <1>6, <1>7, <1>8, <1>9, <1>10, <1>11, <1>12, <1>13, <1>14, <1>15, <1>16, <1>17, <1>18, <1>19, <1>20, <1>21, <1>22, <1>23, <1>24, <1>25, <1>26, <1>27, <1>28, <1>29
     DEF Next, Request, Prime, Media, FrameDue

\* The invariant without the types.
Sound == /\ Decodable /\ PlayingIsUsable /\ WatchdogArmed /\ PendingIsLast
         /\ AnsweredWithIdr /\ InStep /\ DropsCounted /\ OwnPlace

\* Every step keeps the rest of the invariant, one action after the other.
LEMMA SoundStep ==
  ASSUME TypeOK, Sound, [Next]_vars
  PROVE  Sound'
<1>0. /\ streaming \in BOOLEAN /\ enc \in Encoder /\ pending \in BOOLEAN /\ pc \in Pcs
      /\ ses \in Session /\ prime \in Priming /\ silent \in {Off} \cup 0 .. Stall
      /\ ref \in {"none", "next", "broken"}
  BY Types
<1> USE SessionBounds, Fields DEF Sound, Decodable, PlayingIsUsable, WatchdogArmed, PendingIsLast,
        AnsweredWithIdr, InStep, DropsCounted, OwnPlace
<1>1. CASE Camera
  BY <1>1, <1>0 DEF Camera
<1>2. CASE Tick
  BY <1>2, <1>0, OffIsNoTime DEF Tick
<1>3. CASE Accept
  BY <1>3, <1>0 DEF Accept
<1>4. CASE Leave
  BY <1>4, <1>0, Records DEF Leave, Disconnect
<1>5. CASE NoRequest
  BY <1>5, <1>0 DEF NoRequest
<1>6. CASE Setup
  BY <1>6, <1>0, SessionFields DEF Setup
<1>7. CASE DescribeFails
  BY <1>7, <1>0, Records DEF DescribeFails, ShutDown, Disconnect
<1>8. CASE Describe
  BY <1>8, <1>0, Records, PrimeBegins, KnownWhys DEF Describe
<1>9. CASE SendSdp
  BY <1>9, <1>0, Records DEF SendSdp
<1>10. CASE SendSdpFails
  BY <1>10, <1>0, Records DEF SendSdpFails, ShutDown, Disconnect
<1>11. CASE PlayRefused
  BY <1>11, <1>0, Records DEF PlayRefused, ShutDown, Disconnect
<1>12. CASE Play
  BY <1>12, <1>0, Records, PrimeBegins, KnownWhys DEF Play
<1>13. CASE Start
  BY <1>13, <1>0, Records, SessionPairs DEF Start
<1>14. CASE ResponseFails
  BY <1>14, <1>0, Records DEF ResponseFails, Disconnect
<1>15. CASE PrimeDrops
  BY <1>15, <1>0, Records, PrimeField DEF PrimeDrops, NextAttempt, GiveUpPrime, ShutDown, Disconnect
<1>16. CASE PrimeSkips
  BY <1>16, <1>0, Records, EncoderFields, PrimeField DEF PrimeSkips, NextAttempt, GiveUpPrime, ShutDown, Disconnect, Encodes
<1>17. CASE PrimeFails
  BY <1>17, <1>0, Records, EncoderFields DEF PrimeFails, GiveUpPrime, ShutDown, Disconnect, Fails, Encodes
<1>18. CASE PrimeKeeps
  <2>1. Advanced.on /\ Advanced.ready /\ Advanced.at = 1 % Gop
    <3>1. enc.on /\ enc.at = 0
      BY <1>18 DEF PrimeKeeps, Encodes, IsIdr
    <3>2. enc.ready
      BY <3>1
    <3>3. Advanced.on = enc.on /\ Advanced.ready = enc.ready /\ Advanced.at = (enc.at + 1) % Gop
      BY <1>0, EncoderFields
    <3>4. enc.at + 1 = 1
      BY <3>1
    <3> QED
      BY <3>1, <3>2, <3>3, <3>4
  <2>2. pending' = TRUE /\ pc' \in {"sdp", "start", "loop"} /\ enc' = Advanced
    BY <1>18 DEF PrimeKeeps
  <2> QED
    BY <1>18, <2>1, <2>2 DEF PrimeKeeps
<1>19. CASE NotDue
  BY <1>19, <1>0 DEF NotDue
<1>20. CASE Watchdog
  BY <1>20, <1>0, Records, SessionPairs, PrimeBegins, KnownWhys DEF Watchdog, Rebuild
<1>21. CASE WatchdogGivesUp
  BY <1>21, <1>0, Records DEF WatchdogGivesUp, RebuildFails, ShutDown, Disconnect
<1>22. CASE SendPending
  BY <1>22, <1>0, SessionFields DEF SendPending, Due
<1>23. CASE SendFrame
  BY <1>23, <1>0, EncoderFields, SessionFields DEF SendFrame, Due, Encodes, RefAfter
<1>24. CASE SendFails
  BY <1>24, <1>0, Records, EncoderFields DEF SendFails, Due, Disconnect
<1>25. CASE DropFrame
  BY <1>25, <1>0, SessionFields DEF DropFrame, Due
<1>26. CASE FrameFails
  BY <1>26, <1>0, EncoderFields, SessionFields DEF FrameFails, Due, Encodes, RefAfter, Fails
<1>27. CASE Recover
  BY <1>27, <1>0, Records, SessionFields, PrimeBegins, KnownWhys DEF Recover, Rebuild
<1>28. CASE RecoverGivesUp
  BY <1>28, <1>0, Records DEF RecoverGivesUp, RebuildFails, ShutDown, Disconnect
<1>29. CASE UNCHANGED vars
  BY <1>29, <1>0 DEF vars
<1> QED
  BY <1>1, <1>2, <1>3, <1>4, <1>5, <1>6, <1>7, <1>8, <1>9, <1>10, <1>11, <1>12, <1>13, <1>14, <1>15, <1>16, <1>17, <1>18, <1>19, <1>20, <1>21, <1>22, <1>23, <1>24, <1>25, <1>26, <1>27, <1>28, <1>29
     DEF Next, Request, Prime, Media, FrameDue

\* Every step of the session keeps the invariant.
LEMMA Step ==
  ASSUME IInv, [Next]_vars
  PROVE  IInv'
<1>1. TypeOK /\ Sound
  BY DEF IInv, Sound
<1>2. TypeOK'
  BY <1>1, TypeStep DEF IInv
<1>3. Sound'
  BY <1>1, SoundStep
<1> QED
  BY <1>2, <1>3 DEF IInv, Sound

\* The invariant holds whatever the encoder, the camera and the clients do, for
\* every GOP length, number of attempts, drop limit and timeout.
THEOREM SessionInvariant == Spec => []IInv
<1>1. Init => IInv
  BY InitInv
<1>2. IInv /\ [Next]_vars => IInv'
  BY Step
<1> QED
  BY <1>1, <1>2, PTL DEF Spec

\* The variables stay in their ranges: the drop counter never passes its limit and
\* the position never leaves the GOP.
THEOREM SessionTypes == Spec => []TypeOK
<1>1. IInv => TypeOK
  BY DEF IInv
<1> QED
  BY <1>1, SessionInvariant, PTL

\* No client is ever sent a frame whose reference frames it does not have: playback
\* and every recovery start with an IDR (prime_parameter_sets, the kept IDR).
THEOREM StreamDecodable == Spec => []Decodable
<1>1. IInv => Decodable
  BY DEF IInv
<1> QED
  BY <1>1, SessionInvariant, PTL

\* A playing client never waits on an encoder that is shut down or whose queues
\* were stopped: handle_client recovers it or leaves.
THEOREM PlayingUsable == Spec => []PlayingIsUsable
<1>1. IInv => PlayingIsUsable
  BY DEF IInv
<1> QED
  BY <1>1, SessionInvariant, PTL

\* The RTP watchdog is armed while a client plays, but between a rebuild and the
\* IDR that is sent next.
THEOREM Armed == Spec => []WatchdogArmed
<1>1. IInv => WatchdogArmed
  BY DEF IInv
<1> QED
  BY <1>1, SessionInvariant, PTL
=============================================================================
