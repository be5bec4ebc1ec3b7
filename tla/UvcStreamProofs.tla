-------------------------- MODULE UvcStreamProofs --------------------------
(***************************************************************************)
(* Proofs about the life of a UVC stream, for any set of handles, any      *)
(* number of profiles, faults and stops.                                   *)
(***************************************************************************)
EXTENDS UvcStream, TLAPS

\* The initial state satisfies the invariant.
LEMMA InitInv == Init => IInv
  BY HandleAssumption, StreamBoundsAssumption
     DEF Init, IInv, TypeOK, Cameras, Flags, States, Positions, StreamPcs, HandleOfTask,
         HandleOfDriver, EventsOfOpen, NoStreamLeaks, Without, Fresh, Sharing, Stages

-----------------------------------------------------------------------------
(* Types.  An update of one field keeps a record in its set.               *)

\* Changing one of the flags.
LEMMA FlagField ==
  ASSUME NEW f \in Flags, NEW v \in BOOLEAN
  PROVE  /\ [f EXCEPT !.connected = v] \in Flags
         /\ [f EXCEPT !.streaming = v] \in Flags
         /\ [f EXCEPT !.formatError = v] \in Flags
         /\ [f EXCEPT !.startRequested = v] \in Flags
         /\ [f EXCEPT !.stopRequested = v] \in Flags
         /\ [f EXCEPT !.capturing = v] \in Flags
         /\ [f EXCEPT !.stopPending = v] \in Flags
         /\ [f EXCEPT !.streamStopped = v] \in Flags
         /\ [f EXCEPT !.renderStopped = v] \in Flags
         /\ [f EXCEPT !.restartBlocked = v] \in Flags
         /\ [f EXCEPT !.startEvent = v] \in Flags
  BY DEF Flags

\* Changing s_state.
LEMMA StateField ==
  ASSUME NEW f \in Flags, NEW s \in States
  PROVE  [f EXCEPT !.state = s] \in Flags
  BY DEF Flags

\* Changing one field of the camera.
LEMMA CameraField ==
  ASSUME NEW c \in Cameras, NEW v \in BOOLEAN, NEW hs \in SUBSET Handles, NEW n \in Nat
  PROVE  /\ [c EXCEPT !.plugged = v] \in Cameras
         /\ [c EXCEPT !.announced = v] \in Cameras
         /\ [c EXCEPT !.flowing = v] \in Cameras
         /\ [c EXCEPT !.gone = hs] \in Cameras
         /\ [c EXCEPT !.alive = hs] \in Cameras
         /\ [c EXCEPT !.faults = n] \in Cameras
  BY DEF Cameras

\* Changing one field of stream_task's position.
LEMMA PositionField ==
  ASSUME NEW p \in Positions, NEW pc \in StreamPcs, NEW h \in Handles \cup {NoHandle},
         NEW n \in 0 .. Profiles
  PROVE  /\ [p EXCEPT !.pc = pc] \in Positions
         /\ [p EXCEPT !.ret = pc] \in Positions
         /\ [p EXCEPT !.stream = h] \in Positions
         /\ [p EXCEPT !.attempt = n] \in Positions
  BY DEF Positions

\* What the fields hold.
LEMMA Fields ==
  ASSUME TypeOK
  PROVE  /\ flag.stopPending \in BOOLEAN /\ flag.restartBlocked \in BOOLEAN
         /\ flag.state \in States
         /\ cam.gone \in SUBSET Handles /\ cam.alive \in SUBSET Handles
         /\ cam.faults \in Nat /\ cam.faults + 1 \in Nat
         /\ st.pc \in StreamPcs /\ st.ret \in StreamPcs /\ st.stream \in Handles \cup {NoHandle}
         /\ st.attempt \in 0 .. Profiles /\ st \in Positions /\ flag \in Flags /\ cam \in Cameras
         /\ DeviceState \in States /\ ErrorState \in States
         /\ RetryState \in States /\ StartState \in States
<1>1. flag.stopPending \in BOOLEAN /\ flag.restartBlocked \in BOOLEAN /\ flag.state \in States
  BY DEF TypeOK, Flags
<1>2. cam.gone \in SUBSET Handles /\ cam.alive \in SUBSET Handles /\ cam.faults \in Nat
  BY DEF TypeOK, Cameras
<1>3. /\ st.pc \in StreamPcs /\ st.ret \in StreamPcs /\ st.stream \in Handles \cup {NoHandle}
      /\ st.attempt \in 0 .. Profiles
  BY DEF TypeOK, Positions
<1>4. DeviceState \in States
  BY DEF States, DeviceState
<1>5. ErrorState \in States /\ RetryState \in States /\ StartState \in States
  BY <1>1 DEF States, ErrorState, RetryState, StartState
<1>6. cam.faults + 1 \in Nat
  BY <1>2
<1> QED
  BY <1>1, <1>2, <1>3, <1>4, <1>5, <1>6 DEF TypeOK

\* A failure keeps the camera's type.
LEMMA FaultType ==
  ASSUME TypeOK, NEW c \in Cameras, c.faults = cam.faults, Fault(c)
  PROVE  cam' \in Cameras
<1>1. c.faults + 1 \in Nat
  BY Fields
<1> QED
  BY <1>1, CameraField DEF Fault

\* The steps of the camera and of the driver task keep the types.
LEMMA EnvironmentTypes ==
  TypeOK /\ (Plug \/ Unplug \/ Stall \/ Driver \/ TransferError \/ BadFrame) => TypeOK'
<1> SUFFICES ASSUME TypeOK, Plug \/ Unplug \/ Stall \/ Driver \/ TransferError \/ BadFrame
             PROVE  TypeOK'
  OBVIOUS
<1> USE Fields
<1>1. CASE Plug
  BY <1>1, CameraField DEF Plug, TypeOK
<1>2. CASE Unplug
  <2> DEFINE c == [cam EXCEPT !.plugged = FALSE, !.flowing = FALSE, !.alive = {},
                              !.gone = @ \cup cam.alive]
  <2>1. c \in Cameras /\ c.faults = cam.faults
    BY DEF Cameras
  <2>2. cam' \in Cameras
    BY <1>2, <2>1, FaultType DEF Unplug
  <2> QED
    BY <1>2, <2>2 DEF Unplug, TypeOK
<1>3. CASE Stall
  <2>1. [cam EXCEPT !.flowing = FALSE] \in Cameras
    BY CameraField
  <2>2. cam' \in Cameras
    BY <1>3, <2>1, FaultType DEF Stall, Cameras
  <2> QED
    BY <1>3, <2>2 DEF Stall, TypeOK
<1>4. CASE Connect
  <2>1. cam' \in Cameras
    BY <1>4, CameraField DEF Connect
  <2>2. "present" \in States
    BY DEF States
  <2>3. flag' \in Flags
    BY <1>4, <2>2, FlagField, StateField DEF Connect
  <2> QED
    BY <1>4, <2>1, <2>3 DEF Connect, TypeOK
<1>5. CASE Disconnect
  <2>1. "disconnected" \in States
    BY DEF States
  <2>2. flag' \in Flags
    BY <1>5, <2>1, FlagField, StateField DEF Disconnect
  <2>3. PICK h \in cam.gone : /\ drv' = [pc |-> "take", stream |-> h]
                              /\ cam' = [cam EXCEPT !.gone = @ \ {h}]
    BY <1>5 DEF Disconnect
  <2>4. cam' \in Cameras
    BY <2>3, CameraField
  <2> QED
    BY <1>5, <2>2, <2>3, <2>4 DEF Disconnect, TypeOK
<1>6. CASE DisconnectTake
  <2>1. drv.stream \in Handles \cup {NoHandle}
    BY DEF TypeOK
  <2>2. drv' \in [pc : {"idle", "take", "close"}, stream : Handles \cup {NoHandle}]
    <3>1. [drv EXCEPT !.pc = "close"] \in [pc : {"idle", "take", "close"},
                                            stream : Handles \cup {NoHandle}]
      BY DEF TypeOK
    <3> QED
      BY <1>6, <3>1 DEF DisconnectTake
  <2> QED
    BY <1>6, <2>2 DEF DisconnectTake, TypeOK
<1>7. CASE DisconnectClose
  <2>1. flag' \in Flags
    BY <1>7, FlagField DEF DisconnectClose
  <2> QED
    BY <1>7, <2>1 DEF DisconnectClose, TypeOK
<1>8. CASE TransferError
  <2>1. [cam EXCEPT !.flowing = FALSE] \in Cameras
    BY CameraField
  <2>2. cam' \in Cameras
    BY <1>8, <2>1, FaultType DEF TransferError, Cameras
  <2>4. flag' \in Flags
    BY <1>8, FlagField, StateField DEF TransferError
  <2> QED
    BY <1>8, <2>2, <2>4 DEF TransferError, TypeOK
<1>9. CASE BadFrame
  <2>1. "error" \in States
    BY DEF States
  <2>2. flag' \in Flags
    BY <1>9, <2>1, FlagField, StateField DEF BadFrame
  <2>3. cam' \in Cameras
    BY <1>9, FaultType DEF BadFrame
  <2> QED
    BY <1>9, <2>2, <2>3 DEF BadFrame, TypeOK
<1> QED
  BY <1>1, <1>2, <1>3, <1>4, <1>5, <1>6, <1>7, <1>8, <1>9 DEF Driver

\* The end of a stop touches the flags of the stop and who is where in
\* maybe_finish_stop, nothing else.
LEMMA StagesTypes ==
  ASSUME TypeOK, EndOfStop
  PROVE  /\ TypeOK' /\ UNCHANGED <<cam, open, owned, st, drv, mpc, apc, stops>>
         /\ flag'.connected = flag.connected
<1>1. \A p \in Finishers, s \in Stages : [fin EXCEPT ![p] = s] \in [Finishers -> Stages]
  BY DEF TypeOK
<1>2. /\ "stream_task" \in Finishers /\ "render_task" \in Finishers
      /\ Readers \subseteq Finishers
  BY DEF Finishers
<1>3. flag \in Flags /\ fin \in [Finishers -> Stages]
  BY DEF TypeOK
<1> DEFINE Kept == /\ fin' \in [Finishers -> Stages] /\ flag' \in Flags
                  /\ flag'.connected = flag.connected /\ StopStage
<1>4. RenderAcknowledge => Kept
  <2>1. [flag EXCEPT !.renderStopped = TRUE] \in Flags
    BY <1>3, FlagField
  <2>2. [flag EXCEPT !.renderStopped = TRUE].connected = flag.connected
    BY <1>3 DEF Flags
  <2>3. [fin EXCEPT !["render_task"] = "pending"] \in [Finishers -> Stages]
    BY <1>1, <1>2 DEF Stages
  <2> QED
    BY <2>1, <2>2, <2>3 DEF RenderAcknowledge
<1>5. \A p \in Finishers, at, next \in Stages, passed \in BOOLEAN :
         Stage(p, at, passed, next) => Kept
  BY <1>1, <1>3 DEF Stage, Stages
<1>6. \A p \in Finishers : FinishStop(p) => Kept
  <2>1. [flag EXCEPT !.stopPending = FALSE] \in Flags
    BY <1>3, FlagField
  <2>2. [flag EXCEPT !.stopPending = FALSE].connected = flag.connected
    BY <1>3 DEF Flags
  <2>3. \A p \in Finishers : [fin EXCEPT ![p] = "out"] \in [Finishers -> Stages]
    BY <1>1 DEF Stages
  <2> QED
    BY <2>1, <2>2, <2>3 DEF FinishStop
<1>7. \A p \in Finishers : MaybeFinishStop(p) => Kept
  <2>1. /\ flag.stopPending \in BOOLEAN /\ flag.streamStopped \in BOOLEAN
        /\ flag.renderStopped \in BOOLEAN /\ CopyActive \in BOOLEAN
    BY <1>3 DEF Flags, CopyActive
  <2> QED
    BY <1>5, <2>1 DEF MaybeFinishStop, Stages
<1>8. \A r \in Readers : CopyCheck(r) \/ CopyReserve(r) \/ CopyEnds(r) => Kept
  <2>1. flag.streaming \in BOOLEAN
    BY <1>3 DEF Flags
  <2> QED
    BY <1>2, <1>5, <2>1 DEF CopyCheck, CopyReserve, CopyEnds, Stages
<1>9. Kept
  BY <1>2, <1>4, <1>6, <1>7, <1>8 DEF EndOfStop, Finishing, Reader
<1> QED
  BY <1>9 DEF StopStage, TypeOK

\* So do the steps of the main loop and of a stop keep the types.
LEMMA OtherTypes ==
  TypeOK /\ (MainLoop \/ StopCall \/ StopProgress) => TypeOK'
<1> SUFFICES ASSUME TypeOK, MainLoop \/ StopCall \/ StopProgress
             PROVE  TypeOK'
  OBVIOUS
<1> USE Fields
<1>1. flag' \in Flags
  <2>1. CASE MainPoll
    BY <2>1 DEF MainPoll, vars
  <2>2. CASE StartCall
    BY <2>2, FlagField, StateField DEF StartCall
  <2>3. CASE MainLoop /\ ~MainPoll /\ ~StartCall
    BY <2>3, FlagField DEF MainLoop, StartStep
  <2>4. CASE StopCall \/ StopProgress
    BY <2>4, FlagField DEF StopCall, StopProgress, StopStep
  <2> QED
    BY <2>1, <2>2, <2>3, <2>4 DEF MainLoop
<1>2. UNCHANGED <<cam, open, owned, st, drv, fin>>
  BY DEF MainLoop, MainPoll, StartCall, StartStep, StopCall, StopProgress, StopStep,
         OtherStep, vars
<1>3. mpc' \in {"idle", "clear stop", "request", "signal"}
  BY DEF MainLoop, MainPoll, StartCall, StartStep, StopCall, StopProgress, StopStep,
         OtherStep, vars, TypeOK
<1>4. apc' \in {"idle", "expect stream", "expect render", "request", "signal"}
  BY DEF MainLoop, MainPoll, StartCall, StartStep, StopCall, StopProgress, StopStep,
         OtherStep, vars, TypeOK
<1>5. stops' \in Nat
  <2>1. stops \in Nat /\ (stops' = stops + 1 \/ stops' = stops)
    BY DEF MainLoop, MainPoll, StartCall, StartStep, StopCall, StopProgress, OtherStep, vars,
           TypeOK
  <2> QED
    BY <2>1
<1> QED
  BY <1>1, <1>2, <1>3, <1>4, <1>5 DEF TypeOK

\* So do those of stream_task.
LEMMA StreamTypes == IInv /\ StreamTask => TypeOK'
<1> SUFFICES ASSUME IInv, StreamTask PROVE TypeOK'
  OBVIOUS
<1> USE Fields
<1>1. TypeOK
  BY DEF IInv
<1>2. UNCHANGED <<drv, mpc, apc, stops>>
  BY DEF StreamTask, TakeStart, LeaveLoop, LoopWait, Negotiate, TryProfile, OpenSucceeds,
         OpenFails, CheckOpened, Mark, Checks, Check, PrintDescriptor, GetFormat, StartSucceeds,
         StartFails, NotStarted, BeginStreaming, WatchEnds, StopStreaming, Take, Close, GiveUp,
         GiveUpCapture, SayError, Reopen, EndSession, AcknowledgeStop, Local, FlagStep
<1>3. open' \in SUBSET Handles /\ owned' \in Handles \cup {NoHandle}
  BY <1>1 DEF StreamTask, TakeStart, LeaveLoop, LoopWait, Negotiate, TryProfile, OpenSucceeds,
         OpenFails, CheckOpened, Mark, Checks, Check, PrintDescriptor, GetFormat, StartSucceeds,
         StartFails, NotStarted, BeginStreaming, WatchEnds, StopStreaming, Take, Close, GiveUp,
         GiveUpCapture, SayError, Reopen, EndSession, AcknowledgeStop, Local, FlagStep, TypeOK
<1>4. cam' \in Cameras
  <2>1. CASE OpenSucceeds \/ StartSucceeds \/ Close
    <3>1. CASE OpenSucceeds
      <4>1. PICK h \in Handles : cam' = [cam EXCEPT !.alive = @ \cup {h}]
        BY <3>1 DEF OpenSucceeds
      <4>2. cam.alive \cup {h} \in SUBSET Handles
        BY <1>1
      <4> QED
        BY <1>1, <4>1, <4>2, CameraField
    <3>2. CASE StartSucceeds
      <4>1. (st.stream \in cam.alive) \in BOOLEAN
        OBVIOUS
      <4> QED
        BY <1>1, <3>2, <4>1, CameraField, Zenon DEF StartSucceeds
    <3>3. CASE Close
      <4>1. cam.gone \ {st.stream} \in SUBSET Handles /\ cam.alive \ {st.stream} \in SUBSET Handles
        BY <1>1
      <4> QED
        BY <1>1, <3>3, <4>1, CameraField DEF Close
    <3> QED
      BY <2>1, <3>1, <3>2, <3>3
  <2>2. CASE OpenFails \/ StartFails
    BY <1>1, <2>2, FaultType DEF OpenFails, StartFails
  <2>3. CASE ~(OpenSucceeds \/ StartSucceeds \/ Close \/ OpenFails \/ StartFails)
    BY <1>1, <2>3
       DEF StreamTask, TakeStart, LeaveLoop, LoopWait, Negotiate, TryProfile, CheckOpened, Mark,
           Checks, Check, PrintDescriptor, GetFormat, NotStarted, BeginStreaming, WatchEnds,
           StopStreaming, Take, GiveUp, GiveUpCapture, SayError, Reopen, EndSession,
           AcknowledgeStop, Local, FlagStep
  <2> QED
    BY <2>1, <2>2, <2>3
<1>5. flag' \in Flags
  <2>1. /\ "absent" \in States /\ "negotiating" \in States /\ "present" \in States
        /\ "streaming" \in States /\ "error" \in States
    BY DEF States
  <2>2. CASE \/ TakeStart \/ LoopWait \/ Negotiate \/ Mark \/ Close \/ NotStarted
             \/ BeginStreaming \/ StopStreaming
    <3>1. CASE TakeStart
      BY <1>1, <3>1, FlagField DEF TakeStart
    <3>2. CASE LoopWait
      BY <1>1, <2>1, <3>2, StateField DEF LoopWait
    <3>3. CASE Negotiate
      BY <1>1, <2>1, <3>3, FlagField, StateField DEF Negotiate
    <3>4. CASE Mark
      BY <1>1, <3>4, FlagField DEF Mark
    <3>5. CASE Close
      BY <1>1, <3>5, FlagField DEF Close
    <3>6. CASE NotStarted
      BY <1>1, <3>6, StateField DEF NotStarted
    <3>7. CASE BeginStreaming
      BY <1>1, <2>1, <3>7, FlagField, StateField DEF BeginStreaming
    <3>8. CASE StopStreaming
      BY <1>1, <3>8, FlagField DEF StopStreaming
    <3> QED
      BY <2>2, <3>1, <3>2, <3>3, <3>4, <3>5, <3>6, <3>7, <3>8
  <2>3. CASE GiveUp \/ GiveUpCapture \/ SayError \/ Reopen
    <3>1. CASE GiveUp \/ GiveUpCapture
      BY <1>1, <3>1, FlagField DEF GiveUp, GiveUpCapture
    <3>2. CASE SayError
      BY <1>1, <2>1, <3>2, StateField DEF SayError
    <3>3. CASE Reopen
      BY <1>1, <3>3, StateField DEF Reopen
    <3> QED
      BY <2>3, <3>1, <3>2, <3>3
  <2>4. CASE EndSession \/ AcknowledgeStop
    <3>1. CASE EndSession /\ flag.stopRequested
      <4>1. [[flag EXCEPT !.streaming = FALSE] EXCEPT !.startRequested = FALSE] \in Flags
        BY <1>1, FlagField
      <4> QED
        BY <1>1, <3>1, <4>1, StateField DEF EndSession
    <3>2. CASE EndSession /\ ~flag.stopRequested
      BY <1>1, <3>2, FlagField DEF EndSession
    <3>3. CASE AcknowledgeStop
      BY <1>1, <3>3, FlagField DEF AcknowledgeStop
    <3> QED
      BY <2>4, <3>1, <3>2, <3>3
  <2>6. CASE \/ LeaveLoop \/ TryProfile \/ OpenSucceeds \/ OpenFails \/ CheckOpened \/ Checks
             \/ PrintDescriptor \/ GetFormat \/ StartSucceeds \/ StartFails \/ WatchEnds \/ Take
    <3>1. UNCHANGED flag
      BY <2>6 DEF LeaveLoop, TryProfile, OpenSucceeds, OpenFails, CheckOpened, Checks, Check,
                  PrintDescriptor, GetFormat, StartSucceeds, StartFails, WatchEnds, Take, Local
    <3> QED
      BY <1>1, <3>1
  <2> QED
    BY <2>2, <2>3, <2>4, <2>6 DEF StreamTask
<1>6. st' \in Positions
  <2>1. \A pc \in StreamPcs : Go(pc) => st' \in Positions
    BY <1>1, PositionField DEF Go
  <2>2. \A pc \in StreamPcs : CloseThen(pc) => st' \in Positions
    <3>1. "take" \in StreamPcs
      BY DEF StreamPcs
    <3> QED
      <4> SUFFICES ASSUME NEW pc \in StreamPcs, CloseThen(pc) PROVE st' \in Positions
        OBVIOUS
      <4>1. [st EXCEPT !.pc = "take"] \in Positions
        BY <1>1, <3>1, PositionField
      <4>2. [[st EXCEPT !.pc = "take"] EXCEPT !.ret = pc] \in Positions
        BY <1>1, <4>1, PositionField
      <4> QED
        BY <4>2 DEF CloseThen
  <2>3. CASE TakeStart \/ LeaveLoop \/ LoopWait
    BY <1>1, <2>1, <2>3 DEF TakeStart, LeaveLoop, LoopWait, StreamPcs
  <2>4. CASE Negotiate
    <3>1. "attempt" \in StreamPcs /\ "wait" \in StreamPcs
      BY DEF StreamPcs
    <3>2. 0 \in 0 .. Profiles
      BY StreamBoundsAssumption
    <3> QED
      BY <2>4, <3>1, <3>2 DEF Negotiate, Positions
  <2>5. CASE TryProfile
    <3>1. /\ 0 \in 0 .. Profiles
          /\ st.attempt < Profiles => st.attempt + 1 \in 0 .. Profiles
      BY <1>1, StreamBoundsAssumption
    <3>2. "opening" \in StreamPcs /\ "failed" \in StreamPcs
      BY DEF StreamPcs
    <3>3. \A pc \in StreamPcs, n \in 0 .. Profiles :
            [[st EXCEPT !.pc = pc] EXCEPT !.attempt = n] \in Positions
      BY <1>1, PositionField
    <3> QED
      BY <2>5, <3>1, <3>2, <3>3 DEF TryProfile
  <2>6. CASE OpenSucceeds
    <3>1. PICK h \in Handles : st' = [st EXCEPT !.pc = "opened", !.stream = h]
      BY <2>6 DEF OpenSucceeds
    <3>2. "opened" \in StreamPcs
      BY DEF StreamPcs
    <3> QED
      BY <1>1, <3>1, <3>2, PositionField
  <2>7. CASE OpenFails \/ CheckOpened \/ Mark \/ PrintDescriptor \/ GetFormat \/ StartSucceeds
    BY <2>1, <2>7 DEF OpenFails, CheckOpened, Mark, PrintDescriptor, GetFormat, StartSucceeds,
                      StreamPcs
  <2>8. CASE Checks \/ StartFails \/ StopStreaming
    BY <2>1, <2>2, <2>8 DEF Checks, Check, StartFails, StopStreaming, StreamPcs
  <2>9. CASE NotStarted \/ BeginStreaming \/ WatchEnds
    BY <2>1, <2>9 DEF NotStarted, BeginStreaming, WatchEnds, StreamPcs
  <2>10. CASE Take \/ Close
    <3>1. "attempt" \in StreamPcs /\ "close" \in StreamPcs /\ "wait" \in StreamPcs
      BY DEF StreamPcs
    <3>2. \A pc \in StreamPcs :
            [[[st EXCEPT !.pc = pc] EXCEPT !.stream = NoHandle] EXCEPT !.ret = "wait"] \in Positions
      BY <1>1, <3>1, PositionField
    <3> QED
      BY <1>1, <2>1, <2>10, <3>1, <3>2 DEF Take, Close
  <2>11. CASE GiveUp \/ GiveUpCapture \/ SayError \/ Reopen \/ EndSession \/ AcknowledgeStop
    BY <2>1, <2>11 DEF GiveUp, GiveUpCapture, SayError, Reopen, EndSession, AcknowledgeStop,
                       StreamPcs
  <2> QED
    BY <2>3, <2>4, <2>5, <2>6, <2>7, <2>8, <2>9, <2>10, <2>11 DEF StreamTask
<1>7. fin' \in [Finishers -> Stages]
  <2>1. CASE AcknowledgeStop
    BY <1>1, <2>1 DEF AcknowledgeStop, Finishers, Stages, TypeOK
  <2>2. CASE ~AcknowledgeStop
    <3>1. UNCHANGED fin
      BY <2>2
         DEF StreamTask, TakeStart, LeaveLoop, LoopWait, Negotiate, TryProfile, OpenSucceeds,
             OpenFails, CheckOpened, Mark, Checks, Check, PrintDescriptor, GetFormat,
             StartSucceeds, StartFails, NotStarted, BeginStreaming, WatchEnds, StopStreaming,
             Take, Close, GiveUp, GiveUpCapture, SayError, Reopen, EndSession, Local, FlagStep
    <3> QED
      BY <1>1, <3>1 DEF TypeOK
  <2> QED
    BY <2>1, <2>2
<1> QED
  BY <1>1, <1>2, <1>3, <1>4, <1>5, <1>6, <1>7 DEF TypeOK

-----------------------------------------------------------------------------
(* Handles.                                                                *)

HandlesOK == HandleOfTask /\ HandleOfDriver /\ EventsOfOpen /\ NoStreamLeaks

\* Updates of the position of stream_task.
LEMMA Went ==
  ASSUME st \in Positions, NEW pc
  PROVE  /\ Go(pc) => st'.pc = pc /\ st'.stream = st.stream /\ st'.ret = st.ret
         /\ CloseThen(pc) => st'.pc = "take" /\ st'.stream = st.stream /\ st'.ret = pc
  BY DEF Go, CloseThen, Positions

\* A step of stream_task that neither gets nor loses a handle.
LEMMA Moves ==
  ASSUME IInv, UNCHANGED <<open, owned, drv>>,
         cam'.gone = cam.gone, cam'.alive = cam.alive, flag'.connected = flag.connected,
         st'.stream = st.stream, st'.ret \in {st.ret, "wait", "attempt", "end", "closed"},
         \/ st.pc \in Without /\ st'.pc \in Without \ {"opening"}
         \/ st.pc \in Fresh /\ st'.pc \in Fresh
         \/ st.pc \in Sharing /\ st'.pc \in Sharing
  PROVE  HandlesOK'
<1>1. HandleOfTask'
  BY DEF IInv, HandleOfTask, Without, Fresh, Sharing
<1>2. HandleOfDriver'
  BY DEF IInv, HandleOfDriver, Without, Fresh, Sharing
<1>3. NoStreamLeaks'
  BY DEF IInv, NoStreamLeaks, HandleOfTask, Without, Fresh, Sharing
<1> QED
  BY <1>1, <1>2, <1>3 DEF HandlesOK, IInv, EventsOfOpen

\* A step of anybody else that touches no handle.
LEMMA Quiet ==
  ASSUME IInv, UNCHANGED <<open, owned, st, drv>>,
         cam'.gone \cup cam'.alive \subseteq cam.gone \cup cam.alive,
         cam'.gone \cap cam'.alive = {},
         flag'.connected => flag.connected \/ drv.pc = "idle"
  PROVE  HandlesOK'
<1>1. HandleOfTask' /\ NoStreamLeaks'
  BY DEF IInv, HandleOfTask, NoStreamLeaks
<1>2. HandleOfDriver'
  BY DEF IInv, HandleOfDriver
<1> QED
  BY <1>1, <1>2 DEF HandlesOK, IInv, EventsOfOpen

\* The camera, the callbacks that touch no handle, the main loop, a stop.
LEMMA QuietSteps ==
  ASSUME IInv, \/ Plug \/ Unplug \/ Stall \/ Connect \/ TransferError \/ BadFrame
               \/ EndOfStop \/ MainLoop \/ StopCall \/ StopProgress
  PROVE  HandlesOK'
<1>1. UNCHANGED <<open, owned, st, drv>>
  BY StagesTypes
     DEF IInv, Plug, Unplug, Stall, Connect, TransferError, BadFrame, MainLoop, MainPoll,
         StartCall, StartStep, StopCall, StopProgress, StopStep, OtherStep, vars
<1>2. cam'.gone \cup cam'.alive \subseteq cam.gone \cup cam.alive /\ cam'.gone \cap cam'.alive = {}
  <2>1. cam \in Cameras /\ cam.gone \cap cam.alive = {}
    BY DEF IInv, TypeOK, EventsOfOpen
  <2>2. CASE Plug \/ Unplug \/ Stall
    BY <2>1, <2>2 DEF Plug, Unplug, Stall, Fault, Cameras
  <2>3. CASE Connect \/ TransferError \/ BadFrame
    BY <2>1, <2>3 DEF Connect, TransferError, BadFrame, Fault, Cameras
  <2>4. CASE EndOfStop \/ MainLoop \/ StopCall \/ StopProgress
    <3>1. UNCHANGED cam
      BY <2>4, StagesTypes DEF IInv, MainLoop, MainPoll, StartCall, StartStep,
                  StopCall, StopProgress, StopStep, OtherStep, vars
    <3> QED
      BY <2>1, <3>1
  <2> QED
    BY <2>2, <2>3, <2>4
<1>3. flag'.connected => flag.connected \/ drv.pc = "idle"
  <2>1. flag \in Flags
    BY DEF IInv, TypeOK
  <2>2. CASE Plug \/ Unplug \/ Stall \/ Connect \/ TransferError \/ BadFrame
    BY <2>1, <2>2 DEF Plug, Unplug, Stall, Connect, TransferError, BadFrame
  <2>3. CASE EndOfStop \/ MainPoll
    BY <2>1, <2>3, StagesTypes DEF IInv, MainPoll, vars
  <2>4. CASE MainLoop /\ ~MainPoll
    BY <2>1, <2>4 DEF MainLoop, StartCall, StartStep, Flags
  <2>5. CASE StopCall \/ StopProgress
    BY <2>1, <2>5 DEF StopCall, StopProgress, StopStep, Flags
  <2> QED
    BY <2>2, <2>3, <2>4, <2>5
<1> QED
  BY <1>1, <1>2, <1>3, Quiet

\* The disconnect callback.
LEMMA DisconnectSteps ==
  ASSUME IInv, Disconnect \/ DisconnectTake \/ DisconnectClose
  PROVE  HandlesOK'
<1> USE DEF IInv
<1>1. CASE Disconnect
  <2>1. PICK h \in cam.gone : /\ drv' = [pc |-> "take", stream |-> h]
                              /\ cam' = [cam EXCEPT !.gone = @ \ {h}]
    BY <1>1 DEF Disconnect
  <2>2. cam'.gone = cam.gone \ {h} /\ cam'.alive = cam.alive /\ h \in Handles
    BY <2>1 DEF TypeOK, Cameras
  <2>3. ~flag'.connected /\ UNCHANGED <<open, owned, st>> /\ drv.pc = "idle"
    BY <1>1 DEF Disconnect, TypeOK, Flags
  <2>4. h \in open /\ h \notin cam.alive
    BY DEF EventsOfOpen
  <2>5. st.pc # "opening"
    BY <2>2, <2>3, <2>4, HandleAssumption DEF HandleOfTask, NoStreamLeaks, Without, Fresh
  <2> QED
    BY <2>1, <2>2, <2>3, <2>4, <2>5
       DEF HandlesOK, HandleOfTask, HandleOfDriver, EventsOfOpen, NoStreamLeaks
<1>2. CASE DisconnectTake
  <2>1. drv.pc = "take" /\ UNCHANGED <<cam, open, flag, st>>
    BY <1>2 DEF DisconnectTake
  <2>2. CASE owned = drv.stream
    <3>1. owned' = NoHandle /\ drv'.pc = "close" /\ drv'.stream = drv.stream
      BY <1>2, <2>2 DEF DisconnectTake, TypeOK
    <3>2. owned \in Handles /\ st.pc \in Sharing /\ owned \in open
      BY <2>1, <2>2, HandleAssumption
         DEF HandleOfTask, HandleOfDriver, Without, Fresh, Sharing, TypeOK, Positions, StreamPcs
    <3>3. st.pc \notin Without \cup Fresh \cup {"close"}
      BY <3>2 DEF Sharing, Without, Fresh
    <3> QED
      BY <2>1, <2>2, <3>1, <3>2, <3>3
         DEF HandlesOK, HandleOfTask, HandleOfDriver, EventsOfOpen, NoStreamLeaks
  <2>3. CASE owned # drv.stream
    BY <1>2, <2>1, <2>3
       DEF DisconnectTake, HandlesOK, HandleOfTask, HandleOfDriver, EventsOfOpen, NoStreamLeaks
  <2> QED
    BY <2>2, <2>3
<1>3. CASE DisconnectClose
  <2>1. /\ open' = open \ {drv.stream} /\ drv' = [pc |-> "idle", stream |-> NoHandle]
        /\ drv.pc = "close" /\ owned = NoHandle /\ UNCHANGED <<cam, owned, st>>
    BY <1>3 DEF DisconnectClose, HandleOfDriver
  <2>2. drv.stream \notin cam.gone \cup cam.alive
    BY <2>1 DEF HandleOfDriver
  <2>3. st.pc \notin Fresh \cup {"close"}
    BY <2>1 DEF HandleOfTask
  <2> QED
    BY <2>1, <2>2, <2>3
       DEF HandlesOK, HandleOfTask, HandleOfDriver, EventsOfOpen, NoStreamLeaks
<1> QED
  BY <1>1, <1>2, <1>3

\* The steps of stream_task that neither get nor lose a handle.
LEMMA MovingSteps ==
  ASSUME IInv,
         \/ TakeStart \/ LeaveLoop \/ LoopWait \/ Negotiate \/ OpenFails \/ CheckOpened
         \/ Checks \/ PrintDescriptor \/ GetFormat \/ StartSucceeds \/ StartFails
         \/ NotStarted \/ BeginStreaming \/ WatchEnds \/ StopStreaming \/ GiveUp
         \/ GiveUpCapture \/ SayError \/ Reopen \/ EndSession \/ AcknowledgeStop
  PROVE  HandlesOK'
<1>1. st \in Positions /\ flag \in Flags /\ cam \in Cameras
  BY DEF IInv, TypeOK
<1> USE DEF Without, Fresh, Sharing
<1>2. CASE TakeStart \/ LeaveLoop
  <2>1. UNCHANGED <<cam, open, owned, drv>> /\ flag'.connected = flag.connected
    BY <1>1, <1>2 DEF TakeStart, LeaveLoop, Local, FlagStep, Flags
  <2>2. st.pc \in {"wait", "loop"} /\ \E pc \in {"wait", "loop", "end"} : Go(pc)
    BY <1>2 DEF TakeStart, LeaveLoop
  <2> QED
    BY <1>1, <2>1, <2>2, Went, Moves
<1>3. CASE LoopWait \/ Negotiate
  <2>1. UNCHANGED <<cam, open, owned, drv>> /\ flag'.connected = flag.connected
    BY <1>1, <1>3 DEF LoopWait, Negotiate, FlagStep, Flags
  <2>2. st.pc = "loop" /\ st'.pc \in {"loop", "attempt"} /\ st'.stream = st.stream
        /\ st'.ret \in {st.ret, "wait"}
    <3>1. st.pc = "loop" /\ st.stream = NoHandle
      BY <1>3 DEF LoopWait, Negotiate, IInv, HandleOfTask
    <3> QED
      BY <1>3, <3>1 DEF LoopWait, Negotiate
  <2> QED
    BY <2>1, <2>2, Moves
<1>4. CASE OpenFails \/ CheckOpened
  <2>1. UNCHANGED <<open, owned, drv, flag>> /\ cam'.gone = cam.gone /\ cam'.alive = cam.alive
    BY <1>1, <1>4 DEF OpenFails, CheckOpened, Fault, Local, Cameras
  <2>2. \/ st.pc = "opening" /\ Go("attempt")
        \/ st.pc = "opened" /\ \E pc \in {"mark", "drop"} : Go(pc)
    BY <1>4 DEF OpenFails, CheckOpened
  <2>3. /\ st'.stream = st.stream /\ st'.ret = st.ret
        /\ \/ st.pc = "opening" /\ st'.pc = "attempt"
           \/ st.pc = "opened" /\ st'.pc \in {"mark", "drop"}
    BY <1>1, <2>2, Went
  <2> QED
    BY <2>1, <2>3, Moves
<1>5. CASE Checks \/ StartFails \/ StopStreaming
  <2>1. UNCHANGED <<open, owned, drv>> /\ cam'.gone = cam.gone /\ cam'.alive = cam.alive
        /\ flag'.connected = flag.connected
    BY <1>1, <1>5 DEF Checks, Check, StartFails, StopStreaming, Fault, Local, FlagStep, Cameras,
                      Flags
  <2>2. /\ st.pc \in {"check print", "check start", "check return", "started", "check stream",
                       "start", "ended"}
        /\ \/ \E pc \in {"print", "start", "started", "format", "stream"} : Go(pc)
           \/ \E pc \in {"attempt", "end", "closed"} : CloseThen(pc)
    BY <1>5 DEF Checks, Check, StartFails, StopStreaming
  <2> QED
    BY <1>1, <2>1, <2>2, Went, Moves
<1>6. CASE PrintDescriptor \/ GetFormat \/ StartSucceeds \/ BeginStreaming \/ WatchEnds
  <2>1. UNCHANGED <<open, owned, drv>> /\ cam'.gone = cam.gone /\ cam'.alive = cam.alive
        /\ flag'.connected = flag.connected
    BY <1>1, <1>6 DEF PrintDescriptor, GetFormat, StartSucceeds, BeginStreaming, WatchEnds,
                      Local, FlagStep, Cameras, Flags
  <2>2. /\ st.pc \in {"print", "format", "start", "stream", "watch"}
        /\ \E pc \in {"check start", "check stream", "check return", "watch", "ended"} : Go(pc)
    BY <1>6 DEF PrintDescriptor, GetFormat, StartSucceeds, BeginStreaming, WatchEnds
  <2> QED
    BY <1>1, <2>1, <2>2, Went, Moves
<1>7. CASE \/ NotStarted \/ GiveUp \/ GiveUpCapture \/ SayError \/ Reopen \/ EndSession
           \/ AcknowledgeStop
  <2>1. UNCHANGED <<cam, open, owned, drv>> /\ flag'.connected = flag.connected
    BY <1>1, <1>7 DEF NotStarted, GiveUp, GiveUpCapture, SayError, Reopen, EndSession,
                      AcknowledgeStop, FlagStep, Flags
  <2>2. /\ st.pc \in {"failed", "closed", "give up", "say error", "end", "acknowledge"}
        /\ \E pc \in {"loop", "end", "give up", "say error", "acknowledge", "wait"} : Go(pc)
    BY <1>7 DEF NotStarted, GiveUp, GiveUpCapture, SayError, Reopen, EndSession,
                AcknowledgeStop
  <2> QED
    BY <1>1, <2>1, <2>2, Went, Moves
<1> QED
  BY <1>2, <1>3, <1>4, <1>5, <1>6, <1>7

\* A stream is opened only when no other is open.
LEMMA NothingOpen ==
  ASSUME IInv, st.pc = "opening"
  PROVE  open = {}
  BY HandleAssumption
     DEF IInv, TypeOK, HandleOfTask, HandleOfDriver, NoStreamLeaks, Without

\* Opening a stream, taking it into the common ownership, taking it out of it
\* and closing it.
LEMMA HandleSteps ==
  ASSUME IInv, TryProfile \/ OpenSucceeds \/ Mark \/ Take \/ Close
  PROVE  HandlesOK'
<1>1. st \in Positions /\ flag \in Flags /\ cam \in Cameras
  BY DEF IInv, TypeOK
<1> USE DEF Without, Fresh, Sharing
<1>2. CASE TryProfile
  <2>1. /\ st.pc = "attempt" /\ UNCHANGED <<cam, open, owned, flag, drv>>
        /\ st'.stream = st.stream /\ st'.ret = st.ret
        /\ (st'.pc = "opening" /\ flag.connected) \/ st'.pc = "failed"
    BY <1>1, <1>2 DEF TryProfile, CanContinue, Local, Positions
  <2> QED
    BY <2>1 DEF IInv, HandlesOK, HandleOfTask, HandleOfDriver, EventsOfOpen, NoStreamLeaks
<1>3. CASE OpenSucceeds
  <2>1. PICK h \in Handles : /\ open' = {h} /\ st'.pc = "opened" /\ st'.stream = h
                             /\ st'.ret = st.ret
                             /\ cam'.gone = cam.gone /\ cam'.alive = cam.alive \cup {h}
    BY <1>1, <1>3, NothingOpen DEF OpenSucceeds, Positions, Cameras
  <2>2. st.pc = "opening" /\ drv.pc = "idle" /\ open = {} /\ UNCHANGED <<owned, flag, drv>>
    BY <1>3, NothingOpen DEF OpenSucceeds, IInv, HandleOfDriver
  <2> QED
    BY <2>1, <2>2 DEF IInv, HandlesOK, HandleOfTask, HandleOfDriver, EventsOfOpen, NoStreamLeaks
<1>4. CASE Mark
  <2>1. /\ owned = NoHandle /\ owned' = st.stream /\ st'.pc = "check print"
        /\ st'.stream = st.stream /\ st'.ret = st.ret /\ st.stream \in open
        /\ drv.pc # "close" /\ st.pc = "mark"
        /\ flag'.connected = flag.connected /\ UNCHANGED <<cam, open, drv>>
    BY <1>1, <1>4, Went DEF Mark, Flags, IInv, HandleOfTask
  <2>2. st.stream \in Handles
    BY <2>1 DEF IInv, TypeOK
  <2>3. HandleOfTask' /\ HandleOfDriver'
    BY <2>1, <2>2, HandleAssumption DEF IInv, HandleOfTask, HandleOfDriver
  <2>4. EventsOfOpen' /\ NoStreamLeaks'
    <3>1. open \in SUBSET Handles
      BY DEF IInv, TypeOK
    <3> QED
      BY <2>1, <3>1, HandleAssumption DEF IInv, EventsOfOpen, NoStreamLeaks
  <2> QED
    BY <2>3, <2>4 DEF HandlesOK
<1>5. CASE Take
  <2>1. st.pc = "take" /\ UNCHANGED <<cam, open, flag, drv>> /\ st.stream \in Handles
        /\ st.ret \in {"wait", "attempt", "end", "closed"}
    BY <1>5 DEF Take, IInv, HandleOfTask
  <2>2. CASE owned = st.stream
    <3>1. owned' = NoHandle /\ st'.pc = "close" /\ st'.stream = st.stream /\ st'.ret = st.ret
      BY <1>1, <1>5, <2>2, Went DEF Take
    <3>2. owned \in open /\ drv.pc # "close"
      BY <2>1, <2>2, HandleAssumption DEF IInv, HandleOfTask, HandleOfDriver
    <3> QED
      BY <2>1, <2>2, <3>1, <3>2
         DEF IInv, HandlesOK, HandleOfTask, HandleOfDriver, EventsOfOpen, NoStreamLeaks
  <2>3. CASE owned # st.stream
    <3>1. owned = NoHandle /\ owned' = owned /\ st'.pc = st.ret /\ st'.stream = NoHandle
          /\ st'.ret = "wait"
      BY <1>1, <1>5, <2>1, <2>3 DEF Take, IInv, HandleOfTask, Positions
    <3> QED
      BY <2>1, <3>1
         DEF IInv, HandlesOK, HandleOfTask, HandleOfDriver, EventsOfOpen, NoStreamLeaks
  <2> QED
    BY <2>2, <2>3
<1>6. CASE Close
  <2>1. /\ st.pc \in {"close", "drop"} /\ st.stream \in open /\ owned = NoHandle
        /\ drv.pc # "close" /\ st.ret \in {"wait", "attempt", "end", "closed"}
    BY <1>6 DEF Close, IInv, HandleOfTask
  <2>2. /\ open' = open \ {st.stream} /\ st'.pc \in {"attempt", st.ret}
        /\ st'.stream = NoHandle /\ st'.ret = "wait" /\ UNCHANGED <<owned, drv>>
    BY <1>1, <1>6 DEF Close, Positions
  <2>3. /\ cam'.gone = cam.gone \ {st.stream} /\ cam'.alive = cam.alive \ {st.stream}
        /\ flag'.connected = flag.connected
    BY <1>1, <1>6 DEF Close, Cameras, Flags
  <2> QED
    BY <2>1, <2>2, <2>3
       DEF IInv, HandlesOK, HandleOfTask, HandleOfDriver, EventsOfOpen, NoStreamLeaks
<1> QED
  BY <1>2, <1>3, <1>4, <1>5, <1>6

-----------------------------------------------------------------------------
\* Every step preserves the invariant.
LEMMA Step == IInv /\ [Next]_vars => IInv'
<1> SUFFICES ASSUME IInv, [Next]_vars PROVE IInv'
  OBVIOUS
<1>1. CASE StreamTask
  BY <1>1, StreamTypes, MovingSteps, HandleSteps DEF StreamTask, IInv, HandlesOK
<1>2. CASE Plug \/ Unplug \/ Stall \/ Driver \/ TransferError \/ BadFrame
  BY <1>2, EnvironmentTypes, QuietSteps, DisconnectSteps DEF Driver, IInv, HandlesOK
<1>3. CASE EndOfStop \/ MainLoop \/ StopCall \/ StopProgress
  BY <1>3, StagesTypes, OtherTypes, QuietSteps DEF IInv, HandlesOK
<1>4. CASE UNCHANGED vars
  <2>1. TypeOK'
    BY <1>4 DEF vars, IInv, TypeOK
  <2>2. HandleOfTask' /\ HandleOfDriver' /\ EventsOfOpen' /\ NoStreamLeaks'
    BY <1>4 DEF vars, IInv, HandleOfTask, HandleOfDriver, EventsOfOpen, NoStreamLeaks
  <2> QED
    BY <2>1, <2>2 DEF IInv
<1> QED
  BY <1>1, <1>2, <1>3, <1>4 DEF Next

\* The strengthened invariant holds in every reachable state.
THEOREM Inductive == Spec => []IInv
  BY InitInv, Step, PTL DEF Spec

\* Type correctness, in particular never more profiles are tried than there are.
THEOREM TypeCorrect == Spec => []TypeOK
<1>1. IInv => TypeOK
  BY DEF IInv
<1> QED
  BY <1>1, Inductive, PTL

\* No stream is closed twice, whoever of stream_task and the disconnect callback
\* gets hold of it (hal_uvc.cpp:142-150).
THEOREM NeverClosedTwice == Spec => []ClosedOnce
<1>1. IInv => ClosedOnce
  BY DEF IInv, ClosedOnce, HandleOfTask, HandleOfDriver, Fresh
<1> QED
  BY <1>1, Inductive, PTL

\* Every open stream is owned or about to be owned or closed.
THEOREM NeverLeaked == Spec => []NoStreamLeaks
<1>1. IInv => NoStreamLeaks
  BY DEF IInv
<1> QED
  BY <1>1, Inductive, PTL

\* The streams open at the USB host follow ExclusiveHandle: one at a time, and
\* every one released once (the comment at hal_uvc.cpp:136-138).
THEOREM Implements == Spec => OneStreamAtATime
<1>1. Init => Exclusive!Init
  BY DEF Init, Exclusive!Init
<1>2. IInv /\ [Next]_vars => [Exclusive!Next]_open
  <2> SUFFICES ASSUME IInv, Next PROVE Exclusive!Next \/ UNCHANGED open
    BY DEF vars
  <2>1. CASE StreamTask
    <3>1. CASE OpenSucceeds
      BY <3>1, NothingOpen DEF OpenSucceeds, Exclusive!Next, Exclusive!Acquire
    <3>2. CASE Close
      BY <3>2 DEF Close, IInv, HandleOfTask, Fresh, Exclusive!Next, Exclusive!Release
    <3> QED
      BY <2>1, <3>1, <3>2
         DEF StreamTask, TakeStart, LeaveLoop, LoopWait, Negotiate, TryProfile, OpenFails,
             CheckOpened, Mark, Checks, Check, PrintDescriptor, GetFormat, StartSucceeds,
             StartFails, NotStarted, BeginStreaming, WatchEnds, StopStreaming, Take, GiveUp,
             GiveUpCapture, SayError, Reopen, EndSession, AcknowledgeStop, Local, FlagStep
  <2>2. CASE DisconnectClose
    BY <2>2 DEF DisconnectClose, IInv, HandleOfDriver, Exclusive!Next, Exclusive!Release
  <2>3. CASE ~StreamTask /\ ~DisconnectClose
    BY <2>3, StagesTypes
       DEF IInv, Next, Plug, Unplug, Stall, Driver, Connect, Disconnect, DisconnectTake,
           TransferError, BadFrame, MainLoop, MainPoll, StartCall, StartStep, StopCall,
           StopProgress, StopStep, OtherStep, vars
  <2> QED
    BY <2>1, <2>2, <2>3
<1> QED
  BY <1>1, <1>2, Inductive, PTL DEF Spec, OneStreamAtATime, Exclusive!Spec
=============================================================================
