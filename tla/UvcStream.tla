----------------------------- MODULE UvcStream -----------------------------
(***************************************************************************)
(* The life of a UVC stream in firmware/main/hal/hal_uvc.cpp: stream_task  *)
(* negotiates, watches and closes streams, the USB driver task reports     *)
(* connects, disconnects, transfer errors and malformed frames, the main   *)
(* loop restarts a capture that ended, render_task and the readers take    *)
(* part in a stop.                                                         *)
(*                                                                         *)
(* Scheduling.  The driver task has the highest priority on the core it    *)
(* shares with stream_task and render_task, so what a callback does        *)
(* between two blocking calls is one step.  Everybody else can be          *)
(* interrupted between any two accesses to the shared flags, and every     *)
(* such access, or run of accesses nobody else can tell apart, is a step.  *)
(*                                                                         *)
(* The camera and the USB host library are external: which opens and       *)
(* starts succeed, when the camera stalls or is unplugged.  Time is left   *)
(* out: a wait is a step that may be taken at any moment, and the frame    *)
(* watchdog may expire whenever no frames flow.                            *)
(*                                                                         *)
(* An operator marked "Mutant" is a plausible mistake in the definition    *)
(* that follows it; no behaviour of the specification uses it.             *)
(***************************************************************************)
EXTENDS Naturals, FiniteSets

CONSTANTS
  Handles,      \* uvc_host_stream_hdl_t values the host library hands out
  NoHandle,     \* nullptr
  Profiles,     \* profiles tried per negotiation (two formats, exact and fallback)
  Readers,      \* the tasks that copy frames out (hal_uvc_copy_latest_frame)
  MaxFaults,    \* bound: failures of the camera and of the host library, and stops
  MaxStops      \* bound: hal_uvc_stop() calls among them (the firmware makes none)

ASSUME HandleAssumption == NoHandle \notin Handles
ASSUME StreamBoundsAssumption == Profiles \in Nat /\ MaxFaults \in Nat /\ MaxStops \in Nat

VARIABLES
  cam,       \* the camera and the host library (external)
  open,      \* stream handles opened and not yet closed (external)
  owned,     \* s_owned_stream
  flag,      \* the shared flags, s_state and the semaphore s_start_event
  st,        \* stream_task: where it is, its handle, the profiles tried,
             \* and where it continues after close_owned_stream
  drv,       \* the driver task inside the disconnect callback
  mpc,       \* the main loop inside hal_uvc_start
  apc,       \* a caller inside hal_uvc_stop
  stops,     \* calls of hal_uvc_stop so far
  fin        \* who is where in maybe_finish_stop, the readers also on their
             \* way there: "checked" and "copying" in hal_uvc_copy_latest_frame

vars == <<cam, open, owned, flag, st, drv, mpc, apc, stops, fin>>

\* Who calls maybe_finish_stop.
Finishers == Readers \cup {"stream_task", "render_task"}

Init ==
  /\ cam = [plugged |-> FALSE, announced |-> FALSE, gone |-> {}, alive |-> {},
            flowing |-> FALSE, faults |-> 0]
  /\ open = {} /\ owned = NoHandle
  /\ flag = [connected |-> FALSE, streaming |-> FALSE, formatError |-> FALSE,
             startRequested |-> FALSE, stopRequested |-> FALSE, capturing |-> FALSE,
             stopPending |-> FALSE, streamStopped |-> TRUE, renderStopped |-> TRUE,
             restartBlocked |-> FALSE, startEvent |-> FALSE, state |-> "ready"]
  /\ st = [pc |-> "wait", stream |-> NoHandle, attempt |-> 0, ret |-> "wait"]
  /\ drv = [pc |-> "idle", stream |-> NoHandle]
  /\ mpc = "idle" /\ apc = "idle" /\ stops = 0
  /\ fin = [p \in Finishers |-> "out"]

-----------------------------------------------------------------------------
(* The camera.  plugged: it is attached; announced, gone: a connect event  *)
(* and disconnect events (of these handles) on their way; alive: handles   *)
(* whose device is still attached; flowing: the open stream delivers.      *)

\* A failure the environment may still cause, and what it does.
Fault(changed) ==
  /\ cam.faults + stops < MaxFaults
  /\ cam' = [changed EXCEPT !.faults = @ + 1]

Plug ==
  /\ ~cam.plugged
  /\ cam' = [cam EXCEPT !.plugged = TRUE, !.announced = TRUE]
  /\ UNCHANGED <<open, owned, flag, st, drv, mpc, apc, stops, fin>>

Unplug ==
  /\ cam.plugged
  /\ Fault([cam EXCEPT !.plugged = FALSE, !.flowing = FALSE, !.alive = {},
                      !.gone = @ \cup cam.alive])
  /\ UNCHANGED <<open, owned, flag, st, drv, mpc, apc, stops, fin>>

\* Frames stop arriving, or none of them can be used (too large, no slot).
Stall ==
  /\ cam.flowing
  /\ Fault([cam EXCEPT !.flowing = FALSE])
  /\ UNCHANGED <<open, owned, flag, st, drv, mpc, apc, stops, fin>>

-----------------------------------------------------------------------------
(* The driver task: driver_callback, stream_callback, frame_callback.      *)

\* driver_callback, DEVICE_CONNECTED.  Events are delivered in order.
Connect ==
  /\ drv.pc = "idle"
  /\ cam.announced /\ cam.gone = {}
  /\ cam' = [cam EXCEPT !.announced = FALSE]
  /\ flag' = [flag EXCEPT !.connected = TRUE, !.state = "present"]
  /\ UNCHANGED <<open, owned, st, drv, mpc, apc, stops, fin>>

\* Mutant: the callback leaves it to the next connect to update connected.
DisconnectKeepsConnected ==
  /\ drv.pc = "idle"
  /\ \E h \in cam.gone :
       /\ drv' = [pc |-> "take", stream |-> h]
       /\ cam' = [cam EXCEPT !.gone = @ \ {h}]
  /\ flag' = [flag EXCEPT !.streaming = FALSE, !.state = "disconnected"]
  /\ UNCHANGED <<open, owned, st, mpc, apc, stops, fin>>

\* stream_callback, DEVICE_DISCONNECTED, up to the wait for the mutex ...
Disconnect ==
  /\ drv.pc = "idle"
  /\ \E h \in cam.gone :
       /\ drv' = [pc |-> "take", stream |-> h]
       /\ cam' = [cam EXCEPT !.gone = @ \ {h}]
  /\ flag' = [flag EXCEPT !.connected = FALSE, !.streaming = FALSE, !.state = "disconnected"]
  /\ UNCHANGED <<open, owned, st, mpc, apc, stops, fin>>

\* ... its exchange on s_owned_stream ...
DisconnectTake ==
  /\ drv.pc = "take"
  /\ IF owned = drv.stream
       THEN owned' = NoHandle /\ drv' = [drv EXCEPT !.pc = "close"]
       ELSE UNCHANGED owned /\ drv' = [pc |-> "idle", stream |-> NoHandle]
  /\ UNCHANGED <<cam, open, flag, st, mpc, apc, stops, fin>>

\* ... and the close.
DisconnectClose ==
  /\ drv.pc = "close"
  /\ open' = open \ {drv.stream}
  /\ flag' = [flag EXCEPT !.restartBlocked = @ /\ owned # NoHandle]
  /\ drv' = [pc |-> "idle", stream |-> NoHandle]
  /\ UNCHANGED <<cam, owned, st, mpc, apc, stops, fin>>

\* The state after a transfer error: a stop in progress has its own.
ErrorState == CASE flag.stopRequested  -> flag.state
                [] flag.startRequested -> "negotiating"
                [] OTHER               -> "error"

\* stream_callback, TRANSFER_ERROR: the stream delivers nothing any more.
TransferError ==
  /\ drv.pc = "idle"
  /\ cam.flowing
  /\ Fault([cam EXCEPT !.flowing = FALSE])
  /\ flag' = [flag EXCEPT !.streaming = FALSE, !.state = ErrorState]
  /\ UNCHANGED <<open, owned, st, drv, mpc, apc, stops, fin>>

\* frame_callback, a frame of an unknown format or without a size.
BadFrame ==
  /\ drv.pc = "idle"
  /\ cam.flowing /\ flag.streaming
  /\ Fault(cam)
  /\ flag' = [flag EXCEPT !.streaming = FALSE, !.formatError = TRUE, !.state = "error"]
  /\ UNCHANGED <<open, owned, st, drv, mpc, apc, stops, fin>>

Driver == Connect \/ Disconnect \/ DisconnectTake \/ DisconnectClose

-----------------------------------------------------------------------------
(* stream_task.                                                            *)

CanContinue == ~flag.stopRequested /\ flag.startRequested /\ flag.connected

Go(pc) == st' = [st EXCEPT !.pc = pc]

\* close_owned_stream(stream, ...), then on to pc.
CloseThen(pc) == st' = [st EXCEPT !.pc = "take", !.ret = pc]

\* A step of stream_task that changes nothing but its own position.
Local == UNCHANGED <<cam, open, owned, flag, drv, mpc, apc, stops, fin>>

\* ... or the flags besides.
FlagStep == UNCHANGED <<cam, open, owned, drv, mpc, apc, stops, fin>>

\* xSemaphoreTake(s_start_event): wait for a start (or a stop).
TakeStart ==
  /\ st.pc = "wait" /\ fin["stream_task"] = "out"
  /\ flag.startEvent
  /\ flag' = [flag EXCEPT !.startEvent = FALSE]
  /\ Go(IF flag.startRequested THEN "loop" ELSE "wait")
  /\ FlagStep

InSession == flag.startRequested /\ ~flag.stopRequested

LeaveLoop == st.pc = "loop" /\ ~InSession /\ Go("end") /\ Local

\* No camera, or the previous handle is still owned: look again later.
LoopWait ==
  /\ st.pc = "loop" /\ InSession
  /\ ~flag.connected \/ owned # NoHandle
  /\ flag' = [flag EXCEPT !.state = IF flag.connected THEN "negotiating" ELSE "absent"]
  /\ UNCHANGED st
  /\ FlagStep

Negotiate ==
  /\ st.pc = "loop" /\ InSession
  /\ flag.connected /\ owned = NoHandle
  /\ flag' = [flag EXCEPT !.restartBlocked = FALSE, !.state = "negotiating"]
  /\ st' = [pc |-> "attempt", stream |-> NoHandle, attempt |-> 0, ret |-> "wait"]
  /\ FlagStep

\* Mutant: one profile too many.
TryProfileOffByOne ==
  /\ st.pc = "attempt"
  /\ st' = IF CanContinue /\ st.attempt <= Profiles
             THEN [st EXCEPT !.pc = "opening", !.attempt = @ + 1]
             ELSE [st EXCEPT !.pc = "failed", !.attempt = 0]
  /\ Local

\* The profile loop: another profile, or none is left or wanted.
TryProfile ==
  /\ st.pc = "attempt"
  /\ st' = IF CanContinue /\ st.attempt < Profiles
             THEN [st EXCEPT !.pc = "opening", !.attempt = @ + 1]
             ELSE [st EXCEPT !.pc = "failed", !.attempt = 0]
  /\ Local

\* uvc_host_stream_open, which blocks; the callbacks are registered with it.
OpenSucceeds ==
  /\ st.pc = "opening"
  /\ cam.plugged
  /\ \E h \in Handles \ open :
       /\ open' = open \cup {h}
       /\ cam' = [cam EXCEPT !.alive = @ \cup {h}]
       /\ st' = [st EXCEPT !.pc = "opened", !.stream = h]
  /\ UNCHANGED <<owned, flag, drv, mpc, apc, stops, fin>>

OpenFails ==
  /\ st.pc = "opening"
  /\ IF cam.plugged THEN Fault(cam) ELSE UNCHANGED cam
  /\ Go("attempt")
  /\ UNCHANGED <<open, owned, flag, drv, mpc, apc, stops, fin>>

\* Mutant: an early return forgets the stream that was just opened.
CheckOpenedLeaks ==
  /\ st.pc = "opened"
  /\ st' = IF CanContinue THEN [st EXCEPT !.pc = "mark"]
                          ELSE [st EXCEPT !.pc = "attempt", !.stream = NoHandle]
  /\ Local

\* The stream is not owned yet: giving up here closes it directly.
CheckOpened == st.pc = "opened" /\ Go(IF CanContinue THEN "mark" ELSE "drop") /\ Local

\* mark_stream_open: the compare/exchange from nullptr.
Mark ==
  /\ st.pc = "mark"
  /\ owned' = IF owned = NoHandle THEN st.stream ELSE owned
  /\ flag' = [flag EXCEPT !.restartBlocked = @ \/ owned # NoHandle]
  /\ Go(IF owned = NoHandle THEN "check print" ELSE "drop")
  /\ UNCHANGED <<cam, open, drv, mpc, apc, stops, fin>>

\* The checks between the calls of a negotiation, and where a failed one
\* leads: to the next profile, or, once the stream started, out of the loop.
Check(at, next, failed) ==
  /\ st.pc = at
  /\ IF CanContinue THEN Go(next) ELSE CloseThen(failed)
  /\ Local

Checks ==
  \/ Check("check print",  "print",  "attempt")
  \/ Check("check start",  "start",  "attempt")
  \/ Check("check return", "started", "attempt")
  \/ Check("started",      "format", "end")
  \/ Check("check stream", "stream", "end")

\* uvc_host_desc_print and uvc_host_stream_format_get on the handle.
PrintDescriptor == st.pc = "print"  /\ Go("check start")  /\ Local
GetFormat       == st.pc = "format" /\ Go("check stream") /\ Local

StartSucceeds ==
  /\ st.pc = "start"
  /\ cam' = [cam EXCEPT !.flowing = st.stream \in cam.alive]
  /\ Go("check return")
  /\ UNCHANGED <<open, owned, flag, drv, mpc, apc, stops, fin>>

StartFails ==
  /\ st.pc = "start"
  /\ IF st.stream \in cam.alive THEN Fault(cam) ELSE UNCHANGED cam
  /\ CloseThen("attempt")
  /\ UNCHANGED <<open, owned, flag, drv, mpc, apc, stops, fin>>

\* The state of a negotiation that started no profile.
RetryState == IF ~CanContinue THEN flag.state
              ELSE IF flag.restartBlocked THEN "negotiating" ELSE "present"

\* No profile started: retry after a delay, unless the session is over.
NotStarted ==
  /\ st.pc = "failed"
  /\ Go(IF CanContinue THEN "loop" ELSE "end")
  /\ flag' = [flag EXCEPT !.state = RetryState]
  /\ FlagStep

\* The stream is announced: frame_callback publishes from here on.
BeginStreaming ==
  /\ st.pc = "stream"
  /\ flag' = [flag EXCEPT !.streaming = TRUE, !.state = "streaming"]
  /\ Go("watch")
  /\ FlagStep

KeepWatching == InSession /\ flag.connected /\ flag.streaming

\* Mutant: without the frame watchdog only a flag ends the loop.
WatchEndsByFlag == st.pc = "watch" /\ ~KeepWatching /\ Go("ended") /\ Local

\* A flag changed, or no frames flow and the watchdog expired.
WatchEnds == st.pc = "watch" /\ (~KeepWatching \/ ~cam.flowing) /\ Go("ended") /\ Local

StopStreaming ==
  /\ st.pc = "ended"
  /\ flag' = [flag EXCEPT !.streaming = FALSE]
  /\ CloseThen("closed")
  /\ FlagStep

\* Mutant: the stream is closed although a callback released it already.
TakeUnconditionally ==
  /\ st.pc = "take"
  /\ owned' = NoHandle
  /\ Go("close")
  /\ UNCHANGED <<cam, open, flag, drv, mpc, apc, stops, fin>>

\* close_owned_stream: only the winner of the exchange stops and closes.
Take ==
  /\ st.pc = "take"
  /\ IF owned = st.stream
       THEN owned' = NoHandle /\ Go("close")
       ELSE UNCHANGED owned /\ st' = [st EXCEPT !.pc = st.ret, !.stream = NoHandle, !.ret = "wait"]
  /\ UNCHANGED <<cam, open, flag, drv, mpc, apc, stops, fin>>

\* uvc_host_stream_close of a stream this task took, or never owned ("drop").
Close ==
  /\ st.pc \in {"close", "drop"}
  /\ open' = open \ {st.stream}
  /\ cam' = [cam EXCEPT !.gone = @ \ {st.stream}, !.alive = @ \ {st.stream},
                        !.flowing = FALSE]
  /\ flag' = [flag EXCEPT !.restartBlocked = @ /\ (st.pc = "drop" \/ owned # NoHandle)]
  /\ st' = [st EXCEPT !.pc = IF st.pc = "drop" THEN "attempt" ELSE st.ret,
                      !.stream = NoHandle, !.ret = "wait"]
  /\ UNCHANGED <<owned, drv, mpc, apc, stops, fin>>

\* After a malformed frame the session is given up ...
GiveUp ==
  /\ st.pc = "closed"
  /\ flag.formatError
  /\ flag' = [flag EXCEPT !.startRequested = FALSE]
  /\ Go("give up")
  /\ FlagStep

GiveUpCapture ==
  /\ st.pc = "give up"
  /\ flag' = [flag EXCEPT !.capturing = FALSE]
  /\ Go("say error")
  /\ FlagStep

SayError ==
  /\ st.pc = "say error"
  /\ flag' = [flag EXCEPT !.state = "error"]
  /\ Go("end")
  /\ FlagStep

\* ... otherwise the next negotiation follows.
DeviceState == IF flag.connected THEN "present" ELSE "disconnected"

Reopen ==
  /\ st.pc = "closed"
  /\ ~flag.formatError
  /\ flag' = [flag EXCEPT !.state = IF flag.stopRequested THEN @ ELSE DeviceState]
  /\ Go("loop")
  /\ FlagStep

\* Mutant: without a camera a stop is not acknowledged.
EndSessionConnected ==
  /\ st.pc = "end"
  /\ IF flag.stopRequested /\ flag.connected
       THEN /\ flag' = [flag EXCEPT !.streaming = FALSE, !.startRequested = FALSE,
                                    !.state = DeviceState]
            /\ Go("acknowledge")
       ELSE /\ flag' = [flag EXCEPT !.streaming = FALSE]
            /\ Go("wait")
  /\ FlagStep

\* The end of a session: a stop is acknowledged, anything else is not.
EndSession ==
  /\ st.pc = "end"
  /\ IF flag.stopRequested
       THEN /\ flag' = [flag EXCEPT !.streaming = FALSE, !.startRequested = FALSE,
                                    !.state = DeviceState]
            /\ Go("acknowledge")
       ELSE /\ flag' = [flag EXCEPT !.streaming = FALSE]
            /\ Go("wait")
  /\ FlagStep

\* The task has noticed the stop; maybe_finish_stop follows.
AcknowledgeStop ==
  /\ st.pc = "acknowledge"
  /\ flag' = [flag EXCEPT !.streamStopped = TRUE]
  /\ fin' = [fin EXCEPT !["stream_task"] = "pending"]
  /\ Go("wait")
  /\ UNCHANGED <<cam, open, owned, drv, mpc, apc, stops>>

StreamTask ==
  \/ TakeStart \/ LeaveLoop \/ LoopWait \/ Negotiate \/ TryProfile \/ OpenSucceeds
  \/ OpenFails \/ CheckOpened \/ Mark \/ Checks \/ PrintDescriptor \/ GetFormat
  \/ StartSucceeds \/ StartFails \/ NotStarted \/ BeginStreaming \/ WatchEnds
  \/ StopStreaming \/ Take \/ Close \/ GiveUp \/ GiveUpCapture \/ SayError \/ Reopen
  \/ EndSession \/ AcknowledgeStop

-----------------------------------------------------------------------------
(* The end of a stop: render_task, the readers, and maybe_finish_stop,     *)
(* which each of them and stream_task calls.  It reads four atomics one    *)
(* after the other and writes a fifth, without a lock.                     *)

StopStage == UNCHANGED <<cam, open, owned, st, drv, mpc, apc, stops>>

\* render_task acknowledges a stop, every 500 ms as long as there is one.
RenderAcknowledge ==
  /\ ~flag.capturing \/ flag.stopRequested
  /\ ~flag.renderStopped \/ flag.stopPending
  /\ fin["render_task"] = "out"
  /\ flag' = [flag EXCEPT !.renderStopped = TRUE]
  /\ fin' = [fin EXCEPT !["render_task"] = "pending"]
  /\ StopStage

\* p reads one thing and goes on to next, or out when it should not.
Stage(p, at, passed, next) ==
  /\ fin[p] = at
  /\ fin' = [fin EXCEPT ![p] = IF passed THEN next ELSE "out"]
  /\ UNCHANGED flag /\ StopStage

\* s_active_copies is not zero.
CopyActive == \E r \in Readers : fin[r] = "copying"

MaybeFinishStop(p) ==
  \/ Stage(p, "pending", flag.stopPending, "stream")
  \/ Stage(p, "stream", flag.streamStopped, "render")
  \/ Stage(p, "render", flag.renderStopped, "copies")
  \/ Stage(p, "copies", ~CopyActive, "store")

FinishStop(p) ==
  /\ fin[p] = "store"
  /\ flag' = [flag EXCEPT !.stopPending = FALSE]
  /\ fin' = [fin EXCEPT ![p] = "out"]
  /\ StopStage

\* hal_uvc_copy_latest_frame as far as a stop can see it: the test at its entry;
\* the reservation of a slot, or none is found; the end of the copy.
CopyCheck(r)   == Stage(r, "out", flag.streaming, "checked")
CopyReserve(r) == \E found \in BOOLEAN : Stage(r, "checked", found, "copying")
CopyEnds(r)    == Stage(r, "copying", TRUE, "pending")

Finishing(p) == MaybeFinishStop(p) \/ FinishStop(p)
Reader(r)    == CopyCheck(r) \/ CopyReserve(r) \/ CopyEnds(r) \/ Finishing(r)

EndOfStop ==
  \/ RenderAcknowledge \/ Finishing("stream_task") \/ Finishing("render_task")
  \/ \E r \in Readers : Reader(r)

-----------------------------------------------------------------------------
(* hal_uvc_start, called by the main loop when nothing is captured, and    *)
(* hal_uvc_stop.                                                           *)

OtherStep == UNCHANGED <<cam, open, owned, st, drv, fin>>

\* A new start is the recovery after a malformed frame.
StartState == IF flag.state # "error" THEN flag.state
              ELSE IF flag.connected THEN "present" ELSE "absent"

\* hal_uvc_start, one step per flag that stream_task or hal_uvc_stop can see.
StartCall ==
  /\ mpc = "idle"
  /\ ~flag.capturing /\ ~flag.stopPending
  /\ flag' = [flag EXCEPT !.restartBlocked = @ /\ owned # NoHandle, !.formatError = FALSE,
                          !.state = StartState]
  /\ mpc' = "clear stop"
  /\ OtherStep /\ UNCHANGED <<apc, stops>>

StartStep(at, next, changed) ==
  /\ mpc = at /\ mpc' = next
  /\ flag' = changed
  /\ OtherStep /\ UNCHANGED <<apc, stops>>

\* The main loop looks every second and finds a capture running.
MainPoll == mpc = "idle" /\ (flag.capturing \/ flag.stopPending) /\ UNCHANGED vars

MainLoop ==
  \/ MainPoll
  \/ StartCall
  \/ StartStep("clear stop", "request", [flag EXCEPT !.stopRequested = FALSE])
  \/ StartStep("request", "signal", [flag EXCEPT !.startRequested = TRUE])
  \/ StartStep("signal", "idle", [flag EXCEPT !.capturing = TRUE, !.startEvent = TRUE])

StopStep(at, next, changed) ==
  /\ apc = at /\ apc' = next
  /\ flag' = changed
  /\ OtherStep /\ UNCHANGED mpc

StopCall ==
  /\ stops < MaxStops /\ cam.faults + stops < MaxFaults
  /\ stops' = stops + 1
  /\ flag.capturing /\ ~flag.stopPending
  /\ StopStep("idle", "expect stream", [flag EXCEPT !.stopPending = TRUE])

StopProgress ==
  /\ \/ StopStep("expect stream", "expect render", [flag EXCEPT !.streamStopped = FALSE])
     \/ StopStep("expect render", "request", [flag EXCEPT !.renderStopped = FALSE])
     \/ StopStep("request", "signal", [flag EXCEPT !.stopRequested = TRUE])
     \/ StopStep("signal", "idle", [flag EXCEPT !.capturing = FALSE, !.startEvent = TRUE])
  /\ UNCHANGED stops

-----------------------------------------------------------------------------
Next ==
  \/ Plug \/ Unplug \/ Stall
  \/ Driver \/ TransferError \/ BadFrame
  \/ StreamTask
  \/ EndOfStop
  \/ MainLoop
  \/ StopCall \/ StopProgress

Spec == Init /\ [][Next]_vars

\* Every task gets the processor, and a copy that has begun comes to its end;
\* nobody has to plug the camera in, to call hal_uvc_stop or to copy a frame.
Fairness ==
  /\ WF_vars(Driver)
  /\ WF_vars(StreamTask)
  /\ WF_vars(Finishing("stream_task"))
  /\ WF_vars(RenderAcknowledge \/ Finishing("render_task"))
  /\ \A r \in Readers : WF_vars(CopyEnds(r))
  /\ WF_vars(MainLoop)
  /\ WF_vars(StopProgress)

FairSpec == Spec /\ Fairness

-----------------------------------------------------------------------------
States == {"ready", "absent", "present", "negotiating", "streaming", "disconnected", "error"}

StreamPcs == {"wait", "loop", "attempt", "opening", "opened", "mark", "drop", "check print",
              "print", "check start", "start", "check return", "started", "format",
              "check stream", "stream", "failed", "watch", "ended", "take", "close", "closed",
              "give up", "say error", "end", "acknowledge"}

Cameras == [plugged : BOOLEAN, announced : BOOLEAN, gone : SUBSET Handles,
            alive : SUBSET Handles, flowing : BOOLEAN, faults : Nat]

Flags == [connected : BOOLEAN, streaming : BOOLEAN, formatError : BOOLEAN,
          startRequested : BOOLEAN, stopRequested : BOOLEAN, capturing : BOOLEAN,
          stopPending : BOOLEAN, streamStopped : BOOLEAN, renderStopped : BOOLEAN,
          restartBlocked : BOOLEAN, startEvent : BOOLEAN, state : States]

Stages == {"out", "checked", "copying", "pending", "stream", "render", "copies", "store"}

Positions == [pc : StreamPcs, stream : Handles \cup {NoHandle}, attempt : 0 .. Profiles,
              ret : StreamPcs]

TypeOK ==
  /\ cam \in Cameras
  /\ open \in SUBSET Handles
  /\ owned \in Handles \cup {NoHandle}
  /\ flag \in Flags
  /\ st \in Positions
  /\ drv \in [pc : {"idle", "take", "close"}, stream : Handles \cup {NoHandle}]
  /\ mpc \in {"idle", "clear stop", "request", "signal"}
  /\ apc \in {"idle", "expect stream", "expect render", "request", "signal"}
  /\ stops \in Nat
  /\ fin \in [Finishers -> Stages]

\* Every stream that is closed is open at that moment: neither stream_task nor
\* the disconnect callback closes a stream the other has closed, although both
\* may go for the same handle (close_owned_stream, hal_uvc.cpp:142-150).
ClosedOnce ==
  /\ st.pc \in {"close", "drop"} => st.stream \in open
  /\ drv.pc = "close" => drv.stream \in open
  /\ st.pc = "close" /\ drv.pc = "close" => st.stream # drv.stream

\* No stream leaks: an open stream is owned, or in the hands of the task that
\* is about to own or to close it.
NoStreamLeaks ==
  \A h \in open : \/ owned = h
                  \/ st.stream = h /\ st.pc \in {"opened", "mark", "drop", "close"}
                  \/ drv.stream = h /\ drv.pc = "close"

\* Where stream_task has no handle, one that is not owned yet, one that it
\* owns until a callback takes it, and one that it took to close it.
Without == {"wait", "loop", "attempt", "opening", "failed", "closed", "give up", "say error",
            "end", "acknowledge"}
Fresh   == {"opened", "mark", "drop"}
Sharing == {"check print", "print", "check start", "start", "check return", "started",
            "format", "check stream", "stream", "watch", "ended", "take"}

HandleOfTask ==
  /\ st.pc \in Without => st.stream = NoHandle /\ owned = NoHandle
  /\ st.pc \in Fresh \cup {"close"} =>
       st.stream \in open /\ owned = NoHandle /\ drv.pc # "close"
  /\ st.pc \in Sharing =>
       st.stream \in Handles /\ owned \in {NoHandle, st.stream} /\ owned \in open \cup {NoHandle}
  /\ st.ret \in {"wait", "attempt", "end", "closed"}

HandleOfDriver ==
  /\ drv.pc # "idle" => /\ ~flag.connected /\ st.pc # "opening"
                        /\ drv.stream \in Handles \ (cam.gone \cup cam.alive)
  /\ drv.pc = "close" => drv.stream \in open /\ owned = NoHandle

\* The events on their way, and the devices attached, belong to open streams.
EventsOfOpen == cam.gone \cup cam.alive \subseteq open /\ cam.gone \cap cam.alive = {}

\* The strengthening of ClosedOnce, NoStreamLeaks and OneStreamAtATime that
\* every step preserves.
IInv ==
  /\ TypeOK
  /\ HandleOfTask
  /\ HandleOfDriver
  /\ EventsOfOpen
  /\ NoStreamLeaks

\* The comment at hal_uvc.cpp:136-138, "Do not call stream_open while it is
\* live": whatever the order of disconnects, reconnects and negotiations, the
\* streams open at the USB host follow ExclusiveHandle.
Exclusive == INSTANCE ExclusiveHandle WITH live <- open
OneStreamAtATime == Exclusive!Spec

\* The camera delivers and frame_callback accepts.
Live == flag.streaming /\ owned \in open /\ cam.flowing

\* stream_task waits for a start that nobody will signal: the main loop sees a
\* capture running.
Abandoned == st.pc = "wait" /\ ~flag.startEvent /\ flag.capturing

\* Recovery (docs/usb_rtsp.md:62): once the camera stays plugged in and stops
\* failing, it is streaming for good in the end.
Recovers == <>[]cam.plugged => <>[]Live

\* The same, except that stream_task may have abandoned the session, or somebody
\* has stopped the capture (nobody does in the firmware).
RecoversUnlessAbandoned ==
  <>[]cam.plugged => <>[]Live \/ <>[]Abandoned \/ <>[](stops > 0)

\* A stop ends, whoever of stream_task, render_task and the readers comes last
\* and whatever each of them read too early, unless it found the session over:
\* stream_task then waits for a start again, sees none requested, and does not
\* acknowledge the stop.
Unheard == /\ st.pc = "wait" /\ ~flag.startRequested
           /\ flag.stopPending /\ ~flag.streamStopped
StopEndsUnlessUnheard == []<>(~flag.stopPending \/ Unheard)

\* "If a task did not acknowledge stop, its buffers/handle may still be live. Fail
\* closed instead of allowing a second capture session to race it."
\* (hal_uvc.cpp:64-65): hal_uvc_start goes on only when both tasks acknowledged.
FailsClosed ==
  [][mpc = "idle" /\ mpc' # "idle" => flag.streamStopped /\ flag.renderStopped]_vars
=============================================================================
