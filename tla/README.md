# A verification development of tab5_baby_monitor

The firmware turns an M5Stack Tab5 into a camera. A USB (UVC) camera is read by
`hal/hal_uvc.cpp`, shown on the display by `ui.cpp`, and encoded to H.264 and
served to one RTSP client at a time by `rtsp/rtsp_server.cpp`. The modules here
model the parts where several tasks meet or a long sequence of steps must stay
consistent, check them with TLC on small instances, and prove the most important
results with TLAPS for all values of the constants.

Paths below are relative to `src/firmware/main/` unless they say otherwise.

## 1. The system

### Components

| Component | Source | State it keeps | Operations | Called by |
|---|---|---|---|---|
| UVC frame broker | `hal/hal_uvc.cpp` | three slots (sequence, generation, ready/writing/copying/valid), sequence counter, `s_active_copies` | `frame_callback`, `hal_uvc_copy_latest_frame`, `render_task` | USB driver task; preview and RTSP tasks; its own task |
| UVC stream lifecycle | `hal/hal_uvc.cpp`, `live.cpp` | request and stop flags, connection, owned handle, generation, `s_start_event` | `stream_task`, driver and stream callbacks, `hal_uvc_start`, `hal_uvc_stop` | USB driver task, its own task, main loop |
| Shared decoded frame | `rtsp/rtsp_server.cpp` | `s_usb_rgb888`, its info and validity, `decoded_frame_mutex` | MJPEG decode, borrow and release, freeing of the buffers | RTSP task, preview task |
| Preview | `ui.cpp` | last sequence, two canvas buffers, `has_preview`, `displayed_us` | 200 ms loop | its own task |
| RTSP session | `rtsp/rtsp_server.cpp` | setup, playing, recovery attempts, consecutive drops, watchdog time | `handle_client` and its requests | RTSP task |
| H.264 encoder | `rtsp/rtsp_server.cpp` | `s_pipeline_ready`, encoder queues, place in the GOP, kept IDR, parameter sets | initialize, prime, encode, quiesce, shut down, recover | RTSP task; once the main task, before the RTSP task exists |
| RTSP framing | `rtsp/rtsp_framing.cpp` | receive buffer, error flag | append, next, consume | RTSP task |
| H.264 packetizer | `rtsp/rtsp_server.cpp` | RTP sequence number and timestamp | access unit to NAL units to RTP packets | RTSP task |
| Network | `network.cpp` | netif started, connecting, retries, mDNS and clock started | WiFi and IP event handlers, start | event task, main task |
| Boot and supervision | `app_main.cpp`, `live.cpp` | how far the boot is | start in order, restart the capture every second | main task |
| Conversion and geometry | `src/core/frame_convert.hpp`, `ui.cpp`, `hal/hal_uvc.cpp`, `rtsp/rtsp_server.cpp` | the pixels of two canvases | choice of a size, scaling with bars, YUY2 to RGB, packing for the encoder | preview, `uvc_stream` and RTSP tasks |
| JPEG decoder | `jpeg_decoder.cpp` | engine and its lock | decode with a 250 ms lock timeout | preview task (the RTSP task has an engine of its own) |
| Clock and status screen | `ui.cpp`, fonts | labels | LVGL timers, status once a second | LVGL task, main task |

### Tasks and how they meet

| Task | Priority, core | Runs |
|---|---|---|
| UVC driver | 6, core 1 | every callback of `hal_uvc.cpp`, one at a time |
| `uvc_stream` | 5, core 1 | `stream_task` |
| `uvc_render` | 4, core 1 | `render_task`: makes displayed slots free again |
| `rtsp` | 5, core 0 | `rtsp_task`, `handle_client` and the encoder |
| preview | 3, any | the 200 ms loop of `ui.cpp` |
| LVGL | own | renders the canvas under the display lock |
| event | ESP-IDF default loop | the WiFi and IP handlers of `network.cpp` |
| main | 1 | `edge_live_start`, once a second `hal_uvc_start` if nothing is being captured |

- Frames flow from the driver task through the slots to two consumers, preview
  and RTSP. Slot metadata is guarded by `s_mutex`; the payload copies are made
  outside it, and the session flags are atomics that no lock guards.
- `stream_task` owns at most one stream handle; the disconnect callback and
  `stream_task` compete for it by an atomic exchange.
- The RTSP task decodes MJPEG into one RGB buffer. The preview borrows that
  buffer under a mutex, and draws into the hidden one of two canvas buffers that
  it swaps under the display lock.
- The RTSP task is the only one that touches the encoder. The encoder outlives
  the clients.

### What is hard, and what makes each part correct

- *Broker.* A payload is half written or half copied for a long time, while
  streams end, restart and change generation. Correct when no consumer is handed
  a payload that is not one whole frame, none goes back, no slot is lost, and the
  camera again and again finds a free slot.
- *Stream lifecycle.* Every check of a flag may be outdated when it is acted upon;
  a disconnect may come between any two steps of a negotiation. Correct when
  handles are closed exactly once, one stream is open at a time, and a camera that
  is there streams in the end.
- *Shared frame and preview.* Three tasks and two locks around one buffer and two
  canvases; freshness is judged at another moment than it is used. Correct when
  what is shown is one whole frame, no picture stays on the screen when the camera
  is gone, and the borrower never stops the decoder.
- *RTSP session.* Requests come in any order, each step of the encoder can fail,
  the encoder outlives the clients, two recoveries and a watchdog overlap. Correct
  when a client is sent only what it can decode, plays on an encoder that runs,
  and is let go when no packet can be sent.
- *Framing and packets.* Input cut at any byte, a buffer exactly as large as the
  largest frame, fragments at the limit of 1400 bytes, a socket that takes part of
  a packet and then nothing, answers and packets on one connection. Correct when
  frames and NAL units arrive whole whatever is cut where, nobody is dropped for the
  way TCP cut its bytes, a slow client costs one deadline per access unit, and
  nothing is sent after a message that was broken off.
- *Network and boot.* The start event and the boot both want to connect; retries are
  reset by an address that may be reported late; nearly every failure is a reboot.
  Correct when one party connects at a time, as often as configured, a station is
  never left idle without a reason, and the program comes up without a camera too.
- *Geometry.* Four divisions decide where a picture lies. Correct when nothing is
  read outside a frame or drawn outside the canvas, and nothing of an earlier
  picture stays visible.

`PROJECT.json` lists the hazards line by line, each with the properties that
would catch it, or why none does.

## 2. Modules

| Module | Models | Proofs |
|---|---|---|
| `UvcBroker` | slots, callback, copy call, `render_task`, and the session control as far as the slots see it | `UvcBrokerProofs` |
| `FrameFeed` | abstract: whole frames, ever newer, of the open stream; implemented by `UvcBroker` | in `UvcBrokerProofs` |
| `UvcStream` | `stream_task`, callbacks, `hal_uvc_start`/`stop`, supervision by the main loop | `UvcStreamProofs` |
| `ExclusiveHandle` | abstract: one stream at a time, each released once; implemented by `UvcStream` | in `UvcStreamProofs` |
| `SharedFrame` | decoder, mutex, preview loop, canvas swap, LVGL | `SharedFrameProofs` |
| `RtspSession` | clients, requests, priming, playing, recovery, watchdog, encoder | `RtspSessionProofs` |
| `RtspFraming` | `InputFramer` and the receive loop of `handle_client` | `RtspFramingProofs` |
| `RtpSender` | NAL scanners, fragments, RTP packets, `send_all`, what a failure leads to | in `RtspConnectionProofs` |
| `RtspConnection` | both directions of one connection: `RtspFraming` and `RtpSender` composed | `RtspConnectionProofs` |
| `Network` | the boot, the WiFi and IP event handlers, the start of the RTSP server | `NetworkProofs` |
| `Picture` | choice of a frame size, scaling into the two canvases, index arithmetic of the conversions | `PictureProofs` |
| `MC...` | the instance TLC checks of each | |

How they fit together: `UvcStream` is the session control that `UvcBroker` and
`Network` see as an environment, `UvcBroker` the camera that `SharedFrame` and
`RtspSession` see; `SharedFrame` says when a frame is shown, `Picture` how;
`RtspSession` says how a request is answered, `RtspConnection` how requests and
answers cross the socket.

In every module an operator marked "Mutant" is a plausible mistake in the
definition that follows it. No behaviour of a specification uses it; it shows
that a property can fail.

### UvcBroker and FrameFeed

One locked section of the code is one action, and a memcpy is the interval
between two actions: `BeginWrite` … `Publish`/`Abort` for the callback,
`CopyCheck`, `CopySelect` … `CopyFinish`, `CopyReturn` for each consumer. A
payload is the frame it belongs to (sequence and generation) or `Blank`; while
the callback is in its memcpy the slot holds `Blank`, so what a copy reads in
between is not a frame. `Start`, `Stop`, `Open`, `Lose` and `EndAfterFormatError`
are what the session control does to the slots and flags the data
path reads; the tasks behind them are the subject of `UvcStream`. The module does
not make a start wait for the end of a stop: in the code a stop can end while a
consumer is in its memcpy (see `UvcStream`), so the results hold for a start at any
point of a copy. `Rewind` is a
consumer that starts over (`free_usb_source_buffers` resets its sequence).
`overlap` is a history variable: a start cleared the reservation of a copy in
progress.

`FrameFeed` is the promise of `hal_uvc_copy_latest_frame` to one caller, without
slots and other callers: frames come with growing numbers, streams open and end, and a call has
nothing or one copy in hand, which it hands over if it is of the open stream and
withholds otherwise. `UvcBroker` implements it for each consumer
(`FeedsConsumers`): `seen` is the sequence the consumer names next, `hand` what its call copied and has not
returned yet, and a copy that is not whole needs `cut`, a restart that cleared a
reservation. `SharedFrame` and `RtspSession` take the broker by this promise.

### UvcStream and ExclusiveHandle

`st.pc` follows `stream_task` line by line: waiting for a start, the session
loop, up to `Profiles` attempts, the three checks of `stream_can_continue` around
the open and the start, the watch loop, the close, the retry and the end of the
session. A callback is one step up to its next blocking call, because the driver
task has the highest priority on its core. `flag` holds the atomics and the
start semaphore, `cam` the external camera with the events it has yet to deliver.
`maybe_finish_stop` has no lock and three kinds of callers: `fin` says for each of
`stream_task`, `render_task` and the consumers which of its four tests comes next,
and the tests and the store are a step each (`MaybeFinishStop`, `FinishStop`), as are
the assignments of `hal_uvc_start` and `hal_uvc_stop`. `CopyCheck`, `CopyReserve` and
`CopyEnds` are a copy as far as these tests see it, so a copy may begin between the
test of `s_active_copies` and the end of the stop, and a stop may be marked between
the tests of another caller.
`ExclusiveHandle` is the promise to the USB host library; `UvcStream` implements
it with `live <- open`.

### SharedFrame

A frame is its sequence number. `cam.base`, `cam.stale` and `cam.expired` are
marks on that scale: frames up to them belong to an earlier generation, are too
old to be displayed, or too old to stay. That keeps time and generations without
clocks. The camera is what the broker promises: a frame of the open stream that is
newer than the one named, or none. `rt` is the RTSP task's way through a
decode, `pv` the preview's way through one iteration; the mutex and the display
lock (`draw`) are explicit. The display lock may also be refused (`SwapRefused`): the
iteration then ends, and what it painted stays hidden.

### RtspSession

`enc.at` is the place of the encoder's next frame in the GOP; a frame at place 0
is an IDR. `pending` is the kept IDR, `ref` what the client can decode: nothing
but an IDR, the next frame too, or `"broken"` after it was sent a frame whose
references it does not have. `pc = "loop"` is the head of `handle_client`'s
loop, `"media"` the scheduler below the requests, `"prime"` the loop of
`prime_parameter_sets` with its caller in `prime.why`. `silent` counts units of
time since the last packet, or is `Off` while the watchdog is disarmed. What may
fail outside the task is the constant `Faults`.

### RtspFraming, RtpSender, RtspConnection

A byte stream is a sequence of digits; which digit is a dollar sign, CR or LF and how
many there are is a constant. `next()` of the framer is three predicates on the
buffer (`StartsInterleaved`/`StartsRequest`, `Incomplete`, `IsError`), and one turn
of `handle_client`'s loop is `Receive` (of any size), then one of `TakeRequest`,
`TakeInterleaved`, `NeedMore`, `Reject`. `done` keeps what was consumed, so that
`NothingLost` can say that every byte is in one place.

`RtpSender` scans an access unit with the code's two scanners (`Nals`, `HasNalType`)
and sends it packet by packet; `Send(n)` is one call of `send()` that takes n bytes,
`SendWaits` one wait of `select()` against the deadline of the unit. `heard` and
`expected` are the receiver: the packets it has whole and the number it waits for.
What arrives is compared with `Depacketized` (RFC 6184) and `AnnexB` (H.264),
definitions that share nothing with the scanners.

`RtspConnection` extends both. The one task that serves the client reads only
between two access units (`AtRest`); an answer that is broken off (`AnswerFails`)
ends the session. The framing of the composition is the framing alone:
`ConnectionRefinesFraming`.

### Network

`main` follows `edge_live_start` and `edge_network_start`; `queue` is the event
loop, one handler per action. Two handlers registered for one event are one action
in the order of their registration. `connecting` is the exchanged atomic, so the
main task's exchange (`DelayOver`) and its call (`ConnectFirst`) are two steps, with
events between. An `ESP_ERROR_CHECK` that fails is `Reboot`: every variable of the
program starts over, the access point and the camera do not. `tries` and `gaveUp`
are history variables: calls of `esp_wifi_connect` since the last address, and why
nobody calls it any more.

### Picture

A pixel is the place in a frame it was taken from, black, or left from another
frame, so "drawn", "cleared" and "forgotten" can be told apart. `Fallbacks` is the
score of `open_fallback_profile`; `Height`, `Width`, `Top`, `Left` are the integer
divisions of `preview`; `Finish` swaps the canvases or does not. The conversions of
YUY2 and the packing for the encoder are index arithmetic that TLC evaluates over
small images (`Yuy2Reaches`, `PackedOnce` in `MCPicture`).

## 3. Runs

| Run | Kind | Checks | Shows |
|---|---|---|---|
| `broker` | pass | `SelectableIsComplete`, `IntactCopy`, `ReservationsOwned`, `IInv`, `FeedsConsumers`, `CameraNeverStarved` | no half-written frame can be reserved or accepted, no reservation leaks, consumers are fed ever newer whole frames of the open stream; the callback is never without a slot for good |
| `stream_lifecycle` | pass | `IInv`, `ClosedOnce`, `NoStreamLeaks`, `OneStreamAtATime`, `RecoversUnlessAbandoned`, `StopEndsUnlessUnheard` | handles are closed once; a camera that is there streams, but for the finding below; a stop ends, in whatever order its callers read and write their flags, unless it finds the session over: then it is never acknowledged |
| `shared_frame` | pass | `IInv`, `WholeFrames`, `NoTearing`, `ScreenKnown`, `OldPictureGoes`, `DecoderServed` | the preview shows whole frames it can name; pictures leave the screen; a borrow never stops the decoder |
| `rtsp_session` | pass | `IInv`, `Decodable`, `PlayingIsUsable`, `WatchdogArmed`, `NeverSilent` | what clients are sent decodes, whatever fails; nobody stays connected in silence |
| `rtsp_connection` | pass | `FramesAreWhole`, `RejectsOnlyTheUnframable`, `NeverStuck`, `NothingLost`, `UnitArrives`, `IdrIsIdr`, `OneDeadline`, `NumberedAsAnnounced`, `CutIsLast`, `AllFramesTaken` | frames and NAL units arrive whole, in number and within one deadline; nobody is dropped or starved for the way the bytes were cut |
| `network` | pass | `OneAttempt`, `GivesUpForCause`, `BoundedReconnects`, `Boots` | one party connects at a time, the configured retries are made and no more, no station is forgotten; the boot ends without a camera too |
| `picture` | pass | `SourceInFrame`, `LeftoversAtTheEdge` | nothing is read outside a frame; only the last row or column can keep an older picture |
| `stream_recovers` | violation | `Recovers` | a disconnect during negotiation ends the session for good |
| `stop_fails_closed` | violation | `FailsClosed` | a stop is over, and the next session begins, before the tasks noticed it |
| `shared_freed` | violation | `BorrowStaysValid` | a borrowed buffer is freed |
| `rtsp_encoder_kept` | violation | `EncoderKept` | a reconnect in the middle of a GOP loses the encoder |
| `canvas_covered` | violation | `NoLeftovers` | bars and picture leave a column of the canvas untouched |

The type invariants of the modules are conjuncts of `IInv` or proved.

### Bounds, and why they are enough

- *Broker:* three slots and two consumers are the firmware's own numbers. With three
  published frames all slots are full, and a fourth write may still begin over the
  oldest and be given up; two generations and two starts give one restart with
  everything that can still be on its way from the stream before. No symmetry: the
  run also checks liveness. The proofs remove all of these bounds from the safety
  properties.
- *Stream:* two handles distinguish the old stream from the next; two profile
  attempts distinguish a first, a next and a last one; two faults or stops let one
  follow the other, e.g. a stall during the recovery from an unplug, an unplug
  during a stop, or a second stop that meets those who are still ending the first
  (`MaxFaults` counts both kinds, `MaxStops` the stops among them). Stops are allowed
  although the firmware calls `hal_uvc_stop` nowhere. One consumer: it is the third
  party to the end of a stop, beside the two tasks that acknowledge it.
- *Shared frame:* two frames are the one on the screen and a newer one; streams
  end and begin any number of times. The buffers are released once.
- *Session:* GOP 15 (the default of `Kconfig.projbuild`), five priming attempts
  and five drops are the firmware's. `Stall` is three units: enough for a timeout
  to fall before, during and after a recovery. Clients come without bound.
- *Connection:* requests and payloads of at most five bytes and a receive buffer of
  three keep the proportions of the firmware: the framer has room for exactly the
  largest interleaved frame, and a receive is smaller than that. All 3^9 streams of
  nine bytes (the size of the buffer) are cut everywhere; they hold the shortest and
  the longest request and payload, one byte more, and two frames in one buffer.
  Packets of at most five bytes: NAL units of one byte, of the limit, one more, two
  fragments and three; all access units of up to five bytes over a zero, a one and
  an IDR header make every start code and every false one. Three sequence numbers
  wrap within a unit. A PLAY repeated while playing is among the streams.
- *Network:* two retries are a first, a last and one too many; two faults and two
  camera losses let one follow another within a boot; one stop or duplicate start of
  the station. Addresses and disconnects are unbounded.
- *Picture:* a canvas of 9 by 8 and frames up to 8 by 6, with a wider, a narrower, an
  exact and a refused size, and sizes whose scaling leaves one row or one column.
  The proofs hold for every canvas and every camera.

### Fairness, and why the code justifies it

- Broker: only `render_task` is owed a step (`Reclaim`), a loop of its own that blocks
  on nothing but a short locked section. Neither the callback nor a consumer has to
  finish what it began: a consumer may keep its slot for ever.
- Stream: weak fairness of the driver task, `stream_task`, `render_task`, the main
  loop, of a stop that has begun and of the end of a copy. Each is a task of its own
  that FreeRTOS schedules; plugging in, stopping, copying and faults are never owed,
  nor is a consumer's way through `maybe_finish_stop`.
- Shared frame: time passes; the preview and a begun decode proceed. Strong fairness
  of `DecodeLock`: the mutex is a FreeRTOS mutex that hands over to the waiting task of
  the highest priority, and the RTSP task has a higher one than the preview, which
  sleeps between two iterations. `OldPictureGoes` alone assumes more (`DisplayFair`):
  LVGL finishes what it draws and the preview gets the display lock in turn, or is
  refused for ever. `DecoderServed` assumes nothing about the display lock: a borrow
  that was held while waiting for it would violate the property.
- Session: `rtsp_task` finishes a request and a priming; time passes while the
  watchdog is armed; strong fairness of `Media`, because the next frame is never
  further away than one frame period, so the scheduler cannot find nothing due
  for ever, whatever requests arrive in between.
- Connection: an access unit that is being sent comes to its end (its deadline sees to
  it), and a buffered frame is taken. Strong fairness of a turn that receives something
  and of one that finds nothing: turns go on while the client stays, TCP delivers what
  was sent, and the socket does not wait for input. The client owes nothing.
- Network: the main task runs. Nothing is owed by the station, DHCP or the camera.

### Findings

Each is a run that TLC ends with a counterexample; `PROJECT.json` quotes the lines.

1. *A camera that never comes back* (`hal_uvc.cpp:536`). Unplugged between the open
   and the watch loop, the session is left with `break`; `s_capturing` stays true
   and nobody starts it again.
2. *A stop that nobody noticed* (`hal_uvc.cpp:869`). `hal_uvc_stop` marks the stop
   before it clears the acknowledgements of the last one; a consumer that returns
   from a copy in between ends the stop, and `hal_uvc_start` goes on beside tasks
   that are still at work. It needs a caller of `hal_uvc_stop`, which this firmware
   does not have.
3. *A borrowed buffer is freed* (`rtsp_server.cpp:388`), outside the mutex that
   protects it, when a DESCRIBE fails.
4. *A reconnect loses the encoder* (`rtsp_server.cpp:1202`). Five priming attempts
   against a GOP of 15: a client that comes when the encoder stands in the middle
   of a GOP is refused and the encoder, meant to be kept, is shut down.
5. *A column stays on the screen* (`ui.cpp:200`). A scaled size one pixel short of the
   canvas has its bar rounded away: nothing clears it and the picture does not reach
   it. 352x288 is such a size; a picture of another size has to be in the buffer.

Three more observations are in the models without a run of their own; the properties
are stated around them: a copy in progress loses its
reservation when a start follows a malformed frame or a stop (`overlap` in `UvcBroker`,
which `IntactCopy` excludes: that copy may be of two frames, but no slot is exposed
half written or left marked after it); the owner of a stream handle may lose it to the disconnect
callback between a check and its use (`UvcStream`); and the preview may borrow an
older frame than it last showed, where `rtsp_server.h:31` speaks of newer ones, as
frames are compared by equality (`SharedFrame`, whose other properties hold all the
same).

## 4. Proofs

All theorems hold for every value of the constants that satisfies the named
ASSUMEs in the module that declares them: bounds are naturals (the session's are
positive), special values are no members of the sets they stand beside, the set
of readers is finite, faults are among the known kinds. Access units are sequences of
bytes (`UnitsAreBytes`) whose NAL units are not of type 28 (`UnitsAreH264`): the
encoder emits H.264, where the types from 24 on are RTP's, and a receiver would take
such a unit for a fragment.

**UvcBrokerProofs.** `IInv` holds in every reachable state (`Inductive`). From it
`TypeCorrect` (`s_active_copies` never underflows), `SelectableComplete`,
`CopyIntact`, `NoLeakedReservation`, and the action property `AdvanceOnly`.
`SelectableIsComplete` alone is not inductive: a slot that is valid
and being overwritten becomes selectable when its mark goes, so the invariant says
that the callback's slot is marked or invalid (`WriterHidden`) and that any other
valid slot holds its frame (`PublishedComplete`). For copies it says that a slot
being copied is held by one consumer and not by the callback, unless a restart
cut in (`CopyExclusive`). The counter is tied to the consumers by cardinality
(`CopiesCounted`), which needs finite-set lemmas for one consumer joining and
leaving. `ImplementsFeedOf` is the refinement of `FrameFeed`, for any one consumer
(`ImplementsFeed` states it for all at once, as the run checks it): `Publish` is a frame that
comes, `CopyFinish` a copy that gets into hand, `CopyReturn` its return, handed
over or withheld, `Rewind` starting over; every other step, the calls of the other
consumers included, is a stream that opens or
ends, a restart that cuts in, or is not seen. It needs the invariant where a copy
becomes visible: the slot is newer than the frame named (`CopyAdvances`), not newer
than the last one (`SequenceIsNewest`), of a stream that was opened
(`StreamsKnown`), and the bytes are those of one frame (`CopyExclusive`).
`AdvanceOnly` states the part of it a consumer relies on most.

**UvcStreamProofs.** `Inductive`, `TypeCorrect`, `NeverClosedTwice`, `NeverLeaked`,
and `Implements`: every step of `UvcStream` is a step of `ExclusiveHandle` or
leaves the open streams alone. The invariant says, for every place of
`stream_task`, whether it has no handle, one that is not owned yet, or one it
shares with the callback (`HandleOfTask`); that the callback, once it took a
handle, is the only one to hold it (`HandleOfDriver`); and that only open streams
have events on their way (`EventsOfOpen`).

**RtspSessionProofs.** `SessionInvariant`, and from it `SessionTypes`,
`StreamDecodable`, `PlayingUsable` and `Armed`. `Decodable` is not inductive: the
invariant adds that a kept IDR is the frame right before the encoder's next one,
on an encoder that runs (`PendingIsLast`); that DESCRIBE and PLAY are answered
with one at hand (`AnsweredWithIdr`); and that a playing client either has every
frame so far or is sent that IDR next (`InStep`). `DropsCounted` bounds the drop
counter: after the last drop comes a rebuild, and the first thing sent then
resets it. The theorem is independent of the GOP, so a GOP of one (every frame an
IDR) and one longer than the priming attempts are covered.

**RtspFramingProofs and RtspConnectionProofs.** Over any bytes, limits and streams:
`ConnectionTakesFrames`, `ConnectionRejectsForCause`, `ConnectionNeverStuck` and
`ConnectionLosesNothing` from one invariant: the buffer is within its capacity, and
whenever the loop parses a buffer without room, the buffer begins with a frame or is
an error. That needs the limits to fit each other (`FramingBounds`), which the
firmware's constants do. The rejections are about the bytes to come: an error stays
one whatever follows, and an error begins no frame. The framing of the composed
connection is the framing alone (`ConnectionRefinesFraming`), so these results carry
over. For the sender `UnitHasOneDeadline` (budget and waits add up to the deadline),
`NothingAfterACut` (a broken-off message leads to the end without another) and
`PacketsInNumber` (modulo arithmetic on the number the receiver waits for, which is
that of the packet in hand or of the next one).

What a client makes of the packets needs the scanners. `ScanIsAnnexB`: for every
byte string, the NAL units that `next_start_code` cuts out one after the other are
those Annex B defines (what is between two start codes of three bytes, less the
zeros at its end, in their order, empty ones skipped), whether a code has three or
four bytes. `TypeIsThere`: for every byte string, `has_nal_type` finds a type if and
only if one of these units has it, although it never cuts the string up.
`IdrsAreIdrs` follows from the second. `UnitsArrive` follows from the first with the
invariant `InUnit` (`UnitInvariant`; checked with TLC on the run's instance before it
was proved). It says that at every packet there are a number `k` and a place `at` such
that what the client has depacketizes to the first `k` NAL units and, while the next one
is under way, its first `at` bytes; that its fragments follow each other without a gap from a start
to an end, the last of them open exactly when a fragment must follow; and that the
marker is on the last packet of the last unit only. These proofs need induction over
sequences. The library's induction rules take an operator and cannot be
instantiated, so the lemmas argue with a least counterexample: a set of natural
numbers that is not empty has a least member (`WFMin` for the natural order), and the
step from the number before leads to a contradiction.

**NetworkProofs.** The right to connect the station is a token: it belongs to whoever
comes first, then it is with the main task, in the station driver (an attempt or a
connection), or in the single disconnect event on its way; or it is gone and
`gaveUp` says why. `ConnectsAlone`, `NeverForgotten` and `RetriesBounded` follow, for
any number of retries, faults, losses and restarts.

**SharedFrameProofs.** `rtsp_task` holds the mutex exactly while it decodes, and then
nothing is valid; the preview holds it exactly while it copies, so that what it
borrowed stays what it was (`BorrowKept`); and the hidden canvas holds what is about
to be shown (`PaintedKnown`). From this `ShowsWholeFrames`, `NeverTears` and
`KnowsItsScreen`, the first and the last as long as the buffers were never freed.

**PictureProofs.** Lemmas on division (a part of a length, scaled, is a part of the other
length) give `Geometry`: the picture lies on the canvas, half a pixel off its middle
at most. `ReadsInsideTheFrame` follows, and `OnlyTheEdgeIsLeft` by cases on which
bar is empty. `ConvertsInsideTheBuffers`: what `yuy2_to_rgb` accepts it converts
without leaving either buffer, for all sizes, strides and capacities.
`PacksEveryByteOnce`: for every even width the packing for the encoder fills its
buffer of 3/2 bytes per pixel, and no luma byte is written by two pixels; `Packing`
says which three bytes a pair of pixels takes, and counting the pairs row by row
(`PlaceOf`, `OnePlace`) does the rest.

Only model-checked: liveness (`CameraNeverStarved`, `RecoversUnlessAbandoned`,
`StopEndsUnlessUnheard`, `OldPictureGoes`, `DecoderServed`, `NeverSilent`,
`AllFramesTaken`, `Boots`), which is out of the reach of TLAPS under fairness. Every
safety and action property of the passing runs is proved.

## 5. What is left out

Not modelled:

- *RTSP responses and metrics:* text formats (SDP, headers, base64) and counters that
  the screen shows. No control depends on them. The Transport header, which decides
  whether SETUP is accepted, is a choice in `RtspSession`.
- *JPEG decoder:* one call under one lock with a timeout. Its outcome is a choice in
  `SharedFrame`, `RtspSession`; whether a payload ends with an end marker is a scan of
  256 bytes without state.
- *Clock and status screen, board and USB probe, fonts:* LVGL layout, calls of the
  board support package, a task that logs.
- *Host tests:* examples of the framing and the conversion, read as specification.

Abstracted:

- Time, except as marks, counters and waits; so nothing is said about rates or how
  likely the narrow races are.
- The USB host library, the H.264 driver, the JPEG engine, LVGL, the WiFi driver, lwIP
  and the sockets are choices of what they may answer. Colours and the content of
  a NAL unit beyond its header are not looked at.
- Memory that runs out is a fault of the session and of the boot; the buffers of the
  other components are allocated once at start.
- The encoder is used by the main task once, in `rtsp_server_prepare`, before the
  RTSP task exists; the session therefore begins with what that call left. In
  `Network` that call succeeds or aborts the boot.
- The components are composed where they share state in the code (`RtspConnection`).
  `UvcBroker`, `SharedFrame` and `RtspSession` are not run together: each takes its
  neighbour by what the neighbour's own properties promise (newer whole frames or
  none), because the product is out of TLC's reach.

## 6. What could follow

1. `SharedFrame` run against `FrameFeed` instead of a camera of its own, so that what
   the two agree on is one definition.
2. The token argument of `NetworkProofs` as an abstract specification of its own.
3. What clients are promised as an abstract specification of `RtspSession`: a stream
   that starts with an IDR frame and misses none until it ends.
