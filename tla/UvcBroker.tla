----------------------------- MODULE UvcBroker -----------------------------
(***************************************************************************)
(* The three-slot frame broker of firmware/main/hal/hal_uvc.cpp.           *)
(*                                                                         *)
(* The USB driver task copies every camera payload into one of a few       *)
(* slots; the preview task and the RTSP task copy the newest payload out   *)
(* with hal_uvc_copy_latest_frame().  Slot metadata is guarded by s_mutex, *)
(* but every memcpy runs outside it, so a slot is reserved under the lock, *)
(* copied without it and released under it again.  Each locked section is  *)
(* one action here, and a memcpy is the interval between two actions.      *)
(*                                                                         *)
(* The session control that the data path reads (streaming, capturing,     *)
(* generation, the stop request) is modelled by what it does to the slots. *)
(* The tasks that drive it are the subject of module UvcStream; here they  *)
(* may do more than there.  In particular no test of s_stop_pending holds  *)
(* a start back: maybe_finish_stop reads its conditions one by one without *)
(* a lock, a copy may begin between two of them, and so a stop may end,    *)
(* and the next start come, at any point of a copy.                        *)
(*                                                                         *)
(* An operator marked "Mutant" is a plausible mistake in the definition    *)
(* that follows it; no behaviour of the specification uses it.             *)
(***************************************************************************)
EXTENDS Naturals, FiniteSets

CONSTANTS
  Slots,           \* the frame slots, s_slots[kSlotCount]
  Readers,         \* the tasks that copy frames out: preview and RTSP
  NoSlot,          \* "no slot reserved"
  MaxSequence,     \* bound: number of frames published
  MaxGeneration,   \* bound: number of streams opened
  MaxStarts        \* bound: number of hal_uvc_start() calls

ASSUME SlotAssumption    == NoSlot \notin Slots
ASSUME ReadersAssumption == IsFiniteSet(Readers)
ASSUME BoundsAssumption  == /\ MaxSequence \in Nat
                            /\ MaxGeneration \in Nat
                            /\ MaxStarts \in Nat

VARIABLES
  slot,            \* s_slots: metadata and the payload each slot holds
  sequence,        \* s_sequence
  wslot,           \* the slot frame_callback is copying into, or NoSlot
  wgen,            \* its callback_generation
  rd,              \* per reader: where it is in hal_uvc_copy_latest_frame
  activeCopies,    \* s_active_copies
  capturing,       \* s_capturing (and s_start_requested)
  streaming,       \* s_streaming
  stopRequested,   \* s_stop_requested
  formatError,     \* s_frame_format_error
  generation,      \* s_generation
  starts,          \* how often hal_uvc_start() got past its tests
  overlap          \* history: a start cleared the slots during a reader's memcpy

\* What the driver task, the readers and the session control write.
writer  == <<sequence, wslot, wgen>>
readers == <<rd, activeCopies>>
control == <<capturing, streaming, stopRequested, formatError, generation, starts, overlap>>
vars == <<slot, writer, readers, control>>

-----------------------------------------------------------------------------
(* A payload is identified by the frame it belongs to; Blank stands for    *)
(* bytes that are not one whole frame (never written, half overwritten).   *)

Frames == [seq : Nat, gen : Nat]
Blank  == [seq |-> 0, gen |-> 0]

SlotStates == [seq : Nat, gen : Nat, data : Frames,
               ready : BOOLEAN, writing : BOOLEAN, copying : BOOLEAN, valid : BOOLEAN]

EmptySlot == [seq |-> 0, gen |-> 0, data |-> Blank,
              ready |-> FALSE, writing |-> FALSE, copying |-> FALSE, valid |-> FALSE]

ReaderStates == [pc : {"idle", "checked", "copying", "copied"}, slot : Slots \cup {NoSlot},
                 last : Nat, data : Frames, info : Frames]

IdleReader(last) == [pc |-> "idle", slot |-> NoSlot, last |-> last,
                     data |-> Blank, info |-> Blank]

FrameOf(s) == [seq |-> slot[s].seq, gen |-> slot[s].gen]

\* Readers inside their memcpy, and readers s_active_copies counts.
Copying == {r \in Readers : rd[r].pc = "copying"}
Active  == {r \in Readers : rd[r].pc \in {"copying", "copied"}}

Init ==
  /\ slot = [s \in Slots |-> EmptySlot]
  /\ sequence = 0
  /\ wslot = NoSlot
  /\ wgen = 0
  /\ rd = [r \in Readers |-> IdleReader(0)]
  /\ activeCopies = 0
  /\ capturing = FALSE
  /\ streaming = FALSE
  /\ stopRequested = FALSE
  /\ formatError = FALSE
  /\ generation = 0
  /\ starts = 0
  /\ overlap = FALSE

-----------------------------------------------------------------------------
(* The driver task: frame_callback.                                        *)

\* Mutant: the callback ignores the readers' reservations.
FreeIgnoresCopies == {s \in Slots : ~slot[s].ready /\ ~slot[s].writing}

\* Slots frame_callback may overwrite: nobody displays, writes or copies them.
FreeSlots == {s \in Slots : ~slot[s].ready /\ ~slot[s].writing /\ ~slot[s].copying}

OldestFree == {s \in FreeSlots : \A t \in FreeSlots : slot[s].seq <= slot[t].seq}

\* First locked section: reserve the oldest free slot.  The memcpy that
\* follows destroys what the slot held.  With no free slot the payload is
\* dropped and nothing changes.
BeginWrite ==
  /\ wslot = NoSlot
  /\ streaming
  /\ \E s \in OldestFree :
       /\ slot' = [slot EXCEPT ![s] = [@ EXCEPT !.writing = TRUE, !.data = Blank]]
       /\ wslot' = s
       /\ wgen' = generation
  /\ UNCHANGED <<sequence, readers, control>>

\* The session the payload belongs to is still the current one.
MayPublish == streaming /\ ~stopRequested /\ wgen = generation

\* Second locked section: publish the copied payload under the next sequence.
Publish ==
  /\ wslot # NoSlot
  /\ MayPublish
  /\ sequence < MaxSequence
  /\ sequence' = sequence + 1
  /\ slot' = [slot EXCEPT ![wslot] =
                [seq |-> sequence + 1, gen |-> wgen,
                 data |-> [seq |-> sequence + 1, gen |-> wgen],
                 ready |-> TRUE, writing |-> FALSE, copying |-> @.copying, valid |-> TRUE]]
  /\ wslot' = NoSlot
  /\ wgen' = 0
  /\ UNCHANGED <<readers, control>>

\* Mutant: the overwritten slot stays selectable when its frame is given up.
AbortKeepsValid ==
  /\ wslot # NoSlot
  /\ ~MayPublish
  /\ slot' = [slot EXCEPT ![wslot] = [@ EXCEPT !.writing = FALSE, !.ready = FALSE]]
  /\ wslot' = NoSlot
  /\ wgen' = 0
  /\ UNCHANGED <<sequence, readers, control>>

\* ... or, when the session ended meanwhile, invalidate the overwritten slot.
Abort ==
  /\ wslot # NoSlot
  /\ ~MayPublish
  /\ slot' = [slot EXCEPT ![wslot] =
                [@ EXCEPT !.writing = FALSE, !.ready = FALSE, !.valid = FALSE]]
  /\ wslot' = NoSlot
  /\ wgen' = 0
  /\ UNCHANGED <<sequence, readers, control>>

CanReopen == generation < MaxGeneration

\* A frame with an unknown format or a zero size ends the session in an error.
BadFrame ==
  /\ wslot = NoSlot
  /\ streaming
  /\ CanReopen /\ starts < MaxStarts
  /\ streaming' = FALSE
  /\ formatError' = TRUE
  /\ UNCHANGED <<slot, writer, readers, capturing, stopRequested, generation, starts, overlap>>

-----------------------------------------------------------------------------
(* The readers: hal_uvc_copy_latest_frame.                                 *)

\* The unlocked entry test.
CopyCheck(r) ==
  /\ rd[r].pc = "idle"
  /\ streaming
  /\ rd' = [rd EXCEPT ![r].pc = "checked"]
  /\ UNCHANGED <<slot, writer, activeCopies, control>>

\* Mutant: the selection loop forgets what the caller has already seen.
SelectableAgain(last) == {s \in Slots : /\ slot[s].valid
                                        /\ ~slot[s].writing
                                        /\ ~slot[s].copying
                                        /\ slot[s].gen = generation}

\* What the selection loop may hand to a reader that has seen frame `last`.
Selectable(last) == {s \in Slots : /\ slot[s].valid
                                   /\ ~slot[s].writing
                                   /\ ~slot[s].copying
                                   /\ slot[s].seq > last
                                   /\ slot[s].gen = generation}

\* Mutant: an early return that reserves no slot also ends "its" active copy.
CopySelectMiscounts(r) ==
  /\ rd[r].pc = "checked"
  /\ \/ /\ rd' = [rd EXCEPT ![r] = IdleReader(@.last)]
        /\ activeCopies' = activeCopies - 1
        /\ UNCHANGED slot
     \/ \E s \in Selectable(rd[r].last) :
          /\ \A t \in Selectable(rd[r].last) : slot[t].seq <= slot[s].seq
          /\ slot' = [slot EXCEPT ![s] = [@ EXCEPT !.copying = TRUE]]
          /\ rd' = [rd EXCEPT ![r] = [pc |-> "copying", slot |-> s, last |-> @.last,
                                      data |-> slot[s].data, info |-> Blank]]
          /\ activeCopies' = activeCopies + 1
  /\ UNCHANGED <<writer, control>>

\* First locked section: reserve the newest selectable slot; or return false,
\* because there is none or because its payload is larger than the caller's buffer.
CopySelect(r) ==
  /\ rd[r].pc = "checked"
  /\ \/ /\ rd' = [rd EXCEPT ![r] = IdleReader(@.last)]
        /\ UNCHANGED <<slot, activeCopies>>
     \/ \E s \in Selectable(rd[r].last) :
          /\ \A t \in Selectable(rd[r].last) : slot[t].seq <= slot[s].seq
          /\ slot' = [slot EXCEPT ![s] = [@ EXCEPT !.copying = TRUE]]
          /\ rd' = [rd EXCEPT ![r] = [pc |-> "copying", slot |-> s, last |-> @.last,
                                      data |-> slot[s].data, info |-> Blank]]
          /\ activeCopies' = activeCopies + 1
  /\ UNCHANGED <<writer, control>>

\* Mutant: a copy whose session ended returns without releasing its slot.
CopyFinishKeepsSlot(r) ==
  /\ rd[r].pc = "copying"
  /\ LET s == rd[r].slot IN
       /\ rd' = [rd EXCEPT ![r] =
                   [pc |-> "copied", slot |-> NoSlot, last |-> @.last, info |-> FrameOf(s),
                    data |-> IF slot[s].data = @.data THEN @.data ELSE Blank]]
       /\ slot' = [slot EXCEPT ![s] = [@ EXCEPT !.copying = ~streaming]]
  /\ UNCHANGED <<writer, activeCopies, control>>

\* Second locked section, after the memcpy: describe the copy from the slot's
\* metadata and release the slot.  Bytes that changed under the memcpy leave
\* the reader with no whole frame.
CopyFinish(r) ==
  /\ rd[r].pc = "copying"
  /\ LET s == rd[r].slot IN
       /\ rd' = [rd EXCEPT ![r] =
                   [pc |-> "copied", slot |-> NoSlot, last |-> @.last, info |-> FrameOf(s),
                    data |-> IF slot[s].data = @.data THEN @.data ELSE Blank]]
       /\ slot' = [slot EXCEPT ![s] = [@ EXCEPT !.copying = FALSE]]
  /\ UNCHANGED <<writer, activeCopies, control>>

\* The copy is no longer active; a final test decides whether the caller may use it.
Accepts(r) == streaming /\ rd[r].info.gen = generation

CopyReturn(r) ==
  /\ rd[r].pc = "copied"
  /\ rd' = [rd EXCEPT ![r] = IdleReader(IF Accepts(r) THEN @.info.seq ELSE @.last)]
  /\ activeCopies' = activeCopies - 1
  /\ UNCHANGED <<slot, writer, control>>

\* The caller's own last_sequence may move back between two calls: the RTSP
\* task resets it with its buffers, the preview takes it over from a borrowed
\* decoded frame.
Rewind(r) ==
  /\ rd[r].pc = "idle"
  /\ \E n \in 0 .. MaxSequence : n < rd[r].last /\ rd' = [rd EXCEPT ![r].last = n]
  /\ UNCHANGED <<slot, writer, activeCopies, control>>

-----------------------------------------------------------------------------
(* render_task makes published slots writable again.                       *)

\* Mutant: render_task only reclaims frames of earlier streams.
DisplayedOld == {s \in Slots : /\ slot[s].ready /\ ~slot[s].writing /\ ~slot[s].copying
                               /\ slot[s].gen # generation}

Displayed == {s \in Slots : slot[s].ready /\ ~slot[s].writing /\ ~slot[s].copying}

Reclaim ==
  /\ Displayed # {}
  /\ slot' = [s \in Slots |-> IF s \in Displayed THEN [slot[s] EXCEPT !.ready = FALSE]
                                                 ELSE slot[s]]
  /\ UNCHANGED <<writer, readers, control>>

-----------------------------------------------------------------------------
(* The session: hal_uvc_start, hal_uvc_stop and stream_task.               *)

ControlStep == UNCHANGED <<slot, writer, readers, overlap>>

\* hal_uvc_start clears every slot flag, whoever is using the slot, and begins the
\* session.  (What another task does between the two it can as well do before or
\* after them.)
Start ==
  /\ ~capturing
  /\ starts < MaxStarts
  /\ starts' = starts + 1
  /\ formatError' = FALSE
  /\ slot' = [s \in Slots |-> [slot[s] EXCEPT !.ready = FALSE, !.writing = FALSE,
                                              !.copying = FALSE, !.valid = FALSE]]
  /\ overlap' = (overlap \/ Copying # {})
  /\ stopRequested' = FALSE
  /\ capturing' = TRUE
  /\ UNCHANGED <<writer, readers, streaming, generation>>

\* stream_task opened a stream: frames of a new generation arrive.  (A stop that
\* comes after its last look at the request is the same as one just after the
\* opening: until then nothing is written or published.)
Open ==
  /\ capturing
  /\ ~streaming
  /\ ~formatError
  /\ CanReopen
  /\ generation' = generation + 1
  /\ streaming' = TRUE
  /\ UNCHANGED <<capturing, stopRequested, formatError, starts>>
  /\ ControlStep

\* A disconnect, a transfer error, the frame watchdog or a stop ends the stream.
Lose ==
  /\ streaming
  /\ CanReopen
  /\ streaming' = FALSE
  /\ UNCHANGED <<capturing, stopRequested, formatError, generation, starts>>
  /\ ControlStep

\* stream_task gives the session up after a malformed frame; it does not wait
\* for the readers.
EndAfterFormatError ==
  /\ capturing
  /\ formatError
  /\ capturing' = FALSE
  /\ UNCHANGED <<streaming, stopRequested, formatError, generation, starts>>
  /\ ControlStep

\* hal_uvc_stop asks the tasks for a stop and ends the capture.  Its mark and the
\* acknowledgements that remove it only delay the next start, as said above.
Stop ==
  /\ capturing
  /\ CanReopen /\ starts < MaxStarts
  /\ stopRequested' = TRUE
  /\ capturing' = FALSE
  /\ UNCHANGED <<streaming, formatError, generation, starts>>
  /\ ControlStep

-----------------------------------------------------------------------------
ReaderStep(r) == CopyCheck(r) \/ CopySelect(r) \/ CopyFinish(r) \/ CopyReturn(r)
                 \/ Rewind(r)

Next ==
  \/ BeginWrite \/ Publish \/ Abort \/ BadFrame
  \/ \E r \in Readers : ReaderStep(r)
  \/ Reclaim
  \/ Start \/ Stop \/ Open \/ Lose \/ EndAfterFormatError

Spec == Init /\ [][Next]_vars

\* render_task wakes up at least every 500 ms.  Nothing else is owed: a memcpy
\* may take for ever, a consumer may never come back.
Fairness == WF_vars(Reclaim)

FairSpec == Spec /\ Fairness

-----------------------------------------------------------------------------
TypeOK ==
  /\ slot \in [Slots -> SlotStates]
  /\ sequence \in Nat
  /\ wslot \in Slots \cup {NoSlot}
  /\ wgen \in Nat
  /\ rd \in [Readers -> ReaderStates]
  /\ activeCopies \in Nat
  /\ capturing \in BOOLEAN
  /\ streaming \in BOOLEAN
  /\ stopRequested \in BOOLEAN
  /\ formatError \in BOOLEAN
  /\ generation \in Nat
  /\ starts \in Nat
  /\ overlap \in BOOLEAN

\* Whatever a reader could reserve now holds one whole frame, and it is the
\* frame its metadata describes: no interleaving of the callback's memcpy,
\* a stop, a disconnect, a new generation and a restart exposes a slot that
\* is half overwritten (frame_callback's abort, hal_uvc.cpp:217-229).
SelectableIsComplete ==
  \A s \in Selectable(0) : slot[s].data = FrameOf(s)

\* A copy that hal_uvc_copy_latest_frame is about to accept is one whole
\* frame, described by the info returned with it, unless a hal_uvc_start
\* cleared the reservations while a reader was in its memcpy.
IntactCopy ==
  ~overlap => \A r \in Readers :
    rd[r].pc = "copied" /\ Accepts(r) => rd[r].data = rd[r].info

\* No reservation leaks: a slot marked writing belongs to the callback that is
\* in its memcpy, a slot marked copying to a reader in its memcpy.  A leaked
\* flag would take the slot out of service until the next hal_uvc_start.
ReservationsOwned ==
  \A s \in Slots : /\ slot[s].writing => wslot = s
                   /\ slot[s].copying => \E r \in Copying : rd[r].slot = s

\* A reader only moves forward: the frame a call accepts is newer than the one
\* the caller named, although its sequence is read again after the memcpy and
\* the slot may have been cleared, rewritten and republished in between.
ReadersAdvance ==
  [][\A r \in Readers : rd[r].pc = "copied" /\ rd'[r].last # rd[r].last
                          => rd'[r].last > rd[r].last]_vars

\* What a call of the reader has in hand between the memcpy and the last test.
HandOf(r) == IF rd[r].pc = "copied"
             THEN {[frame |-> rd[r].info, whole |-> rd[r].data = rd[r].info]} ELSE {}

Feed(r) == INSTANCE FrameFeed WITH
  newest <- sequence, stream <- generation, open <- streaming, cut <- overlap,
  seen <- rd[r].last, hand <- HandOf(r)

FeedsStart == \A r \in Readers : Feed(r)!Init
FeedsStep  == \A r \in Readers : [Feed(r)!Next]_(Feed(r)!vars)

\* To each consumer the broker is a FrameFeed: whatever the callback, the other
\* consumer and the session control do between the locked sections of a call, and
\* although a frame is described only after its memcpy, the call hands over a whole
\* frame that came after the one named and is of the open stream, or none.  (This
\* is \A r \in Readers : Feed(r)!Spec, in a form that TLC takes.)
FeedsConsumers == FeedsStart /\ [][FeedsStep]_vars

\* The camera is never locked out for good: again and again the callback is
\* copying a payload or has a slot to copy the next one into, even if every
\* reader keeps the slot it holds for ever.
CameraNeverStarved == []<>(wslot # NoSlot \/ FreeSlots # {})
-----------------------------------------------------------------------------
(* The inductive invariant behind the safety properties.                   *)

\* s_active_copies counts the readers between reserving a slot and returning.
CopiesCounted == activeCopies = Cardinality(Active)

\* The slot under the callback's memcpy is out of the readers' reach: it is
\* marked, or a restart during the memcpy made it invalid.
WriterHidden == wslot # NoSlot => slot[wslot].writing \/ ~slot[wslot].valid

\* A published slot that the callback is not overwriting holds its frame.
PublishedComplete ==
  \A s \in Slots : slot[s].valid /\ s # wslot => slot[s].data = FrameOf(s)

\* Unless a restart cut into a copy, a reader in its memcpy has its slot
\* reserved and to itself, and has copied what the slot holds.
CopyExclusive ==
  ~overlap => \A r \in Copying, s \in Slots : rd[r].slot = s =>
    /\ slot[s].copying
    /\ s # wslot
    /\ rd[r].data = slot[s].data
    /\ slot[s].data = FrameOf(s)
    /\ \A q \in Copying : rd[q].slot = s => q = r

CopiedIntact == ~overlap => \A r \in Readers : rd[r].pc = "copied" => rd[r].data = rd[r].info

\* The reader knows its slot, and the slot was published after the frame the
\* caller had already seen.
CopyAdvances ==
  \A r \in Readers :
    /\ rd[r].pc = "copying" => rd[r].slot # NoSlot /\ slot[rd[r].slot].seq > rd[r].last
    /\ rd[r].pc = "copied"  => rd[r].info.seq > rd[r].last

\* Sequences only grow.
SequenceIsNewest == \A s \in Slots : slot[s].seq <= sequence

\* Frames are of streams that were opened.
StreamsKnown ==
  /\ streaming => generation > 0
  /\ \A s \in Slots : /\ slot[s].gen <= generation
                      /\ slot[s].seq > 0 => slot[s].gen > 0

IInv ==
  /\ TypeOK
  /\ StreamsKnown
  /\ CopiesCounted
  /\ WriterHidden
  /\ PublishedComplete
  /\ CopyExclusive
  /\ CopiedIntact
  /\ CopyAdvances
  /\ SequenceIsNewest
  /\ ReservationsOwned
=============================================================================
