-------------------------- MODULE UvcBrokerProofs --------------------------
(***************************************************************************)
(* Proofs about the frame broker, for any number of slots and readers and  *)
(* for every bound.                                                        *)
(***************************************************************************)
EXTENDS UvcBroker, TLAPS, FiniteSetTheorems

\* IInv without the count and the streams, which are proved on their own.
Parts == /\ TypeOK /\ WriterHidden /\ PublishedComplete /\ CopyExclusive
         /\ CopiedIntact /\ CopyAdvances /\ SequenceIsNewest /\ ReservationsOwned

\* The initial state satisfies every part.
LEMMA InitParts == Init => Parts /\ CopiesCounted /\ StreamsKnown
<1> SUFFICES ASSUME Init PROVE Parts /\ CopiesCounted /\ StreamsKnown
  OBVIOUS
<1>1. TypeOK
  BY SlotAssumption DEF Init, TypeOK, SlotStates, EmptySlot, ReaderStates, IdleReader, Frames, Blank
<1>2. Copying = {} /\ Active = {}
  BY DEF Init, Copying, Active, IdleReader
<1>3. CopiesCounted
  BY <1>2, FS_EmptySet DEF Init, CopiesCounted
<1>4. WriterHidden /\ PublishedComplete /\ SequenceIsNewest /\ ReservationsOwned
  BY SlotAssumption DEF Init, WriterHidden, PublishedComplete, SequenceIsNewest,
                        ReservationsOwned, EmptySlot
<1>5. CopyExclusive /\ CopiedIntact /\ CopyAdvances
  BY <1>2 DEF Init, CopyExclusive, CopiedIntact, CopyAdvances, IdleReader
<1>6. StreamsKnown
  BY DEF Init, StreamsKnown, EmptySlot
<1> QED
  BY <1>1, <1>3, <1>4, <1>5, <1>6 DEF Parts

\* Reserving a slot for the camera.
LEMMA BeginWriteParts == Parts /\ BeginWrite => Parts'
<1> SUFFICES ASSUME Parts, BeginWrite PROVE Parts'
  OBVIOUS
<1> USE DEF Parts
<1>1. PICK s \in OldestFree :
         /\ slot' = [slot EXCEPT ![s] = [@ EXCEPT !.writing = TRUE, !.data = Blank]]
         /\ wslot' = s
         /\ wgen' = generation
  BY DEF BeginWrite
<1>2. /\ s \in Slots /\ ~slot[s].copying /\ ~slot[s].writing /\ wslot = NoSlot
      /\ UNCHANGED <<sequence, rd, activeCopies, control>>
  BY <1>1 DEF BeginWrite, OldestFree, FreeSlots, readers
<1>3. TypeOK'
  BY <1>1, <1>2 DEF TypeOK, SlotStates, Frames, Blank, control
<1>4. \A t \in Slots : t # s => slot'[t] = slot[t]
  BY <1>1 DEF TypeOK
<1>5. /\ slot'[s].writing /\ slot'[s].valid = slot[s].valid /\ slot'[s].seq = slot[s].seq
      /\ slot'[s].copying = slot[s].copying
  BY <1>1, <1>2 DEF TypeOK, SlotStates
<1>6. WriterHidden' /\ PublishedComplete' /\ SequenceIsNewest' /\ ReservationsOwned'
  BY <1>1, <1>2, <1>4, <1>5, SlotAssumption
     DEF WriterHidden, PublishedComplete, SequenceIsNewest, ReservationsOwned, FrameOf, Copying
<1>7. CopyExclusive' /\ CopiedIntact' /\ CopyAdvances'
  BY <1>1, <1>2, <1>4, <1>5, SlotAssumption
     DEF CopyExclusive, CopiedIntact, CopyAdvances, FrameOf, Copying, control, TypeOK, ReaderStates
<1> QED
  BY <1>3, <1>6, <1>7

\* Publishing a whole frame, or giving its slot up.
LEMMA EndWriteParts == Parts /\ (Publish \/ Abort) => Parts'
<1> SUFFICES ASSUME Parts, Publish \/ Abort PROVE Parts'
  OBVIOUS
<1> USE DEF Parts
<1> PICK s \in Slots : s = wslot
  BY DEF Publish, Abort, TypeOK
<1>1. /\ s # NoSlot /\ wslot' = NoSlot /\ wgen' = 0
      /\ UNCHANGED <<rd, activeCopies, control>>
  BY DEF Publish, Abort, TypeOK, readers
<1>2. slot[s] \in SlotStates /\ slot[s].seq <= sequence /\ sequence \in Nat /\ wgen \in Nat
  BY DEF TypeOK, SequenceIsNewest
<1>3. /\ sequence' \in Nat /\ sequence <= sequence'
      /\ \E v \in SlotStates :
           /\ slot' = [slot EXCEPT ![s] = v]
           /\ ~v.writing /\ v.copying = slot[s].copying
           /\ slot[s].seq <= v.seq /\ v.seq <= sequence'
           /\ v.valid => v.data = [seq |-> v.seq, gen |-> v.gen]
  <2>1. CASE Publish
    <3> DEFINE v == [seq |-> sequence + 1, gen |-> wgen,
                     data |-> [seq |-> sequence + 1, gen |-> wgen],
                     ready |-> TRUE, writing |-> FALSE, copying |-> slot[s].copying,
                     valid |-> TRUE]
    <3>1. slot' = [slot EXCEPT ![s] = v] /\ sequence' = sequence + 1
      BY <2>1 DEF Publish
    <3>2. v \in SlotStates
      BY <1>2 DEF SlotStates, Frames
    <3>3. slot[s].seq <= v.seq /\ v.seq <= sequence' /\ sequence' \in Nat /\ sequence <= sequence'
      BY <1>2, <3>1 DEF SlotStates
    <3>4. ~v.writing /\ v.copying = slot[s].copying /\ v.data = [seq |-> v.seq, gen |-> v.gen]
      OBVIOUS
    <3> HIDE DEF v
    <3> QED
      BY <3>1, <3>2, <3>3, <3>4
  <2>2. CASE Abort
    <3> DEFINE v == [slot[s] EXCEPT !.writing = FALSE, !.ready = FALSE, !.valid = FALSE]
    <3>1. slot' = [slot EXCEPT ![s] = v] /\ sequence' = sequence
      BY <2>2 DEF Abort
    <3>2. v \in SlotStates
      BY <1>2 DEF SlotStates
    <3>3. ~v.writing /\ ~v.valid /\ v.copying = slot[s].copying /\ v.seq = slot[s].seq
      BY <1>2 DEF SlotStates
    <3>4. slot[s].seq <= v.seq /\ v.seq <= sequence' /\ sequence' \in Nat /\ sequence <= sequence'
      BY <1>2, <3>1, <3>3 DEF SlotStates
    <3> HIDE DEF v
    <3> QED
      BY <3>1, <3>2, <3>3, <3>4
  <2> QED
    BY <2>1, <2>2
<1>4. PICK v \in SlotStates :
           /\ slot' = [slot EXCEPT ![s] = v]
           /\ ~v.writing /\ v.copying = slot[s].copying
           /\ slot[s].seq <= v.seq /\ v.seq <= sequence'
           /\ v.valid => v.data = [seq |-> v.seq, gen |-> v.gen]
  BY <1>3
<1>5. /\ slot' \in [Slots -> SlotStates] /\ slot'[s] = v
      /\ \A t \in Slots : t # s => slot'[t] = slot[t]
  BY <1>4 DEF TypeOK
<1>6. TypeOK'
  BY <1>1, <1>3, <1>5 DEF TypeOK, control
<1>7. \A t \in Slots : slot'[t].seq \in Nat /\ slot[t].seq \in Nat /\ slot[t].seq <= slot'[t].seq
  BY <1>4, <1>5 DEF TypeOK, SlotStates
<1>8. WriterHidden' /\ PublishedComplete' /\ ReservationsOwned'
  BY <1>1, <1>4, <1>5 DEF WriterHidden, PublishedComplete, ReservationsOwned, FrameOf, Copying
<1>9. SequenceIsNewest'
  BY <1>3, <1>4, <1>5, <1>7 DEF SequenceIsNewest, TypeOK
<1>10. CopyExclusive'
  <2> SUFFICES ASSUME ~overlap', NEW r \in Copying', NEW t \in Slots, rd'[r].slot = t
               PROVE  /\ slot'[t].copying /\ t # wslot'
                      /\ rd'[r].data = slot'[t].data
                      /\ slot'[t].data = [seq |-> slot'[t].seq, gen |-> slot'[t].gen]
                      /\ \A q \in Copying' : rd'[q].slot = t => q = r
    BY DEF CopyExclusive, FrameOf
  <2>1. ~overlap /\ r \in Copying /\ rd[r].slot = t /\ Copying' = Copying /\ t # NoSlot
    BY <1>1, SlotAssumption DEF Copying, control
  <2>2. t # s /\ slot'[t] = slot[t]
    BY <1>5, <2>1 DEF CopyExclusive
  <2> QED
    BY <1>1, <2>1, <2>2 DEF CopyExclusive, FrameOf
<1>11. CopiedIntact' /\ CopyAdvances'
  BY <1>1, <1>5, <1>7 DEF CopiedIntact, CopyAdvances, control, TypeOK, ReaderStates
<1> QED
  BY <1>6, <1>8, <1>9, <1>10, <1>11

\* Steps of a reader that leave the slots alone.
LEMMA ReaderLocalParts ==
  ASSUME NEW r \in Readers, Parts, CopyCheck(r) \/ Rewind(r)
  PROVE  Parts'
<1> USE DEF Parts
<1>1. /\ UNCHANGED <<slot, sequence, wslot, wgen, activeCopies, control>>
      /\ rd' \in [Readers -> ReaderStates]
      /\ \A q \in Readers : q # r => rd'[q] = rd[q]
      /\ rd[r].pc = "idle" /\ rd'[r].pc \in {"idle", "checked"}
  BY BoundsAssumption DEF CopyCheck, Rewind, TypeOK, ReaderStates, writer
<1>2. Copying' = Copying
  BY <1>1 DEF Copying
<1>3. TypeOK'
  BY <1>1 DEF TypeOK, control
<1>4. WriterHidden' /\ PublishedComplete' /\ SequenceIsNewest'
  BY <1>1 DEF WriterHidden, PublishedComplete, SequenceIsNewest, FrameOf
<1>5. ReservationsOwned' /\ CopyExclusive' /\ CopiedIntact' /\ CopyAdvances'
  BY <1>1, <1>2 DEF ReservationsOwned, CopyExclusive, CopiedIntact, CopyAdvances, FrameOf,
                    Copying, control
<1> QED
  BY <1>3, <1>4, <1>5

\* Reserving a slot for a reader, or finding none.
LEMMA CopySelectParts ==
  ASSUME NEW r \in Readers, Parts, CopySelect(r)
  PROVE  Parts'
<1> USE DEF Parts
<1>1. /\ UNCHANGED <<sequence, wslot, wgen, control>> /\ rd[r].pc = "checked"
  BY DEF CopySelect, writer
<1>2. CASE rd' = [rd EXCEPT ![r] = IdleReader(@.last)] /\ UNCHANGED <<slot, activeCopies>>
  <2>1. /\ rd' \in [Readers -> ReaderStates]
        /\ \A q \in Readers : q # r => rd'[q] = rd[q]
        /\ rd'[r].pc = "idle"
    BY <1>2 DEF TypeOK, ReaderStates, IdleReader, Frames, Blank
  <2>2. Copying' = Copying
    BY <1>1, <2>1 DEF Copying
  <2>3. TypeOK'
    BY <1>1, <1>2, <2>1 DEF TypeOK, control
  <2>4. WriterHidden' /\ PublishedComplete' /\ SequenceIsNewest'
    BY <1>1, <1>2 DEF WriterHidden, PublishedComplete, SequenceIsNewest, FrameOf
  <2>5. ReservationsOwned' /\ CopyExclusive' /\ CopiedIntact' /\ CopyAdvances'
    BY <1>1, <1>2, <2>1, <2>2
       DEF ReservationsOwned, CopyExclusive, CopiedIntact, CopyAdvances, FrameOf, Copying, control
  <2> QED
    BY <2>3, <2>4, <2>5
<1>3. CASE \E s \in Selectable(rd[r].last) :
              /\ slot' = [slot EXCEPT ![s] = [@ EXCEPT !.copying = TRUE]]
              /\ rd' = [rd EXCEPT ![r] = [pc |-> "copying", slot |-> s, last |-> @.last,
                                          data |-> slot[s].data, info |-> Blank]]
              /\ activeCopies' = activeCopies + 1
  <2>1. PICK s \in Selectable(rd[r].last) :
              /\ slot' = [slot EXCEPT ![s] = [@ EXCEPT !.copying = TRUE]]
              /\ rd' = [rd EXCEPT ![r] = [pc |-> "copying", slot |-> s, last |-> @.last,
                                          data |-> slot[s].data, info |-> Blank]]
              /\ activeCopies' = activeCopies + 1
    BY <1>3
  <2>2. /\ s \in Slots /\ slot[s].valid /\ ~slot[s].writing /\ ~slot[s].copying
        /\ slot[s].seq > rd[r].last /\ s # NoSlot
    BY SlotAssumption DEF Selectable
  <2>3. s # wslot /\ slot[s].data = FrameOf(s)
    BY <2>2 DEF WriterHidden, PublishedComplete
  <2>4. /\ slot' \in [Slots -> SlotStates]
        /\ \A t \in Slots : t # s => slot'[t] = slot[t]
        /\ slot'[s].copying /\ ~slot'[s].writing /\ slot'[s].valid
        /\ slot'[s].seq = slot[s].seq /\ slot'[s].data = slot[s].data /\ FrameOf(s)' = FrameOf(s)
    BY <2>1, <2>2 DEF TypeOK, SlotStates, FrameOf
  <2>5. /\ rd' \in [Readers -> ReaderStates]
        /\ \A q \in Readers : q # r => rd'[q] = rd[q]
        /\ rd'[r].pc = "copying" /\ rd'[r].slot = s /\ rd'[r].last = rd[r].last
        /\ rd'[r].data = slot[s].data
    BY <2>1, <2>2 DEF TypeOK, ReaderStates, SlotStates, Frames, Blank
  <2>6. TypeOK'
    BY <1>1, <2>1, <2>4, <2>5 DEF TypeOK, control
  <2>7. Copying' = Copying \cup {r}
    BY <1>1, <2>5 DEF Copying
  <2>8. WriterHidden' /\ PublishedComplete' /\ SequenceIsNewest'
    BY <1>1, <2>3, <2>4 DEF WriterHidden, PublishedComplete, SequenceIsNewest, FrameOf, TypeOK
  <2>9. ReservationsOwned'
    BY <1>1, <2>4, <2>5, <2>7 DEF ReservationsOwned, Copying
  <2>10. CopyExclusive'
    <3> SUFFICES ASSUME ~overlap', NEW p \in Copying', NEW t \in Slots, rd'[p].slot = t
                 PROVE  /\ slot'[t].copying /\ t # wslot'
                        /\ rd'[p].data = slot'[t].data
                        /\ slot'[t].data = FrameOf(t)'
                        /\ \A q \in Copying' : rd'[q].slot = t => q = p
      BY DEF CopyExclusive
    <3>1. ~overlap /\ wslot' = wslot
      BY <1>1 DEF control
    <3>2. \A q \in Copying : q # r /\ rd[q].slot # s
      BY <1>1, <2>2, <3>1 DEF CopyExclusive, Copying
    <3>3. CASE p = r
      BY <2>3, <2>4, <2>5, <2>7, <3>1, <3>2, <3>3 DEF Copying
    <3>4. CASE p # r
      <4>1. p \in Copying /\ rd[p].slot = t /\ t # s /\ slot'[t] = slot[t] /\ rd'[p] = rd[p]
        BY <2>4, <2>5, <2>7, <3>2, <3>4 DEF Copying
      <4> QED
        BY <2>5, <2>7, <3>1, <3>2, <4>1 DEF CopyExclusive, FrameOf, Copying
    <3> QED
      BY <3>3, <3>4
  <2>11. CopiedIntact' /\ CopyAdvances'
    BY <1>1, <2>2, <2>4, <2>5, SlotAssumption DEF CopiedIntact, CopyAdvances, control, TypeOK, ReaderStates
  <2> QED
    BY <2>6, <2>8, <2>9, <2>10, <2>11
<1> QED
  BY <1>2, <1>3 DEF CopySelect

\* Leaving the memcpy and releasing the slot.
LEMMA CopyFinishParts ==
  ASSUME NEW r \in Readers, Parts, CopyFinish(r)
  PROVE  Parts'
<1> USE DEF Parts
<1> PICK s \in Slots : s = rd[r].slot
  BY DEF CopyFinish, CopyAdvances, TypeOK, ReaderStates
<1>1. /\ UNCHANGED <<sequence, wslot, wgen, activeCopies, control>> /\ r \in Copying
      /\ slot[s].seq > rd[r].last
  BY DEF CopyFinish, writer, Copying, CopyAdvances, TypeOK, ReaderStates
<1>2. /\ slot' \in [Slots -> SlotStates]
      /\ \A t \in Slots : t # s => slot'[t] = slot[t]
      /\ ~slot'[s].copying /\ slot'[s].writing = slot[s].writing /\ slot'[s].valid = slot[s].valid
      /\ slot'[s].seq = slot[s].seq /\ slot'[s].data = slot[s].data /\ FrameOf(s)' = FrameOf(s)
  BY <1>1 DEF CopyFinish, TypeOK, SlotStates, FrameOf
<1>3. FrameOf(s) \in Frames /\ Blank \in Frames /\ FrameOf(s).seq = slot[s].seq
  BY <1>1 DEF TypeOK, SlotStates, FrameOf, Frames, Blank
<1>4. /\ rd' \in [Readers -> ReaderStates]
      /\ \A q \in Readers : q # r => rd'[q] = rd[q]
      /\ rd'[r].pc = "copied" /\ rd'[r].info = FrameOf(s) /\ rd'[r].last = rd[r].last
      /\ rd'[r].data = IF slot[s].data = rd[r].data THEN rd[r].data ELSE Blank
  BY <1>1, <1>3 DEF CopyFinish, TypeOK, ReaderStates
<1>5. TypeOK'
  BY <1>1, <1>2, <1>4 DEF TypeOK, control
<1>6. Copying' = Copying \ {r}
  BY <1>1, <1>4 DEF Copying
<1>7. WriterHidden' /\ PublishedComplete' /\ SequenceIsNewest'
  BY <1>1, <1>2 DEF WriterHidden, PublishedComplete, SequenceIsNewest, FrameOf, TypeOK
<1>8. ReservationsOwned'
  <2> SUFFICES ASSUME NEW t \in Slots
               PROVE  /\ slot'[t].writing => wslot' = t
                      /\ slot'[t].copying => \E q \in Copying' : rd'[q].slot = t
    BY DEF ReservationsOwned
  <2>1. slot'[t].writing => wslot' = t
    BY <1>1, <1>2 DEF ReservationsOwned
  <2>2. ASSUME slot'[t].copying PROVE \E q \in Copying' : rd'[q].slot = t
    <3>1. t # s /\ slot[t].copying
      BY <2>2, <1>2
    <3>2. PICK q \in Copying : rd[q].slot = t
      BY <3>1 DEF ReservationsOwned
    <3> QED
      BY <3>1, <3>2, <1>4, <1>6 DEF Copying
  <2> QED
    BY <2>1, <2>2
<1>9. CopyExclusive'
  <2> SUFFICES ASSUME ~overlap', NEW p \in Copying', NEW t \in Slots, rd'[p].slot = t
               PROVE  /\ slot'[t].copying /\ t # wslot'
                      /\ rd'[p].data = slot'[t].data
                      /\ slot'[t].data = FrameOf(t)'
                      /\ \A q \in Copying' : rd'[q].slot = t => q = p
    BY DEF CopyExclusive
  <2>1. ~overlap /\ p \in Copying /\ p # r /\ rd[p].slot = t /\ rd'[p] = rd[p]
    BY <1>1, <1>4, <1>6 DEF control, Copying
  <2>2. t # s /\ slot'[t] = slot[t]
    BY <1>1, <1>2, <2>1 DEF CopyExclusive
  <2> QED
    BY <1>1, <1>4, <1>6, <2>1, <2>2 DEF CopyExclusive, FrameOf, Copying
<1>10. CopiedIntact'
  BY <1>1, <1>4 DEF CopiedIntact, CopyExclusive, control, Copying
<1>11. CopyAdvances'
  BY <1>1, <1>2, <1>3, <1>4 DEF CopyAdvances, TypeOK, ReaderStates
<1> QED
  BY <1>5, <1>7, <1>8, <1>9, <1>10, <1>11

\* Returning from the call.  The count makes the decrement safe.
LEMMA CopyReturnParts ==
  ASSUME NEW r \in Readers, Parts, CopiesCounted, CopyReturn(r)
  PROVE  Parts'
<1> USE DEF Parts
<1>1. /\ UNCHANGED <<slot, sequence, wslot, wgen, control>>
      /\ rd[r].pc = "copied" /\ activeCopies' = activeCopies - 1
  BY DEF CopyReturn, writer
<1>2. activeCopies' \in Nat
  <2>1. IsFiniteSet(Active) /\ r \in Active
    BY <1>1, ReadersAssumption, FS_Subset DEF Active
  <2>2. Cardinality(Active) \in Nat /\ Cardinality(Active) # 0
    BY <2>1, FS_CardinalityType, FS_EmptySet
  <2> QED
    BY <1>1, <2>2 DEF CopiesCounted
<1>3. /\ rd' \in [Readers -> ReaderStates]
      /\ \A q \in Readers : q # r => rd'[q] = rd[q]
      /\ rd'[r].pc = "idle"
  BY DEF CopyReturn, TypeOK, ReaderStates, IdleReader, Frames, Blank
<1>4. TypeOK'
  BY <1>1, <1>2, <1>3 DEF TypeOK, control
<1>5. Copying' = Copying
  BY <1>1, <1>3 DEF Copying
<1>6. WriterHidden' /\ PublishedComplete' /\ SequenceIsNewest'
  BY <1>1 DEF WriterHidden, PublishedComplete, SequenceIsNewest, FrameOf
<1>7. ReservationsOwned' /\ CopyExclusive' /\ CopiedIntact' /\ CopyAdvances'
  BY <1>1, <1>3, <1>5
     DEF ReservationsOwned, CopyExclusive, CopiedIntact, CopyAdvances, FrameOf, Copying, control
<1> QED
  BY <1>4, <1>6, <1>7

\* render_task and hal_uvc_start change flags of many slots at once.
LEMMA ReclaimParts == Parts /\ Reclaim => Parts'
<1> SUFFICES ASSUME Parts, Reclaim PROVE Parts'
  OBVIOUS
<1> USE DEF Parts
<1>1. UNCHANGED <<sequence, wslot, wgen, rd, activeCopies, control>>
  BY DEF Reclaim, writer, readers
<1>2. \A s \in Slots : /\ slot'[s] \in SlotStates /\ slot'[s].writing = slot[s].writing
                      /\ slot'[s].copying = slot[s].copying /\ slot'[s].valid = slot[s].valid
                      /\ slot'[s].seq = slot[s].seq /\ slot'[s].gen = slot[s].gen
                      /\ slot'[s].data = slot[s].data
  BY DEF Reclaim, TypeOK, SlotStates
<1>3. TypeOK'
  BY <1>1, <1>2 DEF Reclaim, TypeOK, control
<1>4. WriterHidden' /\ PublishedComplete' /\ SequenceIsNewest' /\ ReservationsOwned'
  BY <1>1, <1>2 DEF WriterHidden, PublishedComplete, SequenceIsNewest, ReservationsOwned,
                    FrameOf, Copying, TypeOK
<1>5. CopyExclusive'
  BY <1>1, <1>2 DEF CopyExclusive, FrameOf, Copying, control
<1>6. CopiedIntact' /\ CopyAdvances'
  BY <1>1, <1>2 DEF CopiedIntact, CopyAdvances, control, TypeOK, ReaderStates
<1> QED
  BY <1>3, <1>4, <1>5, <1>6

\* hal_uvc_start keeps every part: the slots it clears are invalid.
LEMMA StartParts == Parts /\ Start => Parts'
<1> SUFFICES ASSUME Parts, Start PROVE Parts'
  OBVIOUS
<1> USE DEF Parts
<1>1. UNCHANGED <<sequence, wslot, wgen, rd, activeCopies>>
  BY DEF Start, writer, readers
<1>2. \A s \in Slots : /\ slot'[s] \in SlotStates /\ ~slot'[s].writing
                      /\ ~slot'[s].copying /\ ~slot'[s].valid
                      /\ slot'[s].seq = slot[s].seq
  BY DEF Start, TypeOK, SlotStates
<1>3. TypeOK'
  <2>1. slot' \in [Slots -> SlotStates]
    BY <1>2 DEF Start
  <2>2. /\ capturing' \in BOOLEAN /\ streaming' \in BOOLEAN /\ stopRequested' \in BOOLEAN
        /\ formatError' \in BOOLEAN
        /\ overlap' \in BOOLEAN
    BY DEF Start, TypeOK
  <2>3. UNCHANGED generation /\ starts' = starts + 1
    BY DEF Start
  <2> QED
    BY <1>1, <2>1, <2>2, <2>3 DEF TypeOK
<1>4. WriterHidden' /\ PublishedComplete' /\ SequenceIsNewest' /\ ReservationsOwned'
  BY <1>1, <1>2 DEF WriterHidden, PublishedComplete, SequenceIsNewest, ReservationsOwned, TypeOK
<1>5. ~overlap' => Copying' = {} /\ ~overlap
  BY <1>1 DEF Start, Copying
<1>6. CopyExclusive' /\ CopiedIntact' /\ CopyAdvances'
  BY <1>1, <1>2, <1>5 DEF CopyExclusive, CopiedIntact, CopyAdvances, TypeOK, ReaderStates
<1> QED
  BY <1>3, <1>4, <1>6

\* The other control steps touch no slot and no reader.
LEMMA ControlParts ==
  Parts /\ (BadFrame \/ Open \/ Lose \/ EndAfterFormatError \/ Stop) => Parts'
<1> SUFFICES ASSUME Parts, BadFrame \/ Open \/ Lose \/ EndAfterFormatError \/ Stop
             PROVE  Parts'
  OBVIOUS
<1> USE DEF Parts
<1>1. UNCHANGED <<slot, sequence, wslot, wgen, rd, activeCopies, overlap>>
  BY DEF BadFrame, Open, Lose, EndAfterFormatError, Stop, ControlStep, writer, readers
<1>2. TypeOK'
  <2>1. /\ capturing' \in BOOLEAN /\ streaming' \in BOOLEAN /\ stopRequested' \in BOOLEAN
        /\ formatError' \in BOOLEAN
    BY DEF BadFrame, Open, Lose, EndAfterFormatError, Stop, ControlStep, TypeOK
  <2>2. UNCHANGED starts /\ (UNCHANGED generation \/ generation' = generation + 1)
    BY DEF BadFrame, Open, Lose, EndAfterFormatError, Stop, ControlStep
  <2> QED
    BY <1>1, <2>1, <2>2 DEF TypeOK
<1>3. WriterHidden' /\ PublishedComplete' /\ SequenceIsNewest' /\ ReservationsOwned'
  BY <1>1 DEF WriterHidden, PublishedComplete, SequenceIsNewest, ReservationsOwned, FrameOf, Copying
<1>4. CopyExclusive' /\ CopiedIntact' /\ CopyAdvances'
  BY <1>1 DEF CopyExclusive, CopiedIntact, CopyAdvances, FrameOf, Copying
<1> QED
  BY <1>2, <1>3, <1>4

\* The active copies are counted exactly: CopySelect adds the reader it
\* reserves for, CopyReturn removes it, every other step leaves the set alone.
LEMMA CountStep == TypeOK /\ CopiesCounted /\ [Next]_vars => CopiesCounted'
<1> SUFFICES ASSUME TypeOK, CopiesCounted, [Next]_vars PROVE CopiesCounted'
  OBVIOUS
<1>1. IsFiniteSet(Active) /\ Cardinality(Active) \in Nat
  BY ReadersAssumption, FS_Subset, FS_CardinalityType DEF Active
<1>2. ASSUME UNCHANGED activeCopies, Active' = Active PROVE CopiesCounted'
  BY <1>2 DEF CopiesCounted
<1>3. CASE UNCHANGED <<rd, activeCopies>>
  BY <1>2, <1>3 DEF Active
<1>4. ASSUME NEW r \in Readers, CopyCheck(r) \/ Rewind(r) \/ CopyFinish(r) PROVE CopiesCounted'
  <2>1. UNCHANGED activeCopies
    BY <1>4 DEF CopyCheck, Rewind, CopyFinish
  <2>2. /\ \A q \in Readers : q # r => rd'[q] = rd[q]
        /\ rd[r].pc \in {"copying", "copied"} <=> rd'[r].pc \in {"copying", "copied"}
    BY <1>4 DEF CopyCheck, Rewind, CopyFinish, TypeOK, ReaderStates
  <2> QED
    BY <1>2, <2>1, <2>2 DEF Active
<1>5. ASSUME NEW r \in Readers, CopySelect(r) PROVE CopiesCounted'
  <2>1. CASE UNCHANGED activeCopies /\ rd' = [rd EXCEPT ![r] = IdleReader(@.last)]
    <3>1. /\ \A q \in Readers : q # r => rd'[q] = rd[q]
          /\ rd[r].pc = "checked" /\ rd'[r].pc = "idle"
      BY <1>5, <2>1 DEF CopySelect, TypeOK, IdleReader
    <3> QED
      BY <1>2, <2>1, <3>1 DEF Active
  <2>2. CASE activeCopies' = activeCopies + 1 /\ \E s \in Slots :
               rd' = [rd EXCEPT ![r] = [pc |-> "copying", slot |-> s, last |-> @.last,
                                        data |-> slot[s].data, info |-> Blank]]
    <3>1. /\ \A q \in Readers : q # r => rd'[q] = rd[q]
          /\ rd[r].pc = "checked" /\ rd'[r].pc = "copying"
      BY <1>5, <2>2 DEF CopySelect, TypeOK
    <3>2. Active' = Active \cup {r} /\ r \notin Active
      BY <3>1 DEF Active
    <3>3. Cardinality(Active') = Cardinality(Active) + 1
      BY <1>1, <3>2, FS_AddElement
    <3> QED
      BY <2>2, <3>3 DEF CopiesCounted
  <2> QED
    BY <1>5, <2>1, <2>2 DEF CopySelect, Selectable
<1>6. ASSUME NEW r \in Readers, CopyReturn(r) PROVE CopiesCounted'
  <2>1. /\ \A q \in Readers : q # r => rd'[q] = rd[q]
        /\ rd[r].pc = "copied" /\ rd'[r].pc = "idle" /\ activeCopies' = activeCopies - 1
    BY <1>6 DEF CopyReturn, TypeOK, IdleReader
  <2>2. Active' = Active \ {r} /\ r \in Active
    BY <2>1 DEF Active
  <2>3. Cardinality(Active') = Cardinality(Active) - 1
    BY <1>1, <2>2, FS_RemoveElement
  <2> QED
    BY <2>1, <2>3 DEF CopiesCounted
<1> QED
  BY <1>3, <1>4, <1>5, <1>6
     DEF Next, vars, readers, ReaderStep, BeginWrite, Publish, Abort, BadFrame, Reclaim, Start,
         Open, Lose, EndAfterFormatError, Stop, ControlStep

\* A frame is published only under the stream that is open, and the number of
\* streams never falls.
LEMMA StreamsStep == TypeOK /\ StreamsKnown /\ [Next]_vars => StreamsKnown'
<1> SUFFICES ASSUME TypeOK, StreamsKnown, [Next]_vars PROVE StreamsKnown'
  OBVIOUS
<1> DEFINE Known(s, g) == /\ slot'[s].gen \in Nat /\ slot'[s].gen <= g
                          /\ slot'[s].seq > 0 => slot'[s].gen > 0
<1>0. Open \/ (UNCHANGED generation /\ (streaming' => streaming))
  <2>1. CASE BeginWrite \/ Publish \/ Abort \/ Reclaim \/ UNCHANGED vars
    BY <2>1 DEF BeginWrite, Publish, Abort, Reclaim, control, vars
  <2>2. ASSUME NEW r \in Readers, ReaderStep(r) PROVE UNCHANGED <<generation, streaming>>
    BY <2>2 DEF ReaderStep, CopyCheck, CopySelect, CopyFinish, CopyReturn, Rewind, control
  <2>3. CASE BadFrame \/ Start \/ Lose \/ EndAfterFormatError \/ Stop
    BY <2>3 DEF BadFrame, Start, Lose, EndAfterFormatError, Stop, ControlStep
  <2> QED
    BY <2>1, <2>2, <2>3 DEF Next
<1>1. generation \in Nat /\ generation' \in Nat /\ generation <= generation'
  BY <1>0 DEF Open, TypeOK
<1>2. streaming' => generation' > 0
  BY <1>0 DEF Open, TypeOK, StreamsKnown
<1>3. ASSUME NEW s \in Slots PROVE Known(s, generation)
  <2>1. /\ slot[s] \in SlotStates /\ slot[s].gen <= generation
        /\ slot[s].seq > 0 => slot[s].gen > 0
    BY DEF TypeOK, StreamsKnown
  <2>2. ASSUME slot'[s].gen = slot[s].gen, slot'[s].seq = slot[s].seq PROVE Known(s, generation)
    BY <2>1, <2>2 DEF SlotStates
  <2> HIDE DEF Known
  <2>3. CASE BeginWrite
    <3>1. slot'[s].gen = slot[s].gen /\ slot'[s].seq = slot[s].seq
      BY <2>1, <2>3 DEF BeginWrite, OldestFree, FreeSlots, TypeOK, SlotStates
    <3> QED
      BY <2>2, <3>1
  <2>4. CASE Publish
    <3>1. CASE s = wslot
      <4>1. slot'[s].gen = generation
        BY <2>4, <3>1 DEF Publish, MayPublish, TypeOK
      <4>2. generation > 0
        BY <2>4 DEF Publish, MayPublish, StreamsKnown
      <4> QED
        BY <1>1, <4>1, <4>2 DEF Known
    <3>2. CASE s # wslot
      <4>1. slot'[s] = slot[s]
        BY <2>4, <3>2 DEF Publish, TypeOK
      <4> QED
        BY <2>2, <4>1
    <3> QED
      BY <3>1, <3>2
  <2>5. CASE Abort
    <3>1. slot'[s].gen = slot[s].gen /\ slot'[s].seq = slot[s].seq
      BY <2>1, <2>5 DEF Abort, TypeOK, SlotStates
    <3> QED
      BY <2>2, <3>1
  <2>6. ASSUME NEW r \in Readers, ReaderStep(r) PROVE Known(s, generation)
    <3>1. slot'[s].gen = slot[s].gen /\ slot'[s].seq = slot[s].seq
      BY <2>1, <2>6 DEF ReaderStep, CopyCheck, CopySelect, CopyFinish, CopyReturn, Rewind, TypeOK,
                        SlotStates, Selectable
    <3> QED
      BY <2>2, <3>1
  <2>7. CASE Reclaim \/ Start
    <3>1. slot'[s].gen = slot[s].gen /\ slot'[s].seq = slot[s].seq
      <4>1. CASE Reclaim
        BY <2>1, <4>1 DEF Reclaim, SlotStates
      <4>2. CASE Start
        BY <2>1, <4>2 DEF Start, SlotStates
      <4> QED
        BY <2>7, <4>1, <4>2
    <3> QED
      BY <2>2, <3>1
  <2>8. CASE UNCHANGED slot
    BY <2>2, <2>8
  <2> QED
    BY <2>3, <2>4, <2>5, <2>6, <2>7, <2>8
       DEF Next, vars, BadFrame, Open, Lose, EndAfterFormatError, Stop, ControlStep
<1> QED
  BY <1>1, <1>2, <1>3 DEF StreamsKnown

\* IInv is inductive.
LEMMA StepInv == IInv /\ [Next]_vars => IInv'
<1> SUFFICES ASSUME IInv, [Next]_vars PROVE IInv'
  OBVIOUS
<1>1. Parts /\ CopiesCounted
  BY DEF IInv, Parts
<1>2. CopiesCounted' /\ StreamsKnown'
  BY <1>1, CountStep, StreamsStep DEF IInv, Parts
<1>3. Parts'
  <2>1. CASE BeginWrite
    BY <1>1, <2>1, BeginWriteParts
  <2>2. CASE Publish \/ Abort
    BY <1>1, <2>2, EndWriteParts
  <2>3. ASSUME NEW r \in Readers, ReaderStep(r) PROVE Parts'
    BY <1>1, <2>3, ReaderLocalParts, CopySelectParts, CopyFinishParts, CopyReturnParts
       DEF ReaderStep
  <2>4. CASE Reclaim
    BY <1>1, <2>4, ReclaimParts
  <2>5. CASE Start
    BY <1>1, <2>5, StartParts
  <2>6. CASE BadFrame \/ Open \/ Lose \/ EndAfterFormatError \/ Stop
    BY <1>1, <2>6, ControlParts
  <2>7. CASE UNCHANGED vars
    BY <1>1, <2>7 DEF Parts, TypeOK, WriterHidden, PublishedComplete, CopyExclusive, CopiedIntact,
       CopyAdvances, SequenceIsNewest, ReservationsOwned, Copying, FrameOf, vars, writer, readers,
       control
  <2> QED
    BY <2>1, <2>2, <2>3, <2>4, <2>5, <2>6, <2>7 DEF Next
<1> QED
  BY <1>2, <1>3 DEF IInv, Parts

\* The inductive invariant holds in every reachable state.
THEOREM Inductive == Spec => []IInv
<1>1. Init => IInv
  BY InitParts DEF IInv, Parts
<1> QED
  BY <1>1, StepInv, PTL DEF Spec

\* Type correctness, with s_active_copies never below zero.
THEOREM TypeCorrect == Spec => []TypeOK
<1>1. IInv => TypeOK
  BY DEF IInv
<1> QED
  BY <1>1, Inductive, PTL

\* Whatever hal_uvc_copy_latest_frame may select is one complete frame.
THEOREM SelectableComplete == Spec => []SelectableIsComplete
<1>1. IInv => SelectableIsComplete
  BY SlotAssumption
     DEF IInv, SelectableIsComplete, Selectable, WriterHidden, PublishedComplete
<1> QED
  BY <1>1, Inductive, PTL

\* A copy the call accepts is the frame its info describes, unless a start
\* overlapped a copy.
THEOREM CopyIntact == Spec => []IntactCopy
<1>1. IInv => IntactCopy
  BY DEF IInv, IntactCopy, CopiedIntact
<1> QED
  BY <1>1, Inductive, PTL

\* No reservation of a slot outlives the copy it was made for.
THEOREM NoLeakedReservation == Spec => []ReservationsOwned
<1>1. IInv => ReservationsOwned
  BY DEF IInv
<1> QED
  BY <1>1, Inductive, PTL

\* A reader never goes back to a frame its caller had already seen.
THEOREM AdvanceOnly == Spec => ReadersAdvance
<1> DEFINE Advance == \A r \in Readers : rd[r].pc = "copied" /\ rd'[r].last # rd[r].last
                                          => rd'[r].last > rd[r].last
<1>1. IInv /\ [Next]_vars => [Advance]_vars
  <2> SUFFICES ASSUME IInv, Next, NEW r \in Readers, rd[r].pc = "copied",
                      rd'[r].last # rd[r].last
               PROVE  rd'[r].last > rd[r].last
    OBVIOUS
  <2>1. rd[r].info.seq > rd[r].last
    BY DEF IInv, CopyAdvances
  <2>2. PICK q \in Readers : ReaderStep(q)
    BY DEF Next, BeginWrite, Publish, Abort, BadFrame, Reclaim, Start, Open, Lose,
           EndAfterFormatError, Stop, ControlStep, readers
  <2>3. q = r /\ CopyReturn(r)
    BY <2>2 DEF ReaderStep, CopyCheck, CopySelect, CopyFinish, CopyReturn, Rewind, IInv, TypeOK
  <2> QED
    BY <2>1, <2>3 DEF CopyReturn, IdleReader, IInv, TypeOK
<1> QED
  BY <1>1, Inductive, PTL DEF Spec, ReadersAdvance

(***************************************************************************)
(* The refinement of FrameFeed, for one consumer c.                        *)
(***************************************************************************)

\* A step that keeps the entry of the consumer keeps what it names and holds.
LEMMA SeenSame ==
  ASSUME NEW c \in Readers, rd'[c] = rd[c]
  PROVE  rd'[c].last = rd[c].last /\ HandOf(c)' = HandOf(c)
BY DEF HandOf

\* Publishing is a frame that comes; losing the stream ends it.
LEMMA FeedOfCamera ==
  ASSUME TypeOK, NEW c \in Readers, Publish \/ BadFrame \/ Lose \/ Open
  PROVE  [Feed(c)!Next]_(Feed(c)!vars)
<1>1. rd'[c].last = rd[c].last /\ HandOf(c)' = HandOf(c)
  BY SeenSame DEF Publish, BadFrame, Lose, Open, ControlStep, readers
<1>2. CASE Publish
  <2>1. Feed(c)!FrameComes
    BY <1>1, <1>2 DEF Publish, MayPublish, Feed!FrameComes, Feed!consumer, control
  <2> QED
    BY <2>1 DEF Feed!Next
<1>3. CASE BadFrame \/ Lose
  <2>1. Feed(c)!StreamEnds
    BY <1>1, <1>3 DEF BadFrame, Lose, ControlStep, Feed!StreamEnds, Feed!consumer, writer
  <2> QED
    BY <2>1 DEF Feed!Next
<1>4. CASE Open
  <2>1. Feed(c)!StreamOpens
    BY <1>1, <1>4 DEF Open, ControlStep, Feed!StreamOpens, Feed!consumer, writer
  <2> QED
    BY <2>1 DEF Feed!Next
<1> QED
  BY <1>2, <1>3, <1>4

\* The rest of the session control and render_task are not seen, but for a
\* start that cuts into a copy.
LEMMA FeedOfControl ==
  ASSUME TypeOK, NEW c \in Readers,
         BeginWrite \/ Abort \/ Reclaim \/ Start \/ EndAfterFormatError \/ Stop \/ UNCHANGED vars
  PROVE  [Feed(c)!Next]_(Feed(c)!vars)
<1>1. /\ rd'[c].last = rd[c].last /\ HandOf(c)' = HandOf(c)
      /\ UNCHANGED <<sequence, generation, streaming>>
  <2>1. UNCHANGED <<rd, sequence, generation, streaming>>
    BY DEF BeginWrite, Abort, Reclaim, Start, EndAfterFormatError, Stop, ControlStep, vars, readers, writer, control
  <2> QED
    BY <2>1, SeenSame
<1>2. CASE overlap' = overlap
  <2>1. UNCHANGED Feed(c)!vars
    BY <1>1, <1>2 DEF Feed!vars, Feed!camera, Feed!consumer
  <2> QED
    BY <2>1
<1>3. CASE overlap' # overlap
  <2>1. Start
    BY <1>3 DEF BeginWrite, Abort, Reclaim, EndAfterFormatError, Stop, ControlStep, vars, control
  <2>2. overlap' = TRUE /\ ~overlap
    BY <1>3, <2>1 DEF Start, TypeOK
  <2>3. Feed(c)!RestartCutsIn
    BY <1>1, <2>2 DEF Feed!RestartCutsIn, Feed!consumer
  <2> QED
    BY <2>3 DEF Feed!Next
<1> QED
  BY <1>2, <1>3

\* Leaving the memcpy brings a newer frame into hand, a whole one unless a start
\* cut in.
LEMMA FeedOfFinish ==
  ASSUME IInv, NEW c \in Readers, CopyFinish(c)
  PROVE  Feed(c)!Copy
<1> PICK s \in Slots : s = rd[c].slot
  BY DEF CopyFinish, IInv, CopyAdvances, TypeOK, ReaderStates
<1> DEFINE f == FrameOf(s)
           w == rd'[c].data = f
<1>1. /\ slot[s].seq > rd[c].last /\ slot[s].seq <= sequence /\ slot[s].seq \in Nat
      /\ rd[c].last \in Nat /\ slot[s].gen \in Nat /\ sequence \in Nat
      /\ slot[s].gen > 0 /\ slot[s].gen <= generation /\ generation \in Nat
  <2>1. slot[s] \in SlotStates /\ rd[c] \in ReaderStates /\ sequence \in Nat /\ generation \in Nat
    BY DEF IInv, TypeOK
  <2>2. slot[s].seq > rd[c].last /\ slot[s].seq <= sequence
    BY DEF CopyFinish, IInv, CopyAdvances, SequenceIsNewest
  <2>3. slot[s].gen <= generation /\ (slot[s].seq > 0 => slot[s].gen > 0)
    BY DEF IInv, StreamsKnown
  <2> QED
    BY <2>1, <2>2, <2>3 DEF SlotStates, ReaderStates
<1>2. /\ rd[c].pc = "copying" /\ rd'[c].pc = "copied"
      /\ rd'[c].last = rd[c].last /\ rd'[c].info = f
      /\ rd'[c].data = IF slot[s].data = rd[c].data THEN rd[c].data ELSE Blank
      /\ UNCHANGED <<sequence, generation, streaming, overlap>>
  BY DEF CopyFinish, IInv, TypeOK, writer, control
<1>3. f \in [seq : (rd[c].last + 1) .. sequence, gen : 1 .. generation]
  BY <1>1 DEF FrameOf
<1>4. w \in BOOLEAN /\ (w \/ overlap)
  BY <1>2 DEF IInv, CopyExclusive, Copying
<1>5. HandOf(c) = {} /\ HandOf(c)' = {[frame |-> f, whole |-> w]}
  BY <1>2 DEF HandOf
<1> HIDE DEF f, w
<1> DEFINE k == [frame |-> f, whole |-> w]
<1>6. HandOf(c)' = {k} /\ k \in HandOf(c)'
  BY <1>5
<1>7. k.frame \in Feed(c)!NewerFrames /\ (k.whole \/ overlap)
  BY <1>3, <1>4 DEF Feed!NewerFrames
<1> HIDE DEF k
<1>8. UNCHANGED <<Feed(c)!camera, rd[c].last>>
  BY <1>2 DEF Feed!camera
<1> QED
  BY <1>5, <1>6, <1>7, <1>8, Zenon DEF Feed!Copy

\* The last test of the call decides between handing over and withholding.
LEMMA FeedOfReturn ==
  ASSUME IInv, NEW c \in Readers, CopyReturn(c)
  PROVE  Feed(c)!Return
<1> DEFINE copy == [frame |-> rd[c].info, whole |-> rd[c].data = rd[c].info]
<1>1. /\ rd[c].pc = "copied" /\ rd'[c].pc = "idle"
      /\ rd'[c].last = IF Accepts(c) THEN rd[c].info.seq ELSE rd[c].last
      /\ UNCHANGED <<sequence, generation, streaming, overlap>>
  BY DEF CopyReturn, IInv, TypeOK, IdleReader, writer, control
<1>2. HandOf(c) = {copy} /\ HandOf(c)' = {} /\ copy.frame = rd[c].info
  BY <1>1 DEF HandOf
<1> HIDE DEF copy
<1>3. rd'[c].last = IF Feed(c)!OfOpenStream(copy) THEN copy.frame.seq ELSE rd[c].last
  BY <1>1, <1>2 DEF Accepts, Feed!OfOpenStream
<1> QED
  BY <1>1, <1>2, <1>3 DEF Feed!Return, Feed!camera

\* Starting over between two calls; the other steps of a call are not seen.
LEMMA FeedOfLocal ==
  ASSUME IInv, NEW c \in Readers, CopyCheck(c) \/ CopySelect(c) \/ Rewind(c)
  PROVE  Feed(c)!StartOver \/ UNCHANGED Feed(c)!vars
<1>1. /\ rd[c].pc # "copied" /\ rd'[c].pc # "copied"
      /\ UNCHANGED <<sequence, generation, streaming, overlap>>
  BY DEF CopyCheck, CopySelect, Rewind, IInv, TypeOK, ReaderStates, IdleReader, writer, control
<1>2. HandOf(c) = {} /\ HandOf(c)' = {}
  BY <1>1 DEF HandOf
<1>3. CASE Rewind(c)
  <2>1. rd'[c].last \in 0 .. rd[c].last - 1
    BY <1>3, BoundsAssumption DEF Rewind, IInv, TypeOK, ReaderStates
  <2> QED
    BY <1>1, <1>2, <2>1 DEF Feed!StartOver, Feed!camera
<1>4. CASE CopyCheck(c) \/ CopySelect(c)
  <2>1. rd'[c].last = rd[c].last
    BY <1>4 DEF CopyCheck, CopySelect, IInv, TypeOK, ReaderStates, IdleReader
  <2> QED
    BY <1>1, <1>2, <2>1 DEF Feed!vars, Feed!camera, Feed!consumer
<1> QED
  BY <1>3, <1>4

\* The calls of one consumer are not seen by the other.
LEMMA FeedOfOther ==
  ASSUME IInv, NEW c \in Readers, NEW r \in Readers \ {c}, ReaderStep(r)
  PROVE  UNCHANGED Feed(c)!vars
<1>1. rd'[c] = rd[c] /\ UNCHANGED <<sequence, generation, streaming, overlap>>
  BY DEF ReaderStep, CopyCheck, CopySelect, CopyFinish, CopyReturn, Rewind, IInv, TypeOK,
         writer, control
<1>2. rd'[c].last = rd[c].last /\ HandOf(c)' = HandOf(c)
  BY <1>1, SeenSame
<1> QED
  BY <1>1, <1>2 DEF Feed!vars, Feed!camera, Feed!consumer

\* A step of the broker is a step of every consumer's feed.
LEMMA FeedOfStep ==
  ASSUME IInv, [Next]_vars, NEW c \in Readers
  PROVE  [Feed(c)!Next]_(Feed(c)!vars)
<1>1. CASE Publish \/ BadFrame \/ Lose \/ Open
  BY <1>1, FeedOfCamera DEF IInv
<1>2. CASE BeginWrite \/ Abort \/ Reclaim \/ Start \/ EndAfterFormatError \/ Stop \/ UNCHANGED vars
  BY <1>2, FeedOfControl DEF IInv
<1>3. ASSUME NEW r \in Readers, ReaderStep(r) PROVE [Feed(c)!Next]_(Feed(c)!vars)
  <2>1. CASE r = c
    BY <1>3, <2>1, FeedOfFinish, FeedOfReturn, FeedOfLocal DEF ReaderStep, Feed!Next
  <2>2. CASE r # c
    BY <1>3, <2>2, FeedOfOther
  <2> QED
    BY <2>1, <2>2
<1> QED
  BY <1>1, <1>2, <1>3 DEF Next

\* To every consumer the broker is a feed of ever newer whole frames of the open
\* stream (the comment at hal_uvc.h:96-98), for any number of slots, consumers
\* and frames.
THEOREM ImplementsFeedOf ==
  ASSUME NEW c \in Readers
  PROVE  Spec => Feed(c)!Spec
<1>1. Init => Feed(c)!Init
  BY DEF Init, Feed!Init, HandOf, IdleReader
<1>2. IInv /\ [Next]_vars => [Feed(c)!Next]_(Feed(c)!vars)
  BY FeedOfStep
<1> QED
  BY <1>1, <1>2, Inductive, PTL DEF Spec, Feed!Spec

\* The same for all consumers at once, in the form the run checks.
THEOREM ImplementsFeed == Spec => FeedsConsumers
<1>1. Init => FeedsStart
  BY DEF Init, FeedsStart, Feed!Init, HandOf, IdleReader
<1>2. IInv /\ [Next]_vars => FeedsStep
  BY FeedOfStep DEF FeedsStep
<1> QED
  BY <1>1, <1>2, Inductive, PTL DEF Spec, FeedsConsumers

=============================================================================
