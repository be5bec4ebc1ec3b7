\* Three slots as in the firmware, the two consumers, one restart.
SPECIFICATION FairSpec
CONSTANTS
  Slots = {s1, s2, s3}
  Readers = {preview, rtsp}
  NoSlot = NoSlot
  MaxSequence = 3
  MaxGeneration = 2
  MaxStarts = 2
INVARIANTS
  SelectableIsComplete
  IntactCopy
  ReservationsOwned
  IInv
PROPERTIES
  FeedsConsumers
  CameraNeverStarved
