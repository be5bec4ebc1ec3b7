SPECIFICATION FairSpec
CONSTANTS
  Base = 3
  Dollar = 0
  CR = 1
  LF = 2
  MaxRequest = 5
  MaxPayload = 5
  ReceiveSize = 3
  Streams <- MCStreams
  Units <- MCUnits
  MaxRtpPayload = 5
  Overhead = 1
  SeqRange = 3
  SendDeadline = 2
  PlayRequests <- MCPlayRequests
  Clients <- MCClients
  Sends <- MCSends
  Gets <- MCGets
INVARIANTS
  FramesAreWhole
  RejectsOnlyTheUnframable
  NeverStuck
  UnitArrives
  IdrIsIdr
  OneDeadline
  NumberedAsAnnounced
  CutIsLast
PROPERTIES
  NothingLost
  AllFramesTaken
CHECK_DEADLOCK FALSE
