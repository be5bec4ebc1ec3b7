\* Every interleaving, two calls of hal_uvc_stop allowed.
SPECIFICATION FairSpec
CONSTANTS
  Handles = {h1, h2}
  NoHandle = NoHandle
  Profiles = 2
  Readers = {rtsp}
  MaxFaults = 2
  MaxStops = 2
INVARIANTS
  IInv
  ClosedOnce
  NoStreamLeaks
PROPERTIES
  OneStreamAtATime
  RecoversUnlessAbandoned
  StopEndsUnlessUnheard
