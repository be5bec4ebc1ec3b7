\* One client after another while everything may fail.
SPECIFICATION FairSpec
CONSTANTS
  Gop = 15
  PrimeTries = 5
  MaxDrops = 5
  Stall = 3
  Off = Off
  Faults = {"camera", "conversion", "encoder", "memory", "peer"}
INVARIANTS
  IInv
  Decodable
  PlayingIsUsable
  WatchdogArmed
PROPERTY NeverSilent
