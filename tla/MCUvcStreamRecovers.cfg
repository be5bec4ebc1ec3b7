\* The documented recovery, which an ill-timed disconnect defeats.
SPECIFICATION FairSpec
CONSTANTS
  Handles = {h1, h2}
  NoHandle = NoHandle
  Profiles = 2
  Readers = {rtsp}
  MaxFaults = 2
  MaxStops = 0
PROPERTY Recovers
