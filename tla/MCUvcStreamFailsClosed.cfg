\* A stop that ends before it was acknowledged.
SPECIFICATION Spec
CONSTANTS
  Handles = {h1, h2}
  NoHandle = NoHandle
  Profiles = 2
  Readers = {rtsp}
  MaxFaults = 2
  MaxStops = 1
PROPERTY FailsClosed
