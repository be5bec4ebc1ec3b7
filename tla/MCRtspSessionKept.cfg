\* The constants of the firmware, and nothing fails.
SPECIFICATION Spec
CONSTANTS
  Gop = 15
  PrimeTries = 5
  MaxDrops = 5
  Stall = 2
  Off = Off
  Faults = {}
PROPERTY EncoderKept
