\* Decoder, preview and LVGL in every order, the buffers freed once.
SPECIFICATION FairSpec
CONSTANTS
  MaxFrames = 2
  MaxFrees = 1
  Blank = Blank
  Freed = Freed
INVARIANTS
  IInv
  WholeFrames
  NoTearing
  ScreenKnown
PROPERTIES
  OldPictureGoes
  DecoderServed
