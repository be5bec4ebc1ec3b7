\* A borrowed buffer that is freed.
SPECIFICATION Spec
CONSTANTS
  MaxFrames = 2
  MaxFrees = 1
  Blank = Blank
  Freed = Freed
INVARIANT BorrowStaysValid
