SPECIFICATION Spec
CONSTANTS
  CanvasWidth = 9
  CanvasHeight = 8
  MaxWidth = 8
  MaxHeight = 6
  Cameras <- MCCameras
INVARIANTS
  SourceInFrame
  LeftoversAtTheEdge
