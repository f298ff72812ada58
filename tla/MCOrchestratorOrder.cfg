\* The order in which the STT is given frames.
SPECIFICATION Spec
CONSTANTS
  Restorable <- MCRestorable
  BargeInBufferFrames = 2
  MaxUtterances = 3
  MaxFrames = 4
  MaxChunks = 0
INVARIANTS
  HeardInCaptureOrder
