\* The barged_in flag of interrupted turns.
SPECIFICATION Spec
CONSTANTS
  Restorable <- MCRestorable
  BargeInBufferFrames = 1
  MaxUtterances = 2
  MaxFrames = 0
  MaxChunks = 1
INVARIANTS
  InterruptionsAreFlagged
