\* Two utterances, so a turn can follow a completed, failed or interrupted one;
\* more frames than the pre-roll buffer holds; replies of up to two clauses.
SPECIFICATION LoopSpec
CONSTANTS
  Restorable <- MCRestorable
  BargeInBufferFrames = 2
  MaxUtterances = 2
  MaxFrames = 4
  MaxChunks = 2
INVARIANTS
  TypeOK
  ModeCoherent
  PromptIsHistory
  FramesConserved
  PreRollKeepsMostRecent
  OutcomesFinal
  TurnsResolved
  HistoryFaithful
PROPERTIES
  KeepsContract
  BargeInTakesEffect
  CloseTakesEffect
  UtterancesResolve
