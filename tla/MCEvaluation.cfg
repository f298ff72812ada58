CONSTANTS
  Broken = Broken
  NoPack = NoPack
  Dimensions <- Rubric
  Scale = 30
  Inputs <- MCInputs
  Replies <- MCReplies
  Written <- MCWritten
  Foreign <- MCForeign
  Timings <- MCTimings
  JudgeAnswers <- MCJudgeAnswers
SPECIFICATION Spec
INVARIANTS GreenMeansWithinLimits LatencyGateIsHonest PassingJudgeAgrees
CHECK_DEADLOCK FALSE
