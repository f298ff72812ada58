CONSTANTS
  MinChars = 3
  MaxChars = 5
  Abbreviations <- MCAbbreviations
  Utterances <- MCUtterances
  Scripts <- MCScripts
  Ceiling <- MCCeiling
  TargetVocabulary <- MCTargetVocabulary
  ScenarioIds = {"ordering_lunch"}
  MaxMessages = 5
  MaxSessions = 2
SPECIFICATION Spec
INVARIANTS LogIsOfReplies ReplyIsWhatWasWritten ScriptsInStep
CHECK_DEADLOCK FALSE
