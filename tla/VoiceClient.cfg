CONSTANTS
  FrameMs = 20
  HangoverMs = 60
  MaxSpeechMs = 100
  MaxSessions = 2
  MaxFrames = 7
  MaxClauses = 2
  MaxInFlight = 2
SPECIFICATION Spec
INVARIANTS SpeechIsFramed UtterancesAreShort MicrophoneOwned PlaybackIsCurrent
CHECK_DEADLOCK FALSE
