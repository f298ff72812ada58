\* Replies of up to four units: several clauses, a remainder, an empty reply.
\* Only the event loop is fair; the LLM may never answer.
SPECIFICATION LoopSpec
CONSTANT MaxText = 4
INVARIANTS
  TypeOK
  SentinelComes
  TextConserved
  MarksAreCausal
  SpeechFollowsText
  SpeechIsWhole
PROPERTIES
  KeepsReplyPromise
  TurnEnds
  FeedIsReleased
