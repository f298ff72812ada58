------------------------- MODULE OrchestratorProofs -------------------------
(***************************************************************************)
(* What holds of every behaviour of Orchestrator, for every buffer size,   *)
(* every number of utterances, frames and clauses and every restored       *)
(* history: its fields agree, the prompt is the history, and it implements *)
(* TurnContract.                                                           *)
(***************************************************************************)
EXTENDS Orchestrator, DataLemmas, TLAPS

(* The constructors build messages and events. *)
LEMMA ConstructorTypes ==
  /\ \A n \in Nat : UserMessage(n) \in Message
  /\ \A n \in Nat, r \in Seq(Nat) : AssistantMessage(n, r) \in Message
  /\ NoSpeechEvent \in Event
  /\ \A n \in Nat : TranscriptEvent(n) \in Event
  /\ \A n, c \in Nat : AssistantAudioEvent(n, c) \in Event
  /\ \A n \in Nat, b \in BOOLEAN : TurnCompleteEvent(n, b) \in Event
  /\ \A n \in Nat, b \in BOOLEAN : TurnInterruptedEvent(n, b) \in Event
  BY DEF UserMessage, AssistantMessage, Message, NoSpeechEvent, TranscriptEvent,
         AssistantAudioEvent, TurnCompleteEvent, TurnInterruptedEvent, Event,
         OutcomeTypes

(* Reporting an interrupted turn keeps the types of what it changes. *)
LEMMA ReportTypes ==
  ASSUME TypeOK, ReportInterrupted
  PROVE  /\ outbox' \in Seq(Event) /\ turnTask' \in TaskAt /\ currentTimeline' \in Nat
         /\ bargedIn' \in BOOLEAN /\ turnCounter' \in Nat
         /\ prompt' \in Seq(Message) /\ replyParts' \in Seq(Nat)
<1>1. TurnInterruptedEvent(currentTimeline, bargedIn) \in Event
  BY ConstructorTypes DEF TypeOK
<1>2. QED
  BY <1>1 DEF TypeOK, ReportInterrupted, TaskAt

(* The pre-roll buffer holds frames. *)
LEMMA BufferedType ==
  ASSUME NEW s \in Seq(Nat), NEW f \in Nat
  PROVE  Buffered(s, f) \in Seq(Nat) /\ Head(Append(s, f)) \in Nat
<1>1. Append(s, f) \in Seq(Nat) /\ Len(Append(s, f)) = Len(s) + 1
  OBVIOUS
<1>2. Append(s, f) # <<>>
  BY <1>1
<1>3. Head(Append(s, f)) \in Nat /\ Tail(Append(s, f)) \in Seq(Nat)
  BY <1>1, <1>2
<1>4. QED
  BY <1>1, <1>3 DEF Buffered

(* Sequences of a set, in the two forms the utterances need. *)
LEMMA SeqFacts ==
  ASSUME NEW S
  PROVE  <<>> \in Seq(S) /\ \A s \in Seq(S), e \in S : Append(s, e) \in Seq(S)
  OBVIOUS

LEMMA TypeInit == Init => TypeOK
<1> SUFFICES ASSUME Init PROVE TypeOK
  OBVIOUS
<1>1. <<>> \in Seq(Seq(Nat)) /\ <<>> \in Seq(Nat) /\ <<>> \in Seq(Event) /\ <<>> \in Seq(Message)
  BY SeqFacts
<1>2. messages \in Seq(Message)
  BY OrchestratorAssumption DEF Init
<1>3. TurnsCounted
  BY DEF Init, TurnsCounted
<1>4. QED
  BY <1>1, <1>2, <1>3 DEF Init, TypeOK, DriverAt, TaskAt

(* A turn is counted when the STT has answered, and nowhere else. *)
LEMMA CountStep == ASSUME TypeOK, [Next]_vars PROVE TurnsCounted'
<1>1. /\ turnCounter \in Nat /\ Len(heard) \in Nat /\ heard \in Seq(Seq(Nat))
      /\ turnCounter <= Len(heard)
      /\ driver = "stt" => turnCounter < Len(heard)
  BY DEF TypeOK, TurnsCounted
<1>2. CASE OnSpeechEnd
  <2>1. audioQueue \in Seq(Nat)
    BY DEF TypeOK
  <2>2. Len(heard') = Len(heard) + 1
    BY <1>1, <1>2, <2>1 DEF OnSpeechEnd
  <2>3. turnCounter' = turnCounter
    BY <1>2 DEF OnSpeechEnd, turnVars
  <2>4. QED
    BY <1>1, <2>2, <2>3 DEF TurnsCounted
<1>3. CASE SttHearsSpeech
  <2>1. driver = "stt" /\ driver' = "idle" /\ turnCounter' = turnCounter + 1 /\ heard' = heard
    BY <1>3 DEF SttHearsSpeech, audioVars
  <2>2. QED
    BY <1>1, <2>1 DEF TurnsCounted
<1>4. CASE \/ OnAudioFrame \/ SpeechStart \/ OnSpeechEndIgnored \/ SttHearsNothing \/ SttRaises
           \/ TurnStep \/ TurnCancelled \/ FinishBargeIn \/ FinishClose \/ Close
           \/ UNCHANGED vars
  <2>1. /\ turnCounter' = turnCounter /\ heard' = heard
        /\ driver' # "stt" \/ driver' = driver
    BY <1>4 DEF OnAudioFrame, SpeechStart, OnSpeechStartListening, BargeIn, BargeInOnDeadTurn,
         BackToListening, ReportInterrupted, OnSpeechEndIgnored, SttHearsNothing, SttRaises,
         TurnStep, TurnStarts, PipelineYields, TurnCompletes, TurnFails, TurnCancelled,
         FinishBargeIn, FinishClose, Close, CloseWithTurn, CloseWithoutTurn, CloseAgain,
         turnVars, audioVars, vars
  <2>2. QED
    BY <1>1, <2>1 DEF TurnsCounted
<1>5. QED
  BY <1>2, <1>3, <1>4 DEF Next, SpeechEnd, SttReturns

LEMMA TypeStep == ASSUME TypeOK, [Next]_vars PROVE TypeOK'
<1>0. TurnsCounted'
  BY CountStep
<1> USE <1>0 DEF TypeOK, turnVars, audioVars
<1>1. CASE OnAudioFrame
  <2>0. received + 1 \in Nat
    OBVIOUS
  <2>1. /\ Buffered(pending, received + 1) \in Seq(Nat)
        /\ Head(Append(pending, received + 1)) \in Nat
    BY <2>0, BufferedType
  <2>2. /\ received' \in Nat
        /\ audioQueue' \in Seq(Nat)
        /\ pending' \in Seq(Nat)
        /\ overflowed' \in Seq(Nat)
    BY <1>1, <2>0, <2>1, SeqFacts DEF OnAudioFrame
  <2>3. QED
    BY <1>1, <2>2 DEF OnAudioFrame
<1>2. CASE OnSpeechStartListening
  BY <1>2 DEF OnSpeechStartListening
<1>3. CASE BargeIn
  BY <1>3 DEF BargeIn, DriverAt
<1>4. CASE BackToListening
  BY <1>4, ReportTypes DEF BackToListening, DriverAt
<1>5. CASE TurnCancelled
  BY <1>5 DEF TurnCancelled, TaskAt
<1>6. CASE OnSpeechEnd
  <2>1. Append(heard, audioQueue) \in Seq(Seq(Nat)) /\ <<>> \in Seq(Nat)
    BY SeqFacts
  <2>2. heard' \in Seq(Seq(Nat)) /\ audioQueue' \in Seq(Nat)
    BY <1>6, <2>1, Zenon DEF OnSpeechEnd
  <2>3. QED
    BY <1>6, <2>2 DEF OnSpeechEnd, DriverAt
<1>7. CASE SttHearsNothing
  BY <1>7, ConstructorTypes DEF SttHearsNothing, DriverAt
<1>8. CASE SttHearsSpeech
  <2>1. /\ turnCounter + 1 \in Nat
        /\ UserMessage(turnCounter + 1) \in Message
        /\ TranscriptEvent(turnCounter + 1) \in Event
    BY ConstructorTypes
  <2>2. /\ Append(messages, UserMessage(turnCounter + 1)) \in Seq(Message)
        /\ Append(outbox, TranscriptEvent(turnCounter + 1)) \in Seq(Event)
        /\ <<>> \in Seq(Nat)
    BY <2>1, SeqFacts
  <2>3. QED
    BY <1>8, <2>1, <2>2 DEF SttHearsSpeech, DriverAt, TaskAt
<1>9. CASE SttRaises
  BY <1>9 DEF SttRaises, DriverAt
<1>10. CASE TurnStarts
  BY <1>10 DEF TurnStarts, TaskAt
<1>11. CASE PipelineYields
  <2>1. AssistantAudioEvent(currentTimeline, Len(replyParts) + 1) \in Event
    BY ConstructorTypes
  <2>2. QED
    BY <1>11, <2>1 DEF PipelineYields
<1>12. CASE TurnCompletes
  <2>1. /\ AssistantMessage(turnCounter, replyParts) \in Message
        /\ TurnCompleteEvent(currentTimeline, bargedIn) \in Event
    BY ConstructorTypes
  <2>2. QED
    BY <1>12, <2>1 DEF TurnCompletes, TaskAt
<1>13. CASE TurnFails
  BY <1>13 DEF TurnFails, TaskAt
<1>14. CASE CloseWithTurn
  BY <1>14 DEF CloseWithTurn, DriverAt
<1>15. CASE CloseWithoutTurn \/ FinishClose \/ CloseAgain
  BY <1>15, ReportTypes DEF CloseWithoutTurn, FinishClose, CloseAgain, DriverAt
<1>16. CASE UNCHANGED vars
  BY <1>16 DEF vars
<1>17. QED
  BY <1>1, <1>2, <1>3, <1>4, <1>5, <1>6, <1>7, <1>8, <1>9, <1>10, <1>11, <1>12,
     <1>13, <1>14, <1>15, <1>16
     DEF Next, SpeechStart, SpeechEnd, SttReturns, TurnStep, Close,
         BargeInOnDeadTurn, FinishBargeIn, OnSpeechEndIgnored

(* Type correctness. *)
THEOREM TypeCorrect == Spec => []TypeOK
  BY TypeInit, TypeStep, PTL DEF Spec

-----------------------------------------------------------------------------
(* The inductive invariant: the modes agree, a turn that has not started   *)
(* has delivered nothing, and a live turn's question ends the history.     *)

QuestionIsLast ==
  TaskAlive => messages # <<>> /\ messages[Len(messages)] = UserMessage(turnCounter)

IInv ==
  /\ ModeCoherent
  /\ turnTask = "created" => replyParts = <<>>
  /\ QuestionIsLast
  /\ turnTask = "running" => prompt = messages

LEMMA InvInit == Init => IInv
  BY DEF Init, IInv, ModeCoherent, QuestionIsLast, TaskAlive, Cancelling

(* ModeCoherent is inductive by itself. *)
LEMMA ModeStep == ASSUME TypeOK, ModeCoherent, [Next]_vars PROVE ModeCoherent'
<1> USE DEF ModeCoherent, TaskAlive, Cancelling, turnVars, audioVars
<1>1. CASE OnAudioFrame \/ OnSpeechStartListening
  BY <1>1 DEF OnAudioFrame, OnSpeechStartListening, TypeOK
<1>2. CASE BargeIn
  BY <1>2 DEF BargeIn
<1>3. CASE BackToListening
  BY <1>3 DEF BackToListening, ReportInterrupted
<1>4. CASE TurnCancelled
  BY <1>4 DEF TurnCancelled
<1>5. CASE OnSpeechEnd
  BY <1>5 DEF OnSpeechEnd, TypeOK
<1>6. CASE SttReturns
  <2>1. CASE SttHearsNothing \/ SttRaises
    BY <2>1 DEF SttHearsNothing, SttRaises, TypeOK
  <2>2. CASE SttHearsSpeech
    <3>1. turnCounter + 1 # 0
      BY DEF TypeOK
    <3>2. QED
      BY <2>2, <3>1 DEF SttHearsSpeech
  <2>3. QED
    BY <1>6, <2>1, <2>2 DEF SttReturns
<1>7. CASE TurnStep
  BY <1>7 DEF TurnStep, TurnStarts, PipelineYields, TurnCompletes, TurnFails
<1>8. CASE CloseWithTurn
  BY <1>8 DEF CloseWithTurn
<1>9. CASE CloseWithoutTurn \/ FinishClose \/ CloseAgain
  BY <1>9 DEF CloseWithoutTurn, FinishClose, CloseAgain, ReportInterrupted
<1>10. CASE UNCHANGED vars
  BY <1>10 DEF vars
<1>11. QED
  BY <1>1, <1>2, <1>3, <1>4, <1>5, <1>6, <1>7, <1>8, <1>9, <1>10
     DEF Next, SpeechStart, SpeechEnd, Close, BargeInOnDeadTurn, FinishBargeIn,
         OnSpeechEndIgnored

(* The rest of the invariant: only SttHearsSpeech puts a task in "created",*)
(* only TurnStarts in "running", and no step adds to the history while a   *)
(* task stays alive.                                                       *)
LEMMA TurnStepInv == ASSUME TypeOK, IInv, [Next]_vars, ModeCoherent' PROVE IInv'
<1> USE DEF IInv, QuestionIsLast, TaskAlive, turnVars, audioVars
<1>1. CASE OnAudioFrame \/ OnSpeechStartListening \/ BargeIn
  BY <1>1 DEF OnAudioFrame, OnSpeechStartListening, BargeIn
<1>2. CASE BackToListening
  BY <1>2 DEF BackToListening, ReportInterrupted
<1>3. CASE TurnCancelled
  BY <1>3 DEF TurnCancelled
<1>4. CASE OnSpeechEnd \/ SttHearsNothing \/ SttRaises
  BY <1>4 DEF OnSpeechEnd, SttHearsNothing, SttRaises
<1>5. CASE SttHearsSpeech
  <2>1. UserMessage(turnCounter + 1) \in Message
    BY ConstructorTypes DEF TypeOK
  <2>2. /\ messages' # <<>>
        /\ messages'[Len(messages')] = UserMessage(turnCounter')
    <3> DEFINE m == UserMessage(turnCounter + 1)
    <3>1. m \in Message /\ messages \in Seq(Message)
      BY <2>1 DEF TypeOK
    <3> HIDE DEF m
    <3>2. LET s == Append(messages, m) IN Len(s) = Len(messages) + 1 /\ s[Len(s)] = m
      BY <3>1
    <3>3. messages' = Append(messages, m) /\ m = UserMessage(turnCounter')
      BY <1>5 DEF SttHearsSpeech, m
    <3>4. Append(messages, m) # <<>>
      BY <3>1, <3>2
    <3>5. QED
      BY <3>2, <3>3, <3>4
  <2>3. QED
    BY <1>5, <2>2 DEF SttHearsSpeech
<1>6. CASE TurnStarts
  BY <1>6 DEF TurnStarts
<1>7. CASE PipelineYields \/ TurnCompletes \/ TurnFails
  BY <1>7 DEF PipelineYields, TurnCompletes, TurnFails
<1>8. CASE CloseWithTurn
  BY <1>8 DEF CloseWithTurn
<1>9. CASE CloseWithoutTurn \/ FinishClose \/ CloseAgain
  BY <1>9 DEF CloseWithoutTurn, FinishClose, CloseAgain, ReportInterrupted
<1>10. CASE UNCHANGED vars
  BY <1>10 DEF vars
<1>11. QED
  BY <1>1, <1>2, <1>3, <1>4, <1>5, <1>6, <1>7, <1>8, <1>9, <1>10
     DEF Next, SpeechStart, SpeechEnd, SttReturns, TurnStep, Close,
         BargeInOnDeadTurn, FinishBargeIn, OnSpeechEndIgnored

LEMMA Invariance == Spec => [](TypeOK /\ IInv)
<1>1. Init => TypeOK /\ IInv
  BY TypeInit, InvInit
<1>2. TypeOK /\ IInv /\ [Next]_vars => (TypeOK /\ IInv)'
  BY TypeStep, ModeStep, TurnStepInv DEF IInv
<1>3. QED
  BY <1>1, <1>2, PTL DEF Spec

(* The four mode fields agree in every reachable state. *)
THEOREM ModesAgree == Spec => []ModeCoherent
<1>1. IInv => ModeCoherent
  BY DEF IInv
<1>2. QED
  BY <1>1, Invariance, PTL

(* A running turn answers the conversation as it stands. *)
THEOREM PromptIsCurrent == Spec => []PromptIsHistory
<1>1. IInv => PromptIsHistory
  BY DEF IInv, PromptIsHistory, QuestionIsLast, TaskAlive
<1>2. QED
  BY <1>1, Invariance, PTL

-----------------------------------------------------------------------------
(* Refinement: each step is a step of TurnContract or leaves what it sees  *)
(* unchanged.                                                              *)

(* Where a step starts from, in terms of the contract's phase. *)
LEMMA PhaseFacts ==
  ASSUME TypeOK, ModeCoherent
  PROVE  /\ turnTask # "none" <=> currentTimeline # 0
         /\ driver = "stt" => currentTimeline = 0
         /\ queueOpen => currentTimeline = 0
         /\ currentTimeline # 0 => currentTimeline = turnCounter
         /\ TaskAlive => currentTimeline # 0
BY DEF TypeOK, ModeCoherent, TaskAlive

(* Reporting an interruption is InterruptTurn, or nothing at all. *)
LEMMA ReportSimulation ==
  ASSUME TypeOK, ModeCoherent, ReportInterrupted, driver # "stt", driver' # "stt",
         UNCHANGED <<messages, heard>>
  PROVE  Contract!InterruptTurn \/ UNCHANGED Contract!vars
<1> USE DEF ReportInterrupted
<1>1. CASE currentTimeline = 0
  BY <1>1 DEF Contract!vars
<1>2. CASE currentTimeline # 0
  <2>1. outbox' = Append(outbox, TurnInterruptedEvent(turnCounter, bargedIn))
    BY <1>2, PhaseFacts
  <2>2. Contract!InterruptTurn
    BY <1>2, <2>1 DEF Contract!InterruptTurn, TypeOK, TurnInterruptedEvent,
       Contract!TurnInterruptedEvent
  <2>3. QED
    BY <2>2
<1>3. QED
  BY <1>1, <1>2

LEMMA StepSimulation ==
  ASSUME TypeOK, IInv, [Next]_vars
  PROVE  [Contract!Next]_(Contract!vars)
<1> USE DEF turnVars, audioVars, Contract!vars
<1>0. ModeCoherent
  BY DEF IInv
<1>1. CASE OnAudioFrame \/ OnSpeechStartListening \/ BargeIn \/ TurnCancelled
  BY <1>1 DEF OnAudioFrame, OnSpeechStartListening, BargeIn, TurnCancelled, Cancelling
<1>2. CASE BargeInOnDeadTurn \/ FinishBargeIn
  <2>1. ReportInterrupted /\ driver # "stt" /\ driver' # "stt" /\ UNCHANGED <<messages, heard>>
    BY <1>2 DEF BargeInOnDeadTurn, FinishBargeIn, BackToListening
  <2>2. QED
    BY <1>0, <2>1, ReportSimulation DEF Contract!Next
<1>3. CASE OnSpeechEnd
  <2>1. Len(heard') = Len(heard) + 1
    BY <1>3 DEF OnSpeechEnd, TypeOK
  <2>2. Contract!TakeUtterance
    BY <1>0, <1>3, <2>1, PhaseFacts DEF OnSpeechEnd, Contract!TakeUtterance
  <2>3. QED
    BY <2>2 DEF Contract!Next
<1>4. CASE SttHearsNothing
  <2>1. Contract!ReportNoSpeech
    BY <1>0, <1>4, PhaseFacts DEF SttHearsNothing, Contract!ReportNoSpeech,
       NoSpeechEvent, Contract!NoSpeechEvent
  <2>2. QED
    BY <2>1 DEF Contract!Next
<1>5. CASE SttHearsSpeech
  <2>1. turnCounter + 1 # 0
    BY DEF TypeOK
  <2>2. Contract!OpenTurn
    BY <1>0, <1>5, <2>1, PhaseFacts DEF SttHearsSpeech, Contract!OpenTurn,
       UserMessage, Contract!UserMessage, TranscriptEvent, Contract!TranscriptEvent
  <2>3. QED
    BY <2>2 DEF Contract!Next
<1>6. CASE SttRaises
  <2>1. Contract!AbandonUtterance
    BY <1>0, <1>6, PhaseFacts DEF SttRaises, Contract!AbandonUtterance
  <2>2. QED
    BY <2>1 DEF Contract!Next
<1>7. CASE TurnStarts \/ TurnFails
  BY <1>7 DEF TurnStarts, TurnFails, IInv
<1>8. CASE PipelineYields
  <2>1. Contract!DeliverClause
    BY <1>0, <1>8, PhaseFacts DEF PipelineYields, TaskAlive, Contract!DeliverClause,
       AssistantAudioEvent, Contract!AssistantAudioEvent
  <2>2. QED
    BY <2>1 DEF Contract!Next
<1>9. CASE TurnCompletes
  <2>1. currentTimeline # 0 /\ currentTimeline = turnCounter /\ driver # "stt"
    BY <1>0, <1>9, PhaseFacts DEF TurnCompletes, TaskAlive
  <2>2. Contract!CompleteTurn
    BY <1>9, <2>1 DEF TurnCompletes, TypeOK, Contract!CompleteTurn, AssistantMessage,
       Contract!AssistantMessage, TurnCompleteEvent, Contract!TurnCompleteEvent
  <2>3. QED
    BY <2>2 DEF Contract!Next
<1>10. CASE CloseWithTurn
  BY <1>10 DEF CloseWithTurn
<1>11. CASE CloseWithoutTurn \/ FinishClose \/ CloseAgain
  <2>1. ReportInterrupted /\ driver # "stt" /\ driver' # "stt" /\ UNCHANGED <<messages, heard>>
    BY <1>11 DEF CloseWithoutTurn, FinishClose, CloseAgain
  <2>2. QED
    BY <1>0, <2>1, ReportSimulation DEF Contract!Next
<1>12. CASE UNCHANGED vars
  BY <1>12 DEF vars
<1>13. QED
  BY <1>1, <1>2, <1>3, <1>4, <1>5, <1>6, <1>7, <1>8, <1>9, <1>10, <1>11, <1>12
     DEF Next, SpeechStart, SpeechEnd, SttReturns, TurnStep, Close, OnSpeechEndIgnored

(* The asyncio implementation keeps the session's promise. *)
THEOREM Refinement == Spec => KeepsContract
<1>1. Init => Contract!Init
  BY OrchestratorAssumption DEF Init, Contract!Init, Message, Contract!Message,
     RestoredHistory, Contract!RestoredHistory
<1>2. TypeOK /\ IInv /\ [Next]_vars => [Contract!Next]_(Contract!vars)
  BY StepSimulation
<1>3. QED
  BY <1>1, <1>2, Invariance, PTL DEF Spec, KeepsContract, Contract!Spec

-----------------------------------------------------------------------------
(* What TurnContract promises therefore holds of the session's own log and *)
(* history.                                                                *)

ContractProofs == INSTANCE TurnContractProofs WITH
  history    <- messages,
  log        <- outbox,
  phase      <- IF currentTimeline # 0 THEN "answering"
                ELSE IF driver = "stt" THEN "recognising" ELSE "open",
  turn       <- turnCounter,
  delivered  <- replyParts,
  utterances <- Len(heard)

(* Both instances of TurnContract say the same. *)
LEMMA ContractHolds == Spec => ContractProofs!Spec
<1>1. Contract!Init => ContractProofs!Init
  BY DEF Contract!Init, ContractProofs!Init, Contract!Message, ContractProofs!Message,
         Contract!RestoredHistory, ContractProofs!RestoredHistory
<1>2. [Contract!Next]_(Contract!vars) => [ContractProofs!Next]_(ContractProofs!vars)
  BY DEF Contract!Next, ContractProofs!Next, Contract!vars, ContractProofs!vars,
         Contract!TakeUtterance, ContractProofs!TakeUtterance,
         Contract!ReportNoSpeech, ContractProofs!ReportNoSpeech,
         Contract!AbandonUtterance, ContractProofs!AbandonUtterance,
         Contract!OpenTurn, ContractProofs!OpenTurn,
         Contract!DeliverClause, ContractProofs!DeliverClause,
         Contract!CompleteTurn, ContractProofs!CompleteTurn,
         Contract!InterruptTurn, ContractProofs!InterruptTurn,
         Contract!NoSpeechEvent, ContractProofs!NoSpeechEvent,
         Contract!UserMessage, ContractProofs!UserMessage,
         Contract!TranscriptEvent, ContractProofs!TranscriptEvent,
         Contract!AssistantAudioEvent, ContractProofs!AssistantAudioEvent,
         Contract!AssistantMessage, ContractProofs!AssistantMessage,
         Contract!TurnCompleteEvent, ContractProofs!TurnCompleteEvent,
         Contract!TurnInterruptedEvent, ContractProofs!TurnInterruptedEvent
<1>3. QED
  BY <1>1, <1>2, Refinement, PTL DEF KeepsContract, Contract!Spec, ContractProofs!Spec

(* The outcome of a turn is the last event the client gets of it. *)
COROLLARY SessionOutcomesAreFinal == Spec => []OutcomesFinal
<1>1. ContractProofs!OutcomeIsFinal => OutcomesFinal
  BY DEF OutcomesFinal, Contract!OutcomeIsFinal, ContractProofs!OutcomeIsFinal,
         Contract!IsOutcome, ContractProofs!IsOutcome, Contract!OutcomeTypes,
         ContractProofs!OutcomeTypes
<1>2. QED
  BY <1>1, ContractHolds, ContractProofs!OutcomesAreFinal, PTL

(* No turn is passed over: each has its outcome before the next one opens. *)
COROLLARY SessionTurnsAreResolved == Spec => []TurnsResolved
<1>1. ContractProofs!EarlierTurnsHaveOutcomes => TurnsResolved
  BY DEF TurnsResolved, Contract!EarlierTurnsHaveOutcomes,
         ContractProofs!EarlierTurnsHaveOutcomes, Contract!Completed,
         ContractProofs!Completed, Contract!Interrupted, ContractProofs!Interrupted
<1>2. QED
  BY <1>1, ContractHolds, ContractProofs!TurnsAreResolved, PTL

(* ADR-005 for the implementation: the model is told that was said what    *)
(* was sent, and nothing of a turn that was interrupted. *)
COROLLARY SessionHistoryIsFaithful == Spec => []HistoryFaithful
<1>1. ContractProofs!HistoryMatchesDelivery => HistoryFaithful
  BY DEF HistoryFaithful, Contract!HistoryMatchesDelivery,
         ContractProofs!HistoryMatchesDelivery, Contract!RepliesAreCompleted,
         ContractProofs!RepliesAreCompleted, Contract!RepliesAreDelivered,
         ContractProofs!RepliesAreDelivered, Contract!Completed, ContractProofs!Completed,
         Contract!Recorded, ContractProofs!Recorded, Contract!AudioOf,
         ContractProofs!AudioOf, Contract!Clauses, ContractProofs!Clauses
<1>2. QED
  BY <1>1, ContractHolds, ContractProofs!HistoryIsFaithful, PTL

-----------------------------------------------------------------------------
(* The pre-roll buffer. *)

(* What is in the buffer, or was, has been received. *)
BufferInv ==
  /\ PreRollKeepsMostRecent
  /\ \A i \in DOMAIN pending : pending[i] <= received
  /\ \A i \in DOMAIN overflowed : overflowed[i] <= received

(* A later frame enters an ordered buffer. *)
LEMMA FrameIsBuffered ==
  ASSUME NEW s \in Seq(Nat), NEW o \in Seq(Nat), NEW f \in Nat,
         Len(s) <= BargeInBufferFrames,
         \A i, j \in DOMAIN s : i < j => s[i] < s[j],
         \A i \in DOMAIN o, j \in DOMAIN s : o[i] < s[j],
         \A i \in DOMAIN s : s[i] < f,
         \A i \in DOMAIN o : o[i] < f
  PROVE  LET b == Buffered(s, f)
             d == IF Len(s) + 1 > BargeInBufferFrames THEN Append(o, Head(Append(s, f))) ELSE o
         IN  /\ Len(b) <= BargeInBufferFrames
             /\ \A i, j \in DOMAIN b : i < j => b[i] < b[j]
             /\ \A i \in DOMAIN d, j \in DOMAIN b : d[i] < b[j]
             /\ \A i \in DOMAIN b : b[i] <= f
             /\ \A i \in DOMAIN d : d[i] <= f
<1> DEFINE a == Append(s, f)
<1>1. /\ a \in Seq(Nat) /\ Len(a) = Len(s) + 1 /\ Len(s) \in Nat
      /\ DOMAIN a = 1..(Len(s) + 1) /\ DOMAIN s = 1..Len(s)
      /\ \A i \in DOMAIN s : a[i] = s[i]
      /\ a[Len(s) + 1] = f
  OBVIOUS
<1>2. /\ \A i, j \in DOMAIN a : i < j => a[i] < a[j]
      /\ \A i \in DOMAIN o, j \in DOMAIN a : o[i] < a[j]
      /\ \A i \in DOMAIN a : a[i] <= f
  <2>1. \A i \in DOMAIN a : i \in DOMAIN s \/ i = Len(s) + 1
    BY <1>1
  <2>2. \A i \in DOMAIN a : a[i] \in Nat /\ a[i] <= f
    BY <1>1, <2>1
  <2>3. QED
    BY <1>1, <2>1, <2>2
<1> HIDE DEF a
<1>3. BargeInBufferFrames \in Nat \ {0}
  BY OrchestratorAssumption DEF OrchestratorAssumption
<1>4. CASE Len(s) + 1 > BargeInBufferFrames
  <2> DEFINE t == Tail(a)
             d == Append(o, Head(a))
  <2>1. a # <<>>
    BY <1>1
  <2>2. /\ Len(t) = Len(s) /\ DOMAIN t = 1..Len(s) /\ Head(a) = a[1]
        /\ \A i \in DOMAIN t : t[i] = a[i + 1] /\ i + 1 \in DOMAIN a
    BY <1>1, <2>1
  <2>3. /\ DOMAIN d = 1..(Len(o) + 1) /\ Len(o) \in Nat /\ DOMAIN o = 1..Len(o)
        /\ \A i \in DOMAIN o : d[i] = o[i]
        /\ d[Len(o) + 1] = Head(a)
    BY <1>1, <2>2
  <2>4. Buffered(s, f) = t
    BY <1>4 DEF Buffered, a
  <2> HIDE DEF t
  <2>5. \A i, j \in DOMAIN t : i < j => t[i] < t[j]
    BY <1>1, <1>2, <2>2
  <2>6. \A i \in DOMAIN o, j \in DOMAIN t : o[i] < t[j]
    BY <1>2, <2>2
  <2>7. \A j \in DOMAIN t : Head(a) < t[j]
    <3> SUFFICES ASSUME NEW j \in DOMAIN t PROVE a[1] < t[j]
      BY <2>2
    <3>1. 1 \in DOMAIN a /\ j + 1 \in DOMAIN a /\ 1 < j + 1
      BY <1>1, <2>2
    <3>2. t[j] = a[j + 1]
      BY <2>2
    <3>3. QED
      BY <1>2, <3>1, <3>2
  <2>8. Head(a) <= f /\ \A i \in DOMAIN t : t[i] <= f
    <3>1. 1 \in DOMAIN a
      BY <1>1
    <3>2. a[1] <= f /\ \A i \in DOMAIN t : a[i + 1] <= f
      BY <1>2, <2>2, <3>1
    <3>3. QED
      BY <2>2, <3>2
  <2>9. \A i \in DOMAIN d : i \in DOMAIN o \/ i = Len(o) + 1
    BY <2>3
  <2> HIDE DEF d
  <2>10. (\A i \in DOMAIN d, j \in DOMAIN t : d[i] < t[j]) /\ \A i \in DOMAIN d : d[i] <= f
    <3>1. \A i \in DOMAIN o : o[i] \in Nat /\ o[i] <= f
      BY <2>3
    <3>2. QED
      BY <2>3, <2>6, <2>7, <2>8, <2>9, <3>1
  <2>11. QED
    BY <1>4, <2>2, <2>4, <2>5, <2>8, <2>10 DEF a, d
<1>5. CASE ~(Len(s) + 1 > BargeInBufferFrames)
  <2>1. Buffered(s, f) = a
    BY <1>5 DEF Buffered, a
  <2>2. \A i \in DOMAIN o : o[i] \in Nat /\ o[i] <= f
    OBVIOUS
  <2>3. QED
    BY <1>1, <1>2, <1>3, <1>5, <2>1, <2>2
<1>6. QED
  BY <1>4, <1>5

LEMMA BufferInit == Init => BufferInv
  BY OrchestratorAssumption
     DEF Init, BufferInv, PreRollKeepsMostRecent, OrchestratorAssumption

LEMMA BufferStep == TypeOK /\ BufferInv /\ [Next]_vars => BufferInv'
<1> SUFFICES ASSUME TypeOK, BufferInv, [Next]_vars PROVE BufferInv'
  OBVIOUS
<1>1. CASE OnAudioFrame
  <2>1. received' = received + 1
    BY <1>1 DEF OnAudioFrame
  <2>2. /\ pending \in Seq(Nat) /\ overflowed \in Seq(Nat) /\ received + 1 \in Nat
        /\ \A i \in DOMAIN pending : pending[i] \in Nat /\ pending[i] < received + 1
        /\ \A i \in DOMAIN overflowed : overflowed[i] \in Nat /\ overflowed[i] < received + 1
    <3>1. pending \in Seq(Nat) /\ overflowed \in Seq(Nat) /\ received \in Nat
      BY DEF TypeOK
    <3>2. /\ \A i \in DOMAIN pending : pending[i] \in Nat
          /\ \A i \in DOMAIN overflowed : overflowed[i] \in Nat
      BY <3>1
    <3>3. /\ \A i \in DOMAIN pending : pending[i] <= received
          /\ \A i \in DOMAIN overflowed : overflowed[i] <= received
      BY DEF BufferInv
    <3>4. QED
      BY <3>1, <3>2, <3>3
  <2>3. CASE state = "speaking"
    <3>1. /\ pending' = Buffered(pending, received + 1)
          /\ overflowed' = IF Len(pending) + 1 > BargeInBufferFrames
                           THEN Append(overflowed, Head(Append(pending, received + 1)))
                           ELSE overflowed
      BY <1>1, <2>3 DEF OnAudioFrame
    <3>2. QED
      BY <2>1, <2>2, <3>1, FrameIsBuffered DEF BufferInv, PreRollKeepsMostRecent
  <2>4. CASE state # "speaking"
    <3>1. UNCHANGED <<pending, overflowed>>
      BY <1>1, <2>4 DEF OnAudioFrame
    <3>2. \A i \in DOMAIN pending : pending[i] <= received'
      BY <2>1, <2>2 DEF TypeOK
    <3>3. \A i \in DOMAIN overflowed : overflowed[i] <= received'
      BY <2>1, <2>2 DEF TypeOK
    <3>4. QED
      BY <3>1, <3>2, <3>3 DEF BufferInv, PreRollKeepsMostRecent
  <2>5. QED
    BY <2>3, <2>4
<1>2. CASE BackToListening
  <2>1. pending' = <<>> /\ UNCHANGED <<overflowed, received>>
    BY <1>2 DEF BackToListening
  <2>2. QED
    BY <2>1, OrchestratorAssumption
       DEF BufferInv, PreRollKeepsMostRecent, OrchestratorAssumption
<1>3. CASE UNCHANGED <<pending, overflowed, received>>
  BY <1>3 DEF BufferInv, PreRollKeepsMostRecent
<1>4. QED
  BY <1>1, <1>2, <1>3
     DEF Next, SpeechStart, SpeechEnd, SttReturns, TurnStep, Close, OnSpeechStartListening,
         BargeIn, BargeInOnDeadTurn, TurnCancelled, FinishBargeIn, OnSpeechEndIgnored,
         OnSpeechEnd, SttHearsNothing, SttHearsSpeech, SttRaises, TurnStarts,
         PipelineYields, TurnCompletes, TurnFails, CloseWithTurn, CloseWithoutTurn,
         CloseAgain, FinishClose, audioVars, vars

(* What a barge-in replays is the most recent audio, in its order, and no  *)
(* more than the buffer may hold (orchestrator.py 48-51, 135-138).         *)
THEOREM PreRollIsMostRecent == Spec => []PreRollKeepsMostRecent
<1>1. BufferInv => PreRollKeepsMostRecent
  BY DEF BufferInv
<1>2. QED
  BY TypeCorrect, BufferInit, BufferStep, <1>1, PTL DEF Spec

-----------------------------------------------------------------------------
(* The audio.  Lengths and elements of the four places are added up, so    *)
(* the order of the concatenation does not matter.                         *)

FramesInv ==
  /\ ~queueOpen => audioQueue = <<>>
  /\ Len(FlattenSeq(heard)) + Len(audioQueue) + Len(pending) + Len(overflowed) = received
  /\ ToSet(FlattenSeq(heard)) \cup ToSet(audioQueue) \cup ToSet(pending)
       \cup ToSet(overflowed) = 1..received

LEMMA FramesTypes ==
  ASSUME TypeOK
  PROVE  FlattenSeq(heard) \in Seq(Nat)
BY FlattenType DEF TypeOK

LEMMA FramesInvInit == Init => FramesInv
<1>1. ToSet(<<>>) = {} /\ 1..0 = {}
  BY DEF ToSet
<1>2. QED
  BY <1>1, FlattenEmpty DEF Init, FramesInv

(* One frame arrives. *)
LEMMA FrameArrives ==
  ASSUME TypeOK, ModeCoherent, FramesInv, OnAudioFrame
  PROVE  FramesInv'
<1> DEFINE f == received + 1
           p == Append(pending, f)
           h == FlattenSeq(heard)
<1>1. /\ received \in Nat /\ f \in Nat /\ received' = f /\ 1..f = 1..received \cup {f}
      /\ heard' = heard /\ h' = h
  <2>1. received \in Nat
    BY DEF TypeOK
  <2>2. received' = f /\ heard' = heard
    BY DEF OnAudioFrame
  <2>3. f \in Nat /\ 1..f = 1..received \cup {f}
    BY <2>1
  <2>4. h' = h
    BY <2>2
  <2>5. QED
    BY <2>1, <2>2, <2>3, <2>4
<1>2. /\ pending \in Seq(Nat) /\ audioQueue \in Seq(Nat) /\ overflowed \in Seq(Nat)
      /\ Len(h) \in Nat /\ Len(pending) \in Nat /\ Len(audioQueue) \in Nat
      /\ Len(overflowed) \in Nat
  BY FramesTypes DEF TypeOK
<1>3. /\ Len(h) + Len(audioQueue) + Len(pending) + Len(overflowed) = received
      /\ ToSet(h) \cup ToSet(audioQueue) \cup ToSet(pending) \cup ToSet(overflowed) = 1..received
  BY DEF FramesInv
<1>4. SUFFICES
        /\ ~queueOpen' => audioQueue' = <<>>
        /\ Len(h) + Len(audioQueue') + Len(pending') + Len(overflowed') = f
        /\ ToSet(h) \cup ToSet(audioQueue') \cup ToSet(pending') \cup ToSet(overflowed')
             = 1..received \cup {f}
  BY <1>1 DEF FramesInv
<1>5. CASE state = "listening"
  <2>1. /\ queueOpen' /\ audioQueue' = Append(audioQueue, f)
        /\ pending' = pending /\ overflowed' = overflowed
    BY <1>5 DEF OnAudioFrame, ModeCoherent
  <2> HIDE DEF f, h
  <2>2. Len(audioQueue') = Len(audioQueue) + 1 /\ ToSet(audioQueue') = ToSet(audioQueue) \cup {f}
    BY <1>1, <1>2, <2>1, NumbersAppend, Zenon
  <2>3. Len(h) + Len(audioQueue') + Len(pending') + Len(overflowed') = f
    BY <1>2, <1>3, <2>1, <2>2 DEF f
  <2>4. ToSet(h) \cup ToSet(audioQueue') \cup ToSet(pending') \cup ToSet(overflowed')
          = 1..received \cup {f}
    BY <1>3, <2>1, <2>2
  <2>5. QED
    BY <2>1, <2>3, <2>4
<1>6. CASE state = "speaking"
  <2>1. audioQueue' = audioQueue /\ queueOpen' = queueOpen
    BY <1>6 DEF OnAudioFrame
  <2>2. ~queueOpen' => audioQueue' = <<>>
    BY <2>1 DEF FramesInv
  <2>3. /\ p \in Seq(Nat) /\ p # <<>> /\ Len(p) = Len(pending) + 1
        /\ ToSet(p) = ToSet(pending) \cup {f}
    BY <1>1, <1>2, NumbersAppend, Zenon
  <2>4. CASE Len(pending) + 1 > BargeInBufferFrames
    <3>1. pending' = Tail(p) /\ overflowed' = Append(overflowed, Head(p))
      BY <1>6, <2>4 DEF OnAudioFrame, Buffered
    <3> HIDE DEF p, h
    <3>2. /\ Head(p) \in Nat /\ Len(Tail(p)) = Len(p) - 1
          /\ ToSet(p) = {Head(p)} \cup ToSet(Tail(p))
      BY <2>3, NumbersHeadTail, Zenon
    <3>3. /\ Len(overflowed') = Len(overflowed) + 1
          /\ ToSet(overflowed') = ToSet(overflowed) \cup {Head(p)}
      BY <1>2, <3>1, <3>2, NumbersAppend, Zenon
    <3>4. Len(h) + Len(audioQueue') + Len(pending') + Len(overflowed') = f
      BY <1>2, <1>3, <2>1, <2>3, <3>1, <3>2, <3>3
    <3>5. ToSet(h) \cup ToSet(audioQueue') \cup ToSet(pending') \cup ToSet(overflowed')
            = 1..received \cup {f}
      BY <1>3, <2>1, <2>3, <3>1, <3>2, <3>3
    <3>6. QED
      BY <2>2, <3>4, <3>5
  <2>5. CASE ~(Len(pending) + 1 > BargeInBufferFrames)
    <3>1. pending' = p /\ overflowed' = overflowed
      BY <1>6, <2>5 DEF OnAudioFrame, Buffered
    <3> HIDE DEF p, h
    <3>0. Len(pending') = Len(pending) + 1 /\ Len(audioQueue') = Len(audioQueue)
          /\ Len(overflowed') = Len(overflowed)
      BY <2>1, <2>3, <3>1
    <3>2. Len(h) + Len(audioQueue') + Len(pending') + Len(overflowed') = f
      BY <1>2, <1>3, <3>0
    <3>3. ToSet(h) \cup ToSet(audioQueue') \cup ToSet(pending') \cup ToSet(overflowed')
            = 1..received \cup {f}
      BY <1>3, <2>1, <2>3, <3>1
    <3>4. QED
      BY <2>2, <3>2, <3>3
  <2>6. QED
    BY <2>4, <2>5
<1>7. QED
  BY <1>5, <1>6 DEF TypeOK

(* A stream that is dropped is closed, so it is empty; one that is handed  *)
(* over becomes the last utterance; the buffer becomes the stream. *)
LEMMA FramesStep ==
  ASSUME TypeOK, ModeCoherent, FramesInv, [Next]_vars
  PROVE  FramesInv'
<1> USE DEF turnVars, audioVars
<1>0. ToSet(<<>>) = {} /\ Len(<<>>) = 0
  BY DEF ToSet
<1>1. CASE OnAudioFrame
  BY <1>1, FrameArrives
<1>2. CASE OnSpeechStartListening
  BY <1>2 DEF OnSpeechStartListening, FramesInv
<1>3. CASE BargeIn \/ TurnCancelled \/ CloseWithTurn \/ SttRaises \/ TurnStarts
           \/ PipelineYields \/ TurnFails \/ SttHearsSpeech
  BY <1>3 DEF BargeIn, TurnCancelled, CloseWithTurn, SttRaises, TurnStarts, PipelineYields,
     TurnFails, SttHearsSpeech, FramesInv
<1>4. CASE BargeInOnDeadTurn \/ FinishBargeIn
  <2>1. audioQueue = <<>>
    BY <1>4 DEF BargeInOnDeadTurn, FinishBargeIn, ModeCoherent, Cancelling, FramesInv
  <2>2. /\ audioQueue' = pending /\ pending' = <<>> /\ queueOpen'
        /\ UNCHANGED <<heard, received, overflowed>>
    BY <1>4 DEF BargeInOnDeadTurn, FinishBargeIn, BackToListening
  <2>3. QED
    BY <1>0, <2>1, <2>2, FramesTypes DEF FramesInv, TypeOK
<1>5. CASE OnSpeechEnd
  <2> DEFINE h == FlattenSeq(heard)
  <2>1. /\ heard' = Append(heard, audioQueue) /\ audioQueue' = <<>>
        /\ UNCHANGED <<pending, received, overflowed>>
    BY <1>5 DEF OnSpeechEnd
  <2>2. heard \in Seq(Seq(Nat)) /\ audioQueue \in Seq(Nat)
    BY DEF TypeOK
  <2>3. FlattenSeq(heard') = h \o audioQueue
    BY <2>1, <2>2, FlattenAppend
  <2>4. h \in Seq(Nat)
    BY FramesTypes
  <2>5. /\ Len(h \o audioQueue) = Len(h) + Len(audioQueue)
        /\ ToSet(h \o audioQueue) = ToSet(h) \cup ToSet(audioQueue)
    BY <2>2, <2>4, ConcatProperties, ToSetConcat
  <2> HIDE DEF h
  <2>6. QED
    BY <1>0, <2>1, <2>2, <2>3, <2>4, <2>5 DEF FramesInv, TypeOK, h
<1>6. CASE SttHearsNothing \/ TurnCompletes
  <2>1. ~queueOpen
    BY <1>6 DEF SttHearsNothing, TurnCompletes, ModeCoherent
  <2>2. audioQueue = <<>> /\ audioQueue' = <<>> /\ queueOpen'
        /\ UNCHANGED <<pending, received, heard, overflowed>>
    BY <1>6, <2>1 DEF SttHearsNothing, TurnCompletes, FramesInv
  <2>3. QED
    BY <2>2 DEF FramesInv
<1>7. CASE CloseWithoutTurn \/ FinishClose \/ CloseAgain
  BY <1>7 DEF CloseWithoutTurn, FinishClose, CloseAgain, FramesInv
<1>8. CASE UNCHANGED vars
  BY <1>8 DEF vars, FramesInv
<1>9. QED
  BY <1>1, <1>2, <1>3, <1>4, <1>5, <1>6, <1>7, <1>8
     DEF Next, SpeechStart, SpeechEnd, SttReturns, TurnStep, Close, OnSpeechEndIgnored

(* No frame is lost and none is heard twice, through any number of turns,  *)
(* barge-ins, failures and closes, whatever the size of the buffer.        *)
THEOREM NoFrameIsLost == Spec => []FramesConserved
<1>1. TypeOK /\ FramesInv => FramesConserved
  <2> SUFFICES ASSUME TypeOK, FramesInv PROVE FramesConserved
    OBVIOUS
  <2> DEFINE h == FlattenSeq(heard)
  <2>1. /\ h \in Seq(Nat) /\ audioQueue \in Seq(Nat) /\ pending \in Seq(Nat)
        /\ overflowed \in Seq(Nat)
    BY FramesTypes DEF TypeOK
  <2> HIDE DEF h
  <2>2. /\ h \o audioQueue \in Seq(Nat)
        /\ Len(h \o audioQueue) = Len(h) + Len(audioQueue)
        /\ ToSet(h \o audioQueue) = ToSet(h) \cup ToSet(audioQueue)
    BY <2>1, NumbersConcat, Zenon
  <2>3. /\ (h \o audioQueue) \o pending \in Seq(Nat)
        /\ Len((h \o audioQueue) \o pending) = Len(h \o audioQueue) + Len(pending)
        /\ ToSet((h \o audioQueue) \o pending) = ToSet(h \o audioQueue) \cup ToSet(pending)
    BY <2>1, <2>2, NumbersConcat, Zenon
  <2>4. Frames = ((h \o audioQueue) \o pending) \o overflowed
    BY DEF Frames, h
  <2>5. /\ Len(Frames) = Len((h \o audioQueue) \o pending) + Len(overflowed)
        /\ ToSet(Frames) = ToSet((h \o audioQueue) \o pending) \cup ToSet(overflowed)
    BY <2>1, <2>3, <2>4, NumbersConcat, Zenon
  <2>6. Len(Frames) = received
    BY <2>2, <2>3, <2>5 DEF FramesInv, h
  <2>7. ToSet(Frames) = 1..received
    BY <2>2, <2>3, <2>5 DEF FramesInv, h
  <2>8. QED
    BY <2>6, <2>7 DEF FramesConserved
<1>2. TypeOK /\ IInv /\ FramesInv /\ [Next]_vars => FramesInv'
  BY FramesStep DEF IInv
<1>3. QED
  BY <1>1, <1>2, Invariance, FramesInvInit, PTL DEF Spec

=============================================================================
