---------------------------- MODULE Orchestrator ----------------------------
(***************************************************************************)
(* SessionOrchestrator (server/app/session/orchestrator.py): one voice     *)
(* session on one asyncio event loop.                                      *)
(*                                                                         *)
(* Two coroutines share the session's fields.  The DRIVER is the caller of *)
(* the handlers; the gateway awaits each handler before it receives the    *)
(* next message, so there is one driver and it is in at most one handler.  *)
(* The TURN TASK runs _run_turn.  Control changes hands only where a       *)
(* coroutine really suspends: the driver in stt.stream (on_speech_end) and *)
(* in `await task` (_cancel_current_turn), the turn task inside run_turn.  *)
(* `await queue.put` on the unbounded queues used here never suspends, so  *)
(* everything between two suspensions is one action.                       *)
(*                                                                         *)
(* Audio frames are the sequence numbers the gateway gives them.  The      *)
(* providers are the environment: they may answer, fail or hang, but a     *)
(* cancelled one unwinds with CancelledError (providers/protocols.py       *)
(* 75-79).  on_turn_complete is None, as in the English demo.              *)
(***************************************************************************)
EXTENDS SessionTypes, SequencesExt

CONSTANTS Restorable,         \* histories restore_history may be given
          BargeInBufferFrames, \* _BARGE_IN_BUFFER_FRAMES
          MaxUtterances,       \* bound: speech_end messages that reach the STT
          MaxFrames,           \* bound: audio frames received
          MaxChunks            \* bound: clauses per reply

ASSUME OrchestratorAssumption ==
  /\ BargeInBufferFrames \in Nat \ {0}
  /\ MaxUtterances \in Nat /\ MaxFrames \in Nat /\ MaxChunks \in Nat
  /\ \A h \in Restorable : h \in Seq(Message) /\ RestoredHistory(h)

VARIABLES
  driver,           \* where the caller of the handlers is
  messages,         \* _messages
  state,            \* _state
  queueOpen,        \* _audio_queue is not None
  audioQueue,       \* its content
  pending,          \* _pending_barge_in_audio
  turnTask,         \* _turn_task, and how far its task has got
  currentTimeline,  \* turn of _current_timeline, 0 for None
  bargedIn,         \* its barged_in flag
  turnCounter,      \* _turn_counter
  prompt,           \* the messages the turn task built for the model
  replyParts,       \* the turn task's reply_parts
  outbox,           \* every event put on outbox (the sender only reads it)
  received,         \* frames received so far
  heard,            \* the utterances handed to the STT, each a frame sequence
  overflowed        \* frames the pre-roll buffer gave up, in that order

vars == <<driver, messages, state, queueOpen, audioQueue, pending, turnTask,
          currentTimeline, bargedIn, turnCounter, prompt, replyParts, outbox,
          received, heard, overflowed>>

(* "closed": close() returned.  "raised": a handler raised, so the gateway  *)
(* leaves its loop and close() is the next call.                            *)
DriverAt == {"idle", "stt", "cancelling", "raised", "closing", "closed"}

(* "created": scheduled, body not entered.  "failed" and "cancelled": done. *)
TaskAt   == {"none", "created", "running", "failed", "cancelled"}

TaskAlive  == turnTask \in {"created", "running"}
Cancelling == driver \in {"cancelling", "closing"}

Init ==
  /\ driver = "idle"
  /\ messages \in Restorable
  /\ state = "listening"
  /\ queueOpen = TRUE
  /\ audioQueue = <<>>
  /\ pending = <<>>
  /\ turnTask = "none"
  /\ currentTimeline = 0
  /\ bargedIn = FALSE
  /\ turnCounter = 0
  /\ prompt = <<>>
  /\ replyParts = <<>>
  /\ outbox = <<>>
  /\ received = 0
  /\ heard = <<>>
  /\ overflowed = <<>>

turnVars  == <<turnTask, currentTimeline, bargedIn, turnCounter, prompt, replyParts>>
audioVars == <<queueOpen, audioQueue, pending, received, heard, overflowed>>

-----------------------------------------------------------------------------
(* Audio frames. *)

(* Mutant: one frame too many. *)
BufferedOffByOne(frames, f) ==
  IF Len(frames) > BargeInBufferFrames THEN Tail(Append(frames, f))
                                       ELSE Append(frames, f)

(* list.append, then pop(0) above the cap. *)
Buffered(frames, f) ==
  IF Len(frames) + 1 > BargeInBufferFrames THEN Tail(Append(frames, f))
                                           ELSE Append(frames, f)

OnAudioFrame ==
  /\ driver = "idle"
  /\ received < MaxFrames
  /\ received' = received + 1
  /\ audioQueue' = IF state = "listening" /\ queueOpen
                   THEN Append(audioQueue, received + 1) ELSE audioQueue
  /\ pending' = IF state = "speaking"
                THEN Buffered(pending, received + 1) ELSE pending
  /\ overflowed' = IF state = "speaking" /\ Len(pending) + 1 > BargeInBufferFrames
                   THEN Append(overflowed, Head(Append(pending, received + 1)))
                   ELSE overflowed
  /\ UNCHANGED <<driver, messages, state, queueOpen, heard, outbox, turnVars>>

-----------------------------------------------------------------------------
(* Cancelling the current turn. *)

(* Mutant: _current_timeline is not cleared, so the next caller reports    *)
(* the same turn again. *)
ReportInterruptedStale ==
  /\ turnTask' = "none"
  /\ outbox' = IF currentTimeline # 0 /\ Len(outbox) < 6
               THEN Append(outbox, TurnInterruptedEvent(currentTimeline, bargedIn))
               ELSE outbox
  /\ UNCHANGED <<currentTimeline, bargedIn, turnCounter, prompt, replyParts>>

(* Mutant: the turn is reported only if run_turn has flagged it. *)
ReportInterruptedIfFlagged ==
  /\ turnTask' = "none"
  /\ currentTimeline' = 0
  /\ outbox' = IF currentTimeline # 0 /\ bargedIn
               THEN Append(outbox, TurnInterruptedEvent(currentTimeline, bargedIn))
               ELSE outbox
  /\ UNCHANGED <<bargedIn, turnCounter, prompt, replyParts>>

(* The part of _cancel_current_turn after the task is done. *)
ReportInterrupted ==
  /\ turnTask' = "none"
  /\ currentTimeline' = 0
  /\ outbox' = IF currentTimeline # 0
               THEN Append(outbox, TurnInterruptedEvent(currentTimeline, bargedIn))
               ELSE outbox
  /\ UNCHANGED <<bargedIn, turnCounter, prompt, replyParts>>

(* Mutant: the pre-roll is replayed but not cleared. *)
BackToListeningKeepsPreRoll ==
  /\ ReportInterrupted
  /\ driver' = "idle"
  /\ state' = "listening"
  /\ queueOpen' = TRUE
  /\ audioQueue' = pending
  /\ UNCHANGED <<messages, pending, received, heard, overflowed>>

(* What on_speech_start does once the turn is gone: the pre-roll becomes   *)
(* the start of the new utterance.                                         *)
BackToListening ==
  /\ ReportInterrupted
  /\ driver' = "idle"
  /\ state' = "listening"
  /\ queueOpen' = TRUE
  /\ audioQueue' = pending
  /\ pending' = <<>>
  /\ UNCHANGED <<messages, received, heard, overflowed>>

OnSpeechStartListening ==
  /\ driver = "idle" /\ state # "speaking"
  /\ queueOpen' = TRUE
  /\ audioQueue' = IF queueOpen THEN audioQueue ELSE <<>>
  /\ UNCHANGED <<driver, messages, state, pending, received, heard, overflowed,
                 outbox, turnVars>>

(* The turn task is alive: request its cancellation and wait for it. *)
BargeIn ==
  /\ driver = "idle" /\ state = "speaking"
  /\ TaskAlive
  /\ driver' = "cancelling"
  /\ UNCHANGED <<messages, state, outbox, audioVars, turnVars>>

(* The turn task failed earlier: nothing to wait for, no suspension. *)
BargeInOnDeadTurn ==
  /\ driver = "idle" /\ state = "speaking"
  /\ ~TaskAlive
  /\ BackToListening

(* Mutant: a task that has not been entered is not cancelled. *)
TurnCancelledOnceRunning ==
  /\ Cancelling /\ turnTask = "running"
  /\ turnTask' = "cancelled"
  /\ bargedIn' = TRUE
  /\ UNCHANGED <<driver, messages, state, outbox, audioVars, currentTimeline,
                 turnCounter, prompt, replyParts>>

(* Mutant: what was said of the reply is kept. *)
TurnCancelledKeepsPartial ==
  /\ Cancelling /\ TaskAlive
  /\ turnTask' = "cancelled"
  /\ bargedIn' = (turnTask = "running" \/ bargedIn)
  /\ messages' = Append(messages, AssistantMessage(turnCounter, replyParts))
  /\ UNCHANGED <<driver, state, outbox, audioVars, currentTimeline,
                 turnCounter, prompt, replyParts>>

(* The task sees the cancellation.  One that has not been entered yet ends *)
(* without running a line, so only run_turn's handler sets barged_in.      *)
TurnCancelled ==
  /\ Cancelling /\ TaskAlive
  /\ turnTask' = "cancelled"
  /\ bargedIn' = (turnTask = "running" \/ bargedIn)
  /\ UNCHANGED <<driver, messages, state, outbox, audioVars, currentTimeline,
                 turnCounter, prompt, replyParts>>

FinishBargeIn ==
  /\ driver = "cancelling" /\ ~TaskAlive
  /\ BackToListening

-----------------------------------------------------------------------------
(* The end of an utterance. *)

(* No stream is open, the message is ignored. *)
OnSpeechEndIgnored ==
  /\ driver = "idle" /\ ~queueOpen
  /\ UNCHANGED vars

OnSpeechEnd ==
  /\ driver = "idle" /\ queueOpen
  /\ Len(heard) < MaxUtterances
  /\ driver' = "stt"
  /\ heard' = Append(heard, audioQueue)
  /\ queueOpen' = FALSE
  /\ audioQueue' = <<>>
  /\ UNCHANGED <<messages, state, pending, received, overflowed, outbox, turnVars>>

(* The final transcript is blank, or no final transcript came. *)
SttHearsNothing ==
  /\ driver = "stt"
  /\ driver' = "idle"
  /\ outbox' = Append(outbox, NoSpeechEvent)
  /\ queueOpen' = TRUE
  /\ audioQueue' = <<>>
  /\ UNCHANGED <<messages, state, pending, received, heard, overflowed, turnVars>>

(* Mutant: the learner's words do not enter the history. *)
SttHearsSpeechUnrecorded ==
  /\ driver = "stt"
  /\ driver' = "idle"
  /\ turnCounter' = turnCounter + 1
  /\ outbox' = Append(outbox, TranscriptEvent(turnCounter + 1))
  /\ state' = "speaking"
  /\ currentTimeline' = turnCounter + 1
  /\ bargedIn' = FALSE
  /\ turnTask' = "created"
  /\ replyParts' = <<>>
  /\ UNCHANGED <<messages, prompt, audioVars>>

SttHearsSpeech ==
  /\ driver = "stt"
  /\ driver' = "idle"
  /\ turnCounter' = turnCounter + 1
  /\ messages' = Append(messages, UserMessage(turnCounter + 1))
  /\ outbox' = Append(outbox, TranscriptEvent(turnCounter + 1))
  /\ state' = "speaking"
  /\ currentTimeline' = turnCounter + 1
  /\ bargedIn' = FALSE
  /\ turnTask' = "created"
  /\ replyParts' = <<>>
  /\ UNCHANGED <<prompt, audioVars>>

SttRaises ==
  /\ driver = "stt"
  /\ driver' = "raised"
  /\ UNCHANGED <<messages, state, outbox, audioVars, turnVars>>

-----------------------------------------------------------------------------
(* The turn task, _run_turn.  None of its steps can follow a cancellation  *)
(* request: asyncio resumes the task with CancelledError instead.          *)

(* Mutant: the task counts its turn too. *)
TurnStartsCounting ==
  /\ turnTask = "created" /\ ~Cancelling
  /\ turnTask' = "running"
  /\ prompt' = messages
  /\ replyParts' = <<>>
  /\ turnCounter' = turnCounter + 1
  /\ UNCHANGED <<driver, messages, state, outbox, audioVars, currentTimeline,
                 bargedIn>>

TurnStarts ==
  /\ turnTask = "created" /\ ~Cancelling
  /\ turnTask' = "running"
  /\ prompt' = messages
  /\ replyParts' = <<>>
  /\ UNCHANGED <<driver, messages, state, outbox, audioVars, currentTimeline,
                 bargedIn, turnCounter>>

(* run_turn yields the audio of one clause. *)
PipelineYields ==
  /\ turnTask = "running" /\ ~Cancelling
  /\ Len(replyParts) < MaxChunks
  /\ LET clause == Len(replyParts) + 1 IN
       /\ replyParts' = Append(replyParts, clause)
       /\ outbox' = Append(outbox, AssistantAudioEvent(currentTimeline, clause))
  /\ UNCHANGED <<driver, messages, state, audioVars, turnTask, currentTimeline,
                 bargedIn, turnCounter, prompt>>

(* Mutant: no new stream is opened after a turn. *)
TurnCompletesNoStream ==
  /\ turnTask = "running" /\ ~Cancelling
  /\ messages' = Append(messages, AssistantMessage(turnCounter, replyParts))
  /\ outbox' = Append(outbox, TurnCompleteEvent(currentTimeline, bargedIn))
  /\ turnTask' = "none"
  /\ currentTimeline' = 0
  /\ state' = "listening"
  /\ UNCHANGED <<driver, audioVars, bargedIn, turnCounter, prompt, replyParts>>

(* Mutant: the timeline of the turn is not cleared. *)
TurnCompletesKeepsTimeline ==
  /\ turnTask = "running" /\ ~Cancelling
  /\ messages' = Append(messages, AssistantMessage(turnCounter, replyParts))
  /\ outbox' = Append(outbox, TurnCompleteEvent(currentTimeline, bargedIn))
  /\ turnTask' = "none"
  /\ state' = "listening"
  /\ queueOpen' = TRUE
  /\ audioQueue' = <<>>
  /\ UNCHANGED <<driver, pending, received, heard, overflowed, bargedIn,
                 currentTimeline, turnCounter, prompt, replyParts>>

(* run_turn is exhausted: everything after the loop, in one step.  The     *)
(* pre-roll buffer is not touched.                                         *)
TurnCompletes ==
  /\ turnTask = "running" /\ ~Cancelling
  /\ messages' = Append(messages, AssistantMessage(turnCounter, replyParts))
  /\ outbox' = Append(outbox, TurnCompleteEvent(currentTimeline, bargedIn))
  /\ turnTask' = "none"
  /\ currentTimeline' = 0
  /\ state' = "listening"
  /\ queueOpen' = TRUE
  /\ audioQueue' = <<>>
  /\ UNCHANGED <<driver, pending, received, heard, overflowed, bargedIn,
                 turnCounter, prompt, replyParts>>

(* A provider raises inside run_turn.  Nobody awaits the task: the session *)
(* stays in "speaking" and emits nothing until the next speech_start.      *)
TurnFails ==
  /\ turnTask = "running" /\ ~Cancelling
  /\ turnTask' = "failed"
  /\ UNCHANGED <<driver, messages, state, outbox, audioVars, currentTimeline,
                 bargedIn, turnCounter, prompt, replyParts>>

-----------------------------------------------------------------------------
(* The connection ends. *)

CloseWithTurn ==
  /\ driver \in {"idle", "raised"} /\ TaskAlive
  /\ driver' = "closing"
  /\ UNCHANGED <<messages, state, outbox, audioVars, turnVars>>

CloseWithoutTurn ==
  /\ driver \in {"idle", "raised"} /\ ~TaskAlive
  /\ driver' = "closed"
  /\ ReportInterrupted
  /\ UNCHANGED <<messages, state, audioVars>>

(* close() says it is idempotent: a second call finds no turn. *)
CloseAgain ==
  /\ driver = "closed"
  /\ ReportInterrupted
  /\ UNCHANGED <<driver, messages, state, audioVars>>

(* Mutant: the session is closed without forgetting its task. *)
FinishCloseKeepsTask ==
  /\ driver = "closing" /\ ~TaskAlive
  /\ driver' = "closed"
  /\ UNCHANGED <<messages, state, outbox, audioVars, turnVars>>

FinishClose ==
  /\ driver = "closing" /\ ~TaskAlive
  /\ driver' = "closed"
  /\ ReportInterrupted
  /\ UNCHANGED <<messages, state, audioVars>>

-----------------------------------------------------------------------------

SpeechStart == OnSpeechStartListening \/ BargeIn \/ BargeInOnDeadTurn
SpeechEnd   == OnSpeechEndIgnored \/ OnSpeechEnd
SttReturns  == SttHearsNothing \/ SttHearsSpeech \/ SttRaises

(* Mutant: the coroutine is made but never scheduled. *)
TurnStepNeverStarts == PipelineYields \/ TurnCompletes \/ TurnFails

TurnStep    == TurnStarts \/ PipelineYields \/ TurnCompletes \/ TurnFails
Close       == CloseWithTurn \/ CloseWithoutTurn \/ CloseAgain

Next ==
  \/ OnAudioFrame \/ SpeechStart \/ SpeechEnd \/ Close   \* the connection
  \/ SttReturns \/ TurnStep                              \* the providers answer
  \/ TurnCancelled \/ FinishBargeIn \/ FinishClose       \* the event loop

Spec == Init /\ [][Next]_vars

(* The event loop runs what is ready: a cancelled task and the coroutine   *)
(* awaiting it.  Nothing is assumed of the learner or of the providers.    *)
LoopFairness == WF_vars(TurnCancelled) /\ WF_vars(FinishBargeIn) /\ WF_vars(FinishClose)

(* The provider contracts: the STT stream ends, and generation and         *)
(* synthesis go on to an end (a final delta, a bounded number of clauses). *)
ProviderFairness == WF_vars(SttReturns) /\ WF_vars(TurnStep)

LoopSpec == Spec /\ LoopFairness

-----------------------------------------------------------------------------
(* Properties. *)

(* Every turn counted has an utterance of its own, and the one the STT     *)
(* still listens to is not counted.                                        *)
TurnsCounted ==
  /\ turnCounter <= Len(heard)
  /\ driver = "stt" => turnCounter < Len(heard)

(* The fields hold what they should, and no turn is counted without an     *)
(* utterance that the STT has answered.                                    *)
TypeOK ==
  /\ driver \in DriverAt
  /\ messages \in Seq(Message)
  /\ state \in {"listening", "speaking"}
  /\ queueOpen \in BOOLEAN
  /\ audioQueue \in Seq(Nat)
  /\ pending \in Seq(Nat)
  /\ turnTask \in TaskAt
  /\ currentTimeline \in Nat
  /\ bargedIn \in BOOLEAN
  /\ turnCounter \in Nat
  /\ prompt \in Seq(Message)
  /\ replyParts \in Seq(Nat)
  /\ outbox \in Seq(Event)
  /\ received \in Nat
  /\ heard \in Seq(Seq(Nat))
  /\ overflowed \in Seq(Nat)
  /\ TurnsCounted

(* _state, _audio_queue, _turn_task and _current_timeline are four fields  *)
(* written by two coroutines; every handler reads one or two and trusts    *)
(* the rest.  They always agree: a turn's task and timeline come and go    *)
(* together, "speaking" is exactly a session with a turn, no STT stream    *)
(* is open under a turn, an idle listening session has one (no frame is    *)
(* dropped), and a closed session has no task left.                        *)
ModeCoherent ==
  /\ turnTask # "none" <=> currentTimeline # 0
  /\ turnTask # "none" => currentTimeline = turnCounter
  /\ driver # "closed" => (state = "speaking" <=> turnTask # "none")
  /\ driver = "closed" => turnTask = "none"
  /\ state = "speaking" => ~queueOpen
  /\ driver = "idle" /\ state = "listening" => queueOpen
  /\ driver = "stt" => state = "listening" /\ ~queueOpen
  /\ Cancelling => turnTask \in {"created", "running", "cancelled"}
  /\ turnTask = "cancelled" => Cancelling

(* The model answers the conversation as it stands: while a turn runs the  *)
(* prompt it was started with is still the whole history, ending with the  *)
(* learner's words, so the reply that completes is appended right after    *)
(* the utterance it answers.                                               *)
PromptIsHistory ==
  turnTask = "running" =>
    /\ prompt = messages
    /\ messages # <<>>
    /\ messages[Len(messages)] = UserMessage(turnCounter)

(* Every frame received is in exactly one place exactly once: an utterance *)
(* handed to the STT, the open stream, the pre-roll buffer, or the frames  *)
(* the full buffer gave up.  None is lost between a turn, its barge-in and *)
(* the next stream, and none reaches the STT twice.                        *)
Frames == FlattenSeq(heard) \o audioQueue \o pending \o overflowed

FramesConserved == Len(Frames) = received /\ ToSet(Frames) = 1..received

(* The pre-roll buffer is bounded and gives up the oldest frame first, so  *)
(* what a barge-in replays is the most recent audio (orchestrator.py       *)
(* 48-51).                                                                 *)
PreRollKeepsMostRecent ==
  /\ Len(pending) <= BargeInBufferFrames
  /\ \A i, j \in DOMAIN pending : i < j => pending[i] < pending[j]
  /\ \A i \in DOMAIN overflowed, j \in DOMAIN pending : overflowed[i] < pending[j]

(* A barge-in takes effect whatever the providers do: once the driver      *)
(* waits for the turn task it gets back to an idle listening session with  *)
(* an open stream.                                                         *)
BargeInTakesEffect ==
  driver = "cancelling" ~> driver = "idle" /\ state = "listening" /\ queueOpen

(* Closing ends too, with no turn task left behind. *)
CloseTakesEffect == driver = "closing" ~> driver = "closed" /\ turnTask = "none"

(* With providers that keep their contracts, every utterance handed to the *)
(* STT is resolved: reported as no speech, answered by a turn that         *)
(* completes or is interrupted, or ended by a failure of a provider.  The  *)
(* session never waits for a turn for ever.                                *)
UtterancesResolve ==
  ProviderFairness =>
    (driver = "stt" ~>
       driver \in {"idle", "raised", "closed"} /\ turnTask \in {"none", "failed"})

(* The implementation keeps the promise of TurnContract. *)
Contract == INSTANCE TurnContract WITH
  history    <- messages,
  log        <- outbox,
  phase      <- IF currentTimeline # 0 THEN "answering"
                ELSE IF driver = "stt" THEN "recognising" ELSE "open",
  turn       <- turnCounter,
  delivered  <- replyParts,
  utterances <- Len(heard)

KeepsContract == Contract!Spec

(* The promises of TurnContract, of the session's own log and history.     *)
(* _cancel_current_turn and the tail of _run_turn never both report a      *)
(* turn: its outcome is the last event the client sees of it.              *)
OutcomesFinal == Contract!OutcomeIsFinal

(* Nor do they both pass it over: a turn is given its outcome before the   *)
(* next one opens, also when its task failed or never ran.                 *)
TurnsResolved == Contract!EarlierTurnsHaveOutcomes

(* ADR-005: a reply is in _messages exactly when its turn was reported     *)
(* complete, and it holds the clauses whose audio was put on the outbox.   *)
HistoryFaithful == Contract!HistoryMatchesDelivery

-----------------------------------------------------------------------------
(* Two statements of the repository the code does not keep. *)

(* events.py 36-39: "A turn was cut short by barge-in. `summary` still     *)
(* carries whatever latency marks were captured before cancellation, plus  *)
(* barged_in=True."  (Close emits the event as well, hence the guard.)     *)
InterruptionsAreFlagged ==
  driver # "closed" =>
    \A i \in DOMAIN outbox : outbox[i].type = "interrupted" => outbox[i].bargedIn

(* orchestrator.py 48-51 and ADR-005 38-41: the buffer holds recent audio, *)
(* captured while the agent was speaking, so that "the first syllables of  *)
(* the interruption are not lost".  The STT is then given frames in the    *)
(* order in which they were captured.                                      *)
HeardInCaptureOrder ==
  LET frames == FlattenSeq(heard) \o audioQueue IN
    \A i, j \in DOMAIN frames : i < j => frames[i] < frames[j]

=============================================================================
