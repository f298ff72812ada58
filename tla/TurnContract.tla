---------------------------- MODULE TurnContract ----------------------------
(***************************************************************************)
(* What a voice session promises to its two readers: the client, which     *)
(* reads the event log, and the language model, which reads the history.   *)
(*                                                                         *)
(* Utterances are answered one at a time.  An utterance with nothing in it *)
(* is reported as no_speech.  Any other one opens a turn: the learner's    *)
(* words enter the history and are echoed as a transcript, clauses of the  *)
(* reply are delivered one by one, and the turn ends in exactly one of two *)
(* ways.  Completed: the reply enters the history.  Interrupted: the       *)
(* history keeps only the learner's words (ADR-005).                       *)
(*                                                                         *)
(* There is no task, queue, provider or cancellation here; Orchestrator    *)
(* shows that the asyncio implementation keeps this promise.               *)
(***************************************************************************)
EXTENDS SessionTypes

CONSTANTS Restorable,   \* the histories a session may resume from
          MaxUtterances, \* bound: utterances per session
          MaxChunks      \* bound: clauses per reply

VARIABLES
  history,     \* the conversation the model is prompted with
  log,         \* every event emitted, oldest first
  phase,       \* "open", "recognising" an utterance, "answering" a turn
  turn,        \* number of turns opened so far
  delivered,   \* the clauses of the latest turn delivered so far
  utterances   \* number of utterances taken so far

vars == <<history, log, phase, turn, delivered, utterances>>

Init ==
  /\ history \in Restorable
  /\ history \in Seq(Message) /\ RestoredHistory(history)
  /\ log = <<>>
  /\ phase = "open"
  /\ turn = 0
  /\ delivered = <<>>
  /\ utterances = 0

(* The learner's utterance is over and goes to the recogniser. *)
TakeUtterance ==
  /\ phase = "open"
  /\ utterances < MaxUtterances
  /\ phase' = "recognising"
  /\ utterances' = utterances + 1
  /\ UNCHANGED <<history, log, turn, delivered>>

(* Nothing recognisable was said. *)
ReportNoSpeech ==
  /\ phase = "recognising"
  /\ phase' = "open"
  /\ log' = Append(log, NoSpeechEvent)
  /\ UNCHANGED <<history, turn, delivered, utterances>>

(* The recogniser failed: the utterance gets no answer. *)
AbandonUtterance ==
  /\ phase = "recognising"
  /\ phase' = "open"
  /\ UNCHANGED <<history, log, turn, delivered, utterances>>

(* Something was said: a turn opens. *)
OpenTurn ==
  /\ phase = "recognising"
  /\ phase' = "answering"
  /\ turn' = turn + 1
  /\ delivered' = <<>>
  /\ history' = Append(history, UserMessage(turn + 1))
  /\ log' = Append(log, TranscriptEvent(turn + 1))
  /\ UNCHANGED utterances

DeliverClause ==
  /\ phase = "answering"
  /\ Len(delivered) < MaxChunks
  /\ LET c == Len(delivered) + 1 IN
       /\ delivered' = Append(delivered, c)
       /\ log' = Append(log, AssistantAudioEvent(turn, c))
  /\ UNCHANGED <<history, phase, turn, utterances>>

CompleteTurn ==
  /\ phase = "answering"
  /\ phase' = "open"
  /\ history' = Append(history, AssistantMessage(turn, delivered))
  /\ \E b \in BOOLEAN : log' = Append(log, TurnCompleteEvent(turn, b))
  /\ UNCHANGED <<turn, delivered, utterances>>

InterruptTurn ==
  /\ phase = "answering"
  /\ phase' = "open"
  /\ \E b \in BOOLEAN : log' = Append(log, TurnInterruptedEvent(turn, b))
  /\ UNCHANGED <<history, turn, delivered, utterances>>

Next ==
  \/ TakeUtterance \/ ReportNoSpeech \/ AbandonUtterance \/ OpenTurn
  \/ DeliverClause \/ CompleteTurn \/ InterruptTurn

Spec == Init /\ [][Next]_vars

-----------------------------------------------------------------------------

TypeOK ==
  /\ history \in Seq(Message)
  /\ log \in Seq(Event)
  /\ phase \in {"open", "recognising", "answering"}
  /\ turn \in Nat
  /\ delivered \in Seq(Nat)
  /\ utterances \in Nat

(* What the log and the history say of a turn. *)
IsOutcome(e)     == e.type \in OutcomeTypes
Completed(n)     == \E i \in DOMAIN log : log[i].type = "complete" /\ log[i].turn = n
Interrupted(n)   == \E i \in DOMAIN log : log[i].type = "interrupted" /\ log[i].turn = n
Recorded(n)      == \E i \in DOMAIN history : history[i].role = "assistant" /\ history[i].turn = n
AudioOf(n)       == {log[i].chunk : i \in {j \in DOMAIN log :
                                  log[j].type = "audio" /\ log[j].turn = n}}
Clauses(r)       == {r[k] : k \in DOMAIN r}

(* The outcome of a turn is its last event: no turn is both completed and  *)
(* interrupted, none ends twice, and no audio of a turn the client was     *)
(* told is over follows (_cancel_current_turn and the tail of _run_turn    *)
(* must not both report, orchestrator.py 218-221).                         *)
OutcomeIsFinal ==
  \A i, j \in DOMAIN log :
     IsOutcome(log[i]) /\ log[j].turn = log[i].turn => j <= i

(* Before the next turn opens the previous one has been given its outcome: *)
(* a client that pairs transcripts with outcomes never loses count.        *)
EarlierTurnsHaveOutcomes ==
  \A n \in 1..turn : n < turn \/ phase # "answering" =>
     Completed(n) \/ Interrupted(n)

(* ADR-005.  A reply is in the history exactly when its turn was reported  *)
(* complete, so an interrupted turn leaves no assistant message behind...  *)
RepliesAreCompleted ==
  \A n \in 1..turn : Completed(n) <=> Recorded(n)

(* ... and it holds the clauses whose audio was emitted, and only those.   *)
RepliesAreDelivered ==
  \A n \in 1..turn, i \in DOMAIN history :
     history[i].role = "assistant" /\ history[i].turn = n =>
       Clauses(history[i].reply) = AudioOf(n)

(* What the model is told was said is what the learner was sent.           *)
HistoryMatchesDelivery == RepliesAreCompleted /\ RepliesAreDelivered

=============================================================================
