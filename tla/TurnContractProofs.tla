------------------------- MODULE TurnContractProofs -------------------------
(***************************************************************************)
(* Every behaviour of TurnContract keeps its three promises, for every     *)
(* value of the constants.                                                 *)
(***************************************************************************)
EXTENDS TurnContract, TLAPS

(* A turn being answered has been opened, has no outcome and no reply in   *)
(* the history yet, and its audio in the log is what was delivered.        *)
OpenTurnInv ==
  phase = "answering" =>
    /\ turn >= 1
    /\ \A i \in DOMAIN log : IsOutcome(log[i]) => log[i].turn # turn
    /\ \A i \in DOMAIN history : history[i].role = "assistant" => history[i].turn # turn
    /\ \A n \in 1..turn : n = turn => AudioOf(n) = Clauses(delivered)

(* Turn numbers come from the counter, and an outcome names a turn. *)
NumberingInv ==
  /\ \A i \in DOMAIN log : log[i].turn <= turn
  /\ \A i \in DOMAIN log : log[i].type # "no_speech" => log[i].turn >= 1
  /\ \A i \in DOMAIN history : history[i].turn <= turn

(* The inductive invariant. *)
IInv ==
  /\ TypeOK
  /\ NumberingInv
  /\ OpenTurnInv
  /\ OutcomeIsFinal
  /\ EarlierTurnsHaveOutcomes
  /\ HistoryMatchesDelivery

-----------------------------------------------------------------------------

(* What appending does to a sequence, in the form the steps below need it. *)
LEMMA AppendFacts ==
  ASSUME NEW S, NEW s \in Seq(S), NEW e \in S
  PROVE  /\ Append(s, e) \in Seq(S)
         /\ Len(Append(s, e)) = Len(s) + 1
         /\ DOMAIN s = 1..Len(s)
         /\ DOMAIN Append(s, e) = 1..(Len(s) + 1)
         /\ \A i \in DOMAIN s : Append(s, e)[i] = s[i]
         /\ Append(s, e)[Len(s) + 1] = e
  OBVIOUS

(* What one more message changes in which replies the history holds. *)
LEMMA HistoryAppend ==
  ASSUME history \in Seq(Message), NEW m \in Message, history' = Append(history, m),
         NEW n \in Nat
  PROVE  Recorded(n)' <=> (Recorded(n) \/ (m.role = "assistant" /\ m.turn = n))
<1> DEFINE last == Len(history) + 1
<1>1. /\ \A i \in DOMAIN history : i \in DOMAIN history' /\ history'[i] = history[i]
      /\ last \in DOMAIN history' /\ history'[last] = m
      /\ \A i \in DOMAIN history' : i \in DOMAIN history \/ i = last
  OBVIOUS
<1> HIDE DEF last
<1>2. QED
  BY <1>1 DEF Recorded

(* An event of a turn that has no outcome yet keeps outcomes final. *)
LEMMA OutcomesAppend ==
  ASSUME log \in Seq(Event), OutcomeIsFinal, NEW e \in Event, log' = Append(log, e),
         \A i \in DOMAIN log : IsOutcome(log[i]) => log[i].turn # e.turn
  PROVE  OutcomeIsFinal'
<1> DEFINE last == Len(log) + 1
<1>1. /\ \A i \in DOMAIN log : log'[i] = log[i] /\ i \in Nat /\ i <= last
      /\ log'[last] = e /\ last \in Nat
      /\ \A i \in DOMAIN log' : i \in DOMAIN log \/ i = last
  OBVIOUS
<1> HIDE DEF last
<1>2. ASSUME NEW i \in DOMAIN log', NEW j \in DOMAIN log',
             IsOutcome(log'[i]), log'[j].turn = log'[i].turn
      PROVE  j <= i
  <2>1. CASE i = last
    BY <2>1, <1>1
  <2>2. CASE i \in DOMAIN log /\ j \in DOMAIN log
    BY <2>2, <1>1, <1>2 DEF OutcomeIsFinal
  <2>3. CASE i \in DOMAIN log /\ j = last
    BY <2>3, <1>1, <1>2
  <2>4. QED
    BY <2>1, <2>2, <2>3, <1>1
<1>3. QED
  BY <1>2 DEF OutcomeIsFinal, IsOutcome

(* An event of the open turn, or of no turn, keeps the numbering. *)
LEMMA LogNumbering ==
  ASSUME log \in Seq(Event), turn \in Nat, NumberingInv, turn' = turn,
         NEW e \in Event, log' = Append(log, e), e.turn <= turn,
         e.type # "no_speech" => e.turn >= 1
  PROVE  /\ \A i \in DOMAIN log' : log'[i].turn <= turn'
         /\ \A i \in DOMAIN log' : log'[i].type # "no_speech" => log'[i].turn >= 1
<1>1. \A i \in DOMAIN log' : log'[i] = e \/ (i \in DOMAIN log /\ log'[i] = log[i])
  OBVIOUS
<1>2. QED
  BY <1>1 DEF NumberingInv

(* The constructors build messages and events. *)
LEMMA ConstructorTypes ==
  /\ \A n \in Nat : UserMessage(n) \in Message
  /\ \A n \in Nat, r \in Seq(Nat) : AssistantMessage(n, r) \in Message
  /\ NoSpeechEvent \in Event
  /\ \A n \in Nat : TranscriptEvent(n) \in Event
  /\ \A n, c \in Nat : AssistantAudioEvent(n, c) \in Event
  /\ \A n \in Nat, b \in BOOLEAN : TurnCompleteEvent(n, b) \in Event
  /\ \A n \in Nat, b \in BOOLEAN : TurnInterruptedEvent(n, b) \in Event
  BY DEF UserMessage, AssistantMessage, Message, NoSpeechEvent, TranscriptEvent,
         AssistantAudioEvent, TurnCompleteEvent, TurnInterruptedEvent, Event,
         OutcomeTypes

(* What one more event changes in what the log says of a turn. *)
LEMMA LogAppend ==
  ASSUME log \in Seq(Event), NEW e \in Event, log' = Append(log, e), NEW n \in Nat
  PROVE  /\ Completed(n)' <=> (Completed(n) \/ (e.type = "complete" /\ e.turn = n))
         /\ Interrupted(n)' <=> (Interrupted(n) \/ (e.type = "interrupted" /\ e.turn = n))
         /\ e.type = "audio" /\ e.turn = n => AudioOf(n)' = AudioOf(n) \cup {e.chunk}
         /\ e.type # "audio" \/ e.turn # n => AudioOf(n)' = AudioOf(n)
<1> DEFINE last == Len(log) + 1
<1>1. /\ DOMAIN log = 1..Len(log) /\ DOMAIN log' = 1..last /\ Len(log) \in Nat
      /\ \A i \in DOMAIN log : i \in DOMAIN log' /\ log'[i] = log[i]
      /\ last \in DOMAIN log' /\ log'[last] = e
      /\ \A i \in DOMAIN log' : i \in DOMAIN log \/ i = last
  OBVIOUS
<1> HIDE DEF last
<1>2. Completed(n)' <=> (Completed(n) \/ (e.type = "complete" /\ e.turn = n))
  BY <1>1 DEF Completed
<1>3. Interrupted(n)' <=> (Interrupted(n) \/ (e.type = "interrupted" /\ e.turn = n))
  BY <1>1 DEF Interrupted
<1>4. AudioOf(n) \subseteq AudioOf(n)'
  BY <1>1 DEF AudioOf
<1>5. \A c \in AudioOf(n)' : c \in AudioOf(n) \/ (c = e.chunk /\ e.type = "audio" /\ e.turn = n)
  BY <1>1 DEF AudioOf
<1>6. e.type = "audio" /\ e.turn = n => e.chunk \in AudioOf(n)'
  BY <1>1 DEF AudioOf
<1>7. QED
  BY <1>2, <1>3, <1>4, <1>5, <1>6

(* Type correctness. *)
THEOREM TypeCorrect == Spec => []TypeOK
<1>1. Init => TypeOK
  BY DEF Init, TypeOK
<1>2. TypeOK /\ [Next]_vars => TypeOK'
  <2> SUFFICES ASSUME TypeOK, [Next]_vars PROVE TypeOK'
    OBVIOUS
  <2> USE DEF TypeOK
  <2>1. CASE TakeUtterance
    BY <2>1 DEF TakeUtterance
  <2>2. CASE ReportNoSpeech
    BY <2>2, ConstructorTypes, AppendFacts DEF ReportNoSpeech
  <2>3. CASE AbandonUtterance
    BY <2>3 DEF AbandonUtterance
  <2>4. CASE OpenTurn
    <3>1. UserMessage(turn + 1) \in Message /\ TranscriptEvent(turn + 1) \in Event
      BY ConstructorTypes
    <3>2. QED
      BY <2>4, <3>1 DEF OpenTurn
  <2>5. CASE DeliverClause
    <3>1. AssistantAudioEvent(turn, Len(delivered) + 1) \in Event
      BY ConstructorTypes
    <3>2. QED
      BY <2>5, <3>1 DEF DeliverClause
  <2>6. CASE CompleteTurn
    <3>1. PICK b \in BOOLEAN : log' = Append(log, TurnCompleteEvent(turn, b))
      BY <2>6 DEF CompleteTurn
    <3>2. TurnCompleteEvent(turn, b) \in Event /\ AssistantMessage(turn, delivered) \in Message
      BY ConstructorTypes
    <3>3. QED
      BY <2>6, <3>1, <3>2 DEF CompleteTurn
  <2>7. CASE InterruptTurn
    <3>1. PICK b \in BOOLEAN : log' = Append(log, TurnInterruptedEvent(turn, b))
      BY <2>7 DEF InterruptTurn
    <3>2. TurnInterruptedEvent(turn, b) \in Event
      BY ConstructorTypes
    <3>3. QED
      BY <2>7, <3>1, <3>2 DEF InterruptTurn
  <2>8. CASE UNCHANGED vars
    BY <2>8 DEF vars
  <2>9. QED
    BY <2>1, <2>2, <2>3, <2>4, <2>5, <2>6, <2>7, <2>8 DEF Next
<1>3. QED
  BY <1>1, <1>2, PTL DEF Spec

(* The invariant holds initially: a restored history has no turn number.   *)
LEMMA InvInit == Init => IInv
<1> SUFFICES ASSUME Init PROVE IInv
  OBVIOUS
<1>1. /\ history \in Seq(Message) /\ RestoredHistory(history)
      /\ log = <<>> /\ phase = "open" /\ turn = 0 /\ delivered = <<>> /\ utterances = 0
  BY DEF Init
<1>2. TypeOK
  BY <1>1 DEF TypeOK
<1>3. NumberingInv
  BY <1>1 DEF NumberingInv, RestoredHistory
<1>4. OpenTurnInv /\ OutcomeIsFinal /\ EarlierTurnsHaveOutcomes
  BY <1>1 DEF OpenTurnInv, OutcomeIsFinal, EarlierTurnsHaveOutcomes
<1>5. HistoryMatchesDelivery
  BY <1>1 DEF HistoryMatchesDelivery, RepliesAreCompleted, RepliesAreDelivered, RestoredHistory,
              Completed, Recorded
<1>6. QED
  BY <1>2, <1>3, <1>4, <1>5 DEF IInv

(* The steps that leave the log and the history alone. *)
LEMMA QuietStep ==
  ASSUME IInv, TypeOK', phase \in {"open", "recognising"},
         phase' \in {"open", "recognising"}, UNCHANGED <<history, log, turn, delivered>>
  PROVE  IInv'
<1>1. NumberingInv'
  BY DEF IInv, NumberingInv
<1>2. OpenTurnInv'
  BY DEF OpenTurnInv
<1>3. OutcomeIsFinal'
  BY DEF IInv, OutcomeIsFinal, IsOutcome
<1>4. EarlierTurnsHaveOutcomes'
  BY DEF IInv, EarlierTurnsHaveOutcomes, Completed, Interrupted
<1>5. HistoryMatchesDelivery'
  BY DEF IInv, HistoryMatchesDelivery, RepliesAreCompleted, RepliesAreDelivered,
         Completed, Recorded, AudioOf
<1>6. QED
  BY <1>1, <1>2, <1>3, <1>4, <1>5 DEF IInv

(* Nothing recognisable: an event of no turn joins the log. *)
LEMMA ReportNoSpeechStep == ASSUME IInv, TypeOK', ReportNoSpeech PROVE IInv'
<1> USE DEF IInv, TypeOK
<1>0. NoSpeechEvent \in Event /\ log' = Append(log, NoSpeechEvent)
      /\ NoSpeechEvent.type = "no_speech" /\ NoSpeechEvent.turn = 0
      /\ UNCHANGED <<history, turn, delivered>> /\ phase' = "open" /\ phase = "recognising"
  BY ConstructorTypes DEF ReportNoSpeech, NoSpeechEvent
<1>1. NumberingInv'
  <2>1. \A i \in DOMAIN history' : history'[i].turn <= turn'
    BY <1>0 DEF NumberingInv
  <2>2. /\ \A i \in DOMAIN log' : log'[i].turn <= turn'
        /\ \A i \in DOMAIN log' : log'[i].type # "no_speech" => log'[i].turn >= 1
    BY <1>0, LogNumbering
  <2>3. QED
    BY <2>1, <2>2 DEF NumberingInv
<1>2. OpenTurnInv'
  BY <1>0 DEF OpenTurnInv
<1>3. OutcomeIsFinal'
  <2>1. \A i \in DOMAIN log : IsOutcome(log[i]) => log[i].turn # 0
    <3>1. \A i \in DOMAIN log : IsOutcome(log[i]) => log[i].type # "no_speech"
      BY DEF IsOutcome, OutcomeTypes
    <3>2. \A i \in DOMAIN log : log[i].type # "no_speech" => log[i].turn >= 1
      BY DEF NumberingInv
    <3>3. QED
      BY <3>1, <3>2
  <2>2. QED
    BY <1>0, <2>1, OutcomesAppend
<1>4. \A n \in Nat : /\ Completed(n)' <=> Completed(n)
                     /\ Interrupted(n)' <=> Interrupted(n)
                     /\ AudioOf(n)' = AudioOf(n)
  BY <1>0, LogAppend
<1>5. EarlierTurnsHaveOutcomes'
  BY <1>0, <1>4 DEF EarlierTurnsHaveOutcomes
<1>6. RepliesAreCompleted'
  BY <1>0, <1>4 DEF HistoryMatchesDelivery, RepliesAreCompleted, Recorded
<1>7. RepliesAreDelivered'
  BY <1>0, <1>4 DEF HistoryMatchesDelivery, RepliesAreDelivered
<1>8. QED
  BY <1>1, <1>2, <1>3, <1>5, <1>6, <1>7 DEF HistoryMatchesDelivery

(* A turn opens: its number is new to the log and to the history. *)
LEMMA OpenTurnStep == ASSUME IInv, TypeOK', OpenTurn PROVE IInv'
<1> USE DEF IInv, TypeOK
<1> DEFINE e == TranscriptEvent(turn + 1)
           m == UserMessage(turn + 1)
<1>0. /\ e \in Event /\ log' = Append(log, e) /\ e.type = "transcript" /\ e.turn = turn + 1
      /\ m \in Message /\ history' = Append(history, m) /\ m.role = "user" /\ m.turn = turn + 1
      /\ turn' = turn + 1 /\ delivered' = <<>> /\ phase' = "answering" /\ phase = "recognising"
  BY ConstructorTypes DEF OpenTurn, TranscriptEvent, UserMessage
<1> HIDE DEF e, m
<1>1. NumberingInv'
  <2>1. \A i \in DOMAIN log : log[i].turn \in Nat /\ log[i].turn <= turn + 1
    <3>1. \A i \in DOMAIN log : log[i] \in Event /\ log[i].turn <= turn
      BY DEF NumberingInv
    <3>2. QED
      BY <3>1 DEF Event
  <2>2. \A i \in DOMAIN history : history[i].turn \in Nat /\ history[i].turn <= turn + 1
    <3>1. \A i \in DOMAIN history : history[i] \in Message /\ history[i].turn <= turn
      BY DEF NumberingInv
    <3>2. QED
      BY <3>1 DEF Message
  <2>3. \A i \in DOMAIN log' : log'[i] = e \/ (i \in DOMAIN log /\ log'[i] = log[i])
    BY <1>0, AppendFacts
  <2>4. \A i \in DOMAIN history' :
          history'[i] = m \/ (i \in DOMAIN history /\ history'[i] = history[i])
    BY <1>0, AppendFacts
  <2>5. QED
    BY <1>0, <2>1, <2>2, <2>3, <2>4 DEF NumberingInv
<1>2. \A n \in Nat : /\ Completed(n)' <=> Completed(n)
                     /\ Interrupted(n)' <=> Interrupted(n)
                     /\ AudioOf(n)' = AudioOf(n)
  BY <1>0, LogAppend
<1>3. AudioOf(turn + 1) = {}
  BY DEF AudioOf, NumberingInv
<1>4. OpenTurnInv'
  <2>1. \A i \in DOMAIN log' : IsOutcome(log'[i]) => log'[i].turn # turn'
    BY <1>0, AppendFacts DEF NumberingInv, IsOutcome, OutcomeTypes
  <2>2. \A i \in DOMAIN history' : history'[i].role = "assistant" => history'[i].turn # turn'
    BY <1>0, AppendFacts DEF NumberingInv
  <2>3. Clauses(delivered') = {}
    BY <1>0 DEF Clauses
  <2>4. \A n \in 1..turn' : n = turn' => AudioOf(n)' = Clauses(delivered')
    BY <1>0, <1>2, <1>3, <2>3
  <2>5. turn' >= 1
    BY <1>0
  <2>6. QED
    BY <2>1, <2>2, <2>4, <2>5 DEF OpenTurnInv
<1>5. OutcomeIsFinal'
  <2>1. \A i \in DOMAIN log : log[i].turn # turn + 1
    BY DEF NumberingInv
  <2>2. QED
    BY <1>0, <2>1, OutcomesAppend
<1>6. EarlierTurnsHaveOutcomes'
  BY <1>0, <1>2 DEF EarlierTurnsHaveOutcomes
<1>7. ~Completed(turn + 1)
  BY DEF Completed, NumberingInv
<1>8. RepliesAreCompleted'
  <2>1. \A n \in Nat : Recorded(n)' <=> Recorded(n)
    BY <1>0, HistoryAppend
  <2>2. ~Recorded(turn + 1)
    BY DEF Recorded, NumberingInv
  <2>3. QED
    BY <1>0, <1>2, <1>7, <2>1, <2>2 DEF HistoryMatchesDelivery, RepliesAreCompleted
<1>9. RepliesAreDelivered'
  BY <1>0, <1>2, AppendFacts DEF HistoryMatchesDelivery, RepliesAreDelivered, NumberingInv
<1>10. QED
  BY <1>1, <1>4, <1>5, <1>6, <1>8, <1>9 DEF HistoryMatchesDelivery

(* One more clause of the open turn, in the log and in what it delivered. *)
LEMMA DeliverClauseStep == ASSUME IInv, TypeOK', DeliverClause PROVE IInv'
<1> USE DEF IInv, TypeOK
<1> DEFINE c == Len(delivered) + 1
           e == AssistantAudioEvent(turn, c)
<1>0. /\ e \in Event /\ log' = Append(log, e) /\ e.type = "audio" /\ e.turn = turn /\ e.chunk = c
      /\ delivered' = Append(delivered, c) /\ UNCHANGED <<history, turn, phase>>
      /\ phase = "answering" /\ turn >= 1
  BY ConstructorTypes DEF DeliverClause, AssistantAudioEvent, OpenTurnInv
<1> HIDE DEF e, c
<1>1. Clauses(delivered') = Clauses(delivered) \cup {c}
  <2>1. /\ \A k \in DOMAIN delivered : k \in DOMAIN delivered' /\ delivered'[k] = delivered[k]
        /\ Len(delivered) + 1 \in DOMAIN delivered' /\ delivered'[Len(delivered) + 1] = c
        /\ \A k \in DOMAIN delivered' : k \in DOMAIN delivered \/ k = Len(delivered) + 1
    BY <1>0
  <2>2. Clauses(delivered') \subseteq Clauses(delivered) \cup {c}
    BY <2>1 DEF Clauses
  <2>3. Clauses(delivered) \subseteq Clauses(delivered') /\ c \in Clauses(delivered')
    BY <2>1 DEF Clauses
  <2>4. QED
    BY <2>2, <2>3
<1>2. NumberingInv'
  <2>1. \A i \in DOMAIN history' : history'[i].turn <= turn'
    BY <1>0 DEF NumberingInv
  <2>2. /\ \A i \in DOMAIN log' : log'[i].turn <= turn'
        /\ \A i \in DOMAIN log' : log'[i].type # "no_speech" => log'[i].turn >= 1
    BY <1>0, LogNumbering
  <2>3. QED
    BY <2>1, <2>2 DEF NumberingInv
<1>3. \A n \in Nat : /\ Completed(n)' <=> Completed(n)
                     /\ Interrupted(n)' <=> Interrupted(n)
                     /\ n = turn => AudioOf(n)' = AudioOf(n) \cup {c}
                     /\ n # turn => AudioOf(n)' = AudioOf(n)
  BY <1>0, LogAppend
<1>4. OpenTurnInv'
  <2>1. \A i \in DOMAIN log' : IsOutcome(log'[i]) => log'[i].turn # turn'
    BY <1>0, AppendFacts DEF OpenTurnInv, IsOutcome, OutcomeTypes
  <2>2. \A n \in 1..turn' : n = turn' => AudioOf(n)' = Clauses(delivered')
    BY <1>0, <1>1, <1>3 DEF OpenTurnInv
  <2>3. QED
    BY <1>0, <2>1, <2>2 DEF OpenTurnInv
<1>5. OutcomeIsFinal'
  <2>1. \A i \in DOMAIN log : IsOutcome(log[i]) => log[i].turn # turn
    BY <1>0 DEF OpenTurnInv
  <2>2. QED
    BY <1>0, <2>1, OutcomesAppend
<1>6. EarlierTurnsHaveOutcomes'
  BY <1>0, <1>3 DEF EarlierTurnsHaveOutcomes
<1>7. RepliesAreCompleted'
  <2>1. \A n \in Nat : Recorded(n)' <=> Recorded(n)
    BY <1>0 DEF Recorded
  <2>2. QED
    BY <1>0, <1>3, <2>1 DEF HistoryMatchesDelivery, RepliesAreCompleted
<1>8. RepliesAreDelivered'
  BY <1>0, <1>3 DEF HistoryMatchesDelivery, RepliesAreDelivered, OpenTurnInv
<1>9. QED
  BY <1>2, <1>4, <1>5, <1>6, <1>7, <1>8 DEF HistoryMatchesDelivery

(* The reply enters the history with the event that completes its turn. *)
LEMMA CompleteTurnStep == ASSUME IInv, TypeOK', CompleteTurn PROVE IInv'
<1> USE DEF IInv, TypeOK
<1>a. PICK b \in BOOLEAN : log' = Append(log, TurnCompleteEvent(turn, b))
  BY DEF CompleteTurn
<1> DEFINE e == TurnCompleteEvent(turn, b)
           m == AssistantMessage(turn, delivered)
<1>0. /\ e \in Event /\ log' = Append(log, e) /\ e.type = "complete" /\ e.turn = turn
      /\ m \in Message /\ history' = Append(history, m) /\ m.role = "assistant"
      /\ m.turn = turn /\ m.reply = delivered
      /\ UNCHANGED <<turn, delivered>> /\ phase' = "open" /\ phase = "answering" /\ turn >= 1
  BY <1>a, ConstructorTypes DEF CompleteTurn, TurnCompleteEvent, AssistantMessage, OpenTurnInv
<1> HIDE DEF e, m
<1>1. NumberingInv'
  <2>1. \A i \in DOMAIN history' :
          history'[i] = m \/ (i \in DOMAIN history /\ history'[i] = history[i])
    BY <1>0, AppendFacts
  <2>2. \A i \in DOMAIN history' : history'[i].turn <= turn'
    BY <1>0, <2>1 DEF NumberingInv
  <2>3. /\ \A i \in DOMAIN log' : log'[i].turn <= turn'
        /\ \A i \in DOMAIN log' : log'[i].type # "no_speech" => log'[i].turn >= 1
    BY <1>0, LogNumbering
  <2>4. QED
    BY <2>2, <2>3 DEF NumberingInv
<1>2. OpenTurnInv'
  BY <1>0 DEF OpenTurnInv
<1>3. \A n \in Nat : /\ Completed(n)' <=> (Completed(n) \/ n = turn)
                     /\ Interrupted(n)' <=> Interrupted(n)
                     /\ AudioOf(n)' = AudioOf(n)
  BY <1>0, LogAppend
<1>4. OutcomeIsFinal'
  <2>1. \A i \in DOMAIN log : IsOutcome(log[i]) => log[i].turn # turn
    BY <1>0 DEF OpenTurnInv
  <2>2. QED
    BY <1>0, <2>1, OutcomesAppend
<1>5. EarlierTurnsHaveOutcomes'
  BY <1>0, <1>3 DEF EarlierTurnsHaveOutcomes
<1>6. RepliesAreCompleted'
  <2>1. \A n \in Nat : Recorded(n)' <=> (Recorded(n) \/ n = turn)
    BY <1>0, HistoryAppend
  <2>2. QED
    BY <1>0, <1>3, <2>1 DEF HistoryMatchesDelivery, RepliesAreCompleted
<1>7. RepliesAreDelivered'
  BY <1>0, <1>3, AppendFacts DEF HistoryMatchesDelivery, RepliesAreDelivered, OpenTurnInv
<1>8. QED
  BY <1>1, <1>2, <1>4, <1>5, <1>6, <1>7 DEF HistoryMatchesDelivery

(* The turn ends without touching the history. *)
LEMMA InterruptTurnStep == ASSUME IInv, TypeOK', InterruptTurn PROVE IInv'
<1> USE DEF IInv, TypeOK
<1>a. PICK b \in BOOLEAN : log' = Append(log, TurnInterruptedEvent(turn, b))
  BY DEF InterruptTurn
<1> DEFINE e == TurnInterruptedEvent(turn, b)
<1>0. /\ e \in Event /\ log' = Append(log, e) /\ e.type = "interrupted" /\ e.turn = turn
      /\ UNCHANGED <<history, turn, delivered>>
      /\ phase' = "open" /\ phase = "answering" /\ turn >= 1
  BY <1>a, ConstructorTypes DEF InterruptTurn, TurnInterruptedEvent, OpenTurnInv
<1> HIDE DEF e
<1>1. NumberingInv'
  <2>1. \A i \in DOMAIN history' : history'[i].turn <= turn'
    BY <1>0 DEF NumberingInv
  <2>2. /\ \A i \in DOMAIN log' : log'[i].turn <= turn'
        /\ \A i \in DOMAIN log' : log'[i].type # "no_speech" => log'[i].turn >= 1
    BY <1>0, LogNumbering
  <2>3. QED
    BY <2>1, <2>2 DEF NumberingInv
<1>2. OpenTurnInv'
  BY <1>0 DEF OpenTurnInv
<1>3. \A n \in Nat : /\ Completed(n)' <=> Completed(n)
                     /\ Interrupted(n)' <=> (Interrupted(n) \/ n = turn)
                     /\ AudioOf(n)' = AudioOf(n)
  BY <1>0, LogAppend
<1>4. OutcomeIsFinal'
  <2>1. \A i \in DOMAIN log : IsOutcome(log[i]) => log[i].turn # turn
    BY <1>0 DEF OpenTurnInv
  <2>2. QED
    BY <1>0, <2>1, OutcomesAppend
<1>5. EarlierTurnsHaveOutcomes'
  BY <1>0, <1>3 DEF EarlierTurnsHaveOutcomes
<1>6. RepliesAreCompleted'
  <2>1. \A n \in Nat : Recorded(n)' <=> Recorded(n)
    BY <1>0 DEF Recorded
  <2>2. QED
    BY <1>0, <1>3, <2>1 DEF HistoryMatchesDelivery, RepliesAreCompleted
<1>7. RepliesAreDelivered'
  BY <1>0, <1>3 DEF HistoryMatchesDelivery, RepliesAreDelivered
<1>8. QED
  BY <1>1, <1>2, <1>4, <1>5, <1>6, <1>7 DEF HistoryMatchesDelivery

-----------------------------------------------------------------------------

LEMMA InvStep == ASSUME IInv, TypeOK', [Next]_vars PROVE IInv'
<1>1. CASE TakeUtterance
  BY <1>1, QuietStep DEF TakeUtterance
<1>2. CASE AbandonUtterance
  BY <1>2, QuietStep DEF AbandonUtterance
<1>3. CASE UNCHANGED vars
  BY <1>3 DEF vars, IInv, NumberingInv, OpenTurnInv, OutcomeIsFinal,
     EarlierTurnsHaveOutcomes, HistoryMatchesDelivery, RepliesAreCompleted,
     RepliesAreDelivered, Completed, Recorded, Interrupted, AudioOf, IsOutcome
<1>4. QED
  BY <1>1, <1>2, <1>3, ReportNoSpeechStep, OpenTurnStep, DeliverClauseStep,
     CompleteTurnStep, InterruptTurnStep DEF Next

LEMMA Invariance == Spec => []IInv
<1>1. IInv /\ TypeOK' /\ [Next]_vars => IInv'
  BY InvStep
<1>2. QED
  BY InvInit, <1>1, TypeCorrect, PTL DEF Spec

(* No event of a turn follows its outcome, for any number of turns. *)
THEOREM OutcomesAreFinal == Spec => []OutcomeIsFinal
<1>1. IInv => OutcomeIsFinal
  BY DEF IInv
<1>2. QED
  BY <1>1, Invariance, PTL

(* Every turn but the one being answered has been given its outcome. *)
THEOREM TurnsAreResolved == Spec => []EarlierTurnsHaveOutcomes
<1>1. IInv => EarlierTurnsHaveOutcomes
  BY DEF IInv
<1>2. QED
  BY <1>1, Invariance, PTL

(* ADR-005: the history holds the replies of the completed turns, with the *)
(* clauses that were delivered, and nothing of the interrupted ones.       *)
THEOREM HistoryIsFaithful == Spec => []HistoryMatchesDelivery
<1>1. IInv => HistoryMatchesDelivery
  BY DEF IInv
<1>2. QED
  BY <1>1, Invariance, PTL

=============================================================================
