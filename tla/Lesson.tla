------------------------------- MODULE Lesson -------------------------------
(***************************************************************************)
(* A lesson as the demo gives it: the session that session/factory.py      *)
(* builds for a learner, a level and a scenario, on the scripted providers *)
(* of providers/mock.py, with the learner profile of state/learner.py      *)
(* kept between sessions and the session report of state/report.py.        *)
(*                                                                         *)
(* The interleavings inside a session are the subject of Orchestrator and  *)
(* CascadedPipeline.  Here a turn is the steps at which the text of the    *)
(* reply moves: the model writes a delta, the chunker releases clauses,    *)
(* the TTS speaks one, the turn completes, or a barge-in or the end of the *)
(* connection stops it.  The scripted providers never raise.  The pack is  *)
(* one that is tokenized at white space (fr_sle).                          *)
(***************************************************************************)
EXTENDS ClauseChunker

CONSTANTS Utterances,        \* the learner's script (MockSTT.utterances)
          Scripts,           \* the tutor's scripts that may be configured
          Ceiling,           \* vocabulary_ceiling of the learner's level
          TargetVocabulary,  \* target_vocabulary of the scenario
          ScenarioIds,       \* the scenarios a session may be opened with
          MaxMessages,       \* bound: messages in the history when one is heard
          MaxSessions        \* bound: sessions of the learner

(* Both scripts are walked with loop=True and are paired line by line. *)
ASSUME LessonAssumption ==
  /\ Utterances \in Seq(Text) /\ Utterances # <<>>
  /\ \A u \in DOMAIN Utterances : Strip(Utterances[u]) # <<>>
  /\ \A s \in Scripts : s \in Seq(Text) /\ Len(s) = Len(Utterances)
  /\ MaxMessages \in Nat /\ MaxSessions \in Nat

VARIABLES
  script,      \* the list scripted_tutor walks
  cursor,      \* MockSTT._cursor
  index,       \* state["i"] of scripted_tutor
  phase,       \* of the turn: "listening", "created", "asked", "written"
  reply,       \* what the model was asked to write in this turn
  toWrite,     \* the deltas MockLLM has still to yield
  buffer,      \* the chunker's _buffer
  clauses,     \* released clauses the TTS has not taken
  parts,       \* reply_parts: the clauses spoken
  messages,    \* the session's _messages
  learner,     \* the LearnerProfile
  sessions,    \* sessions opened so far
  cutUnasked,  \* a turn of some session was cancelled before it asked the model
  unsaved      \* the history of some session was not saved

turnVars    == <<reply, toWrite, buffer, clauses, parts>>
scriptVars  == <<script, cursor, index>>
historyVars == <<sessions, cutUnasked, unsaved>>
vars == <<turnVars, scriptVars, historyVars, phase, messages, learner>>

-----------------------------------------------------------------------------
(* The vocabulary ceiling (pedagogy/ceiling.py). *)

(* _normalize_whitespace_word: lower case, Latin punctuation deleted. *)
Normalized(t) == Lowered(Without(t, LatinTerminators))

(* str.split: the maximal runs without a space. *)
Split(t) ==
  LET starts  == {i \in NonSpaces(t) : i = 1 \/ t[i - 1] = Space}
      word(i) == SubSeq(t, i, Max({j \in i..Len(t) : i..j \subseteq NonSpaces(t)}))
  IN  FlattenSeq([i \in DOMAIN t |-> IF i \in starts THEN <<word(i)>> ELSE <<>>])

Tokenize(t) == Split(Normalized(t))

(* check_ceiling: an empty ceiling is not enforced. *)
Violations(t) ==
  IF Ceiling = {} THEN <<>>
  ELSE Without(Tokenize(t), {Normalized(c) : c \in Ceiling})

-----------------------------------------------------------------------------
(* The scripted providers. *)

(* MockSTT, loop=True. *)
UtteranceAt(i) == Utterances[(i % Len(Utterances)) + 1]

(* Mutant: the default, loop=False, repeats the last line for ever. *)
ReplyAtStuck(i) == script[IF i < Len(script) THEN i + 1 ELSE Len(script)]

(* scripted_tutor, loop=True. *)
ReplyAt(i) == script[(i % Len(script)) + 1]

(* MockLLM yields a text with spaces word by word, each with the space     *)
(* after it, and any other text character by character.                    *)
Deltas(t) ==
  LET spaces   == DOMAIN t \ NonSpaces(t)
      ends     == IF spaces = {} THEN DOMAIN t ELSE spaces \cup {Len(t)}
      piece(i) == SubSeq(t, Max({0} \cup {j \in ends : j < i}) + 1, i)
  IN  FlattenSeq([i \in DOMAIN t |-> IF i \in ends THEN <<piece(i)>> ELSE <<>>])

-----------------------------------------------------------------------------
(* The learner profile. *)

NewLearner == [scenarios |-> <<>>, errors |-> <<>>, messages |-> <<>>,
               turnsCompleted |-> 0]

WithScenario(profile, s) ==
  IF profile.scenarios = <<>> \/ Last(profile.scenarios) # s
  THEN [profile EXCEPT !.scenarios = Append(@, s)] ELSE profile

Entry(turn, word) == [turn |-> turn, detail |-> word]

(* The factory's _on_turn_complete. *)
Taught(profile, text) ==
  LET found == Violations(text) IN
    [profile EXCEPT
       !.errors = @ \o [k \in DOMAIN found |-> Entry(profile.turnsCompleted, found[k])],
       !.turnsCompleted = @ + 1]

-----------------------------------------------------------------------------
(* A session. *)

User(text)                == [role |-> "user", text |-> text, written |-> <<>>]
Assistant(text, written)  == [role |-> "assistant", text |-> text, written |-> written]

(* What a turn keeps lives in its coroutines and goes with them. *)
TurnGone ==
  /\ reply' = <<>> /\ toWrite' = <<>>
  /\ buffer' = <<>> /\ clauses' = <<>> /\ parts' = <<>>

Init ==
  /\ phase = "listening"
  /\ reply = <<>> /\ toWrite = <<>> /\ buffer = <<>> /\ clauses = <<>> /\ parts = <<>>
  /\ script \in Scripts /\ cursor = 0 /\ index = 0
  /\ messages = <<>>
  /\ \E s \in ScenarioIds : learner = WithScenario(NewLearner, s)
  /\ sessions = 1 /\ cutUnasked = FALSE /\ unsaved = FALSE

(* on_speech_end while listening: MockSTT answers with the next line of    *)
(* its script, whatever was said.                                          *)
Hear ==
  /\ phase = "listening" /\ Len(messages) < MaxMessages
  /\ cursor' = cursor + 1
  /\ messages' = Append(messages, User(UtteranceAt(cursor)))
  /\ phase' = "created"
  /\ UNCHANGED <<script, index, turnVars, learner, historyVars>>

(* The turn task runs and MockLLM calls its responder. *)
Ask ==
  /\ phase = "created"
  /\ phase' = "asked"
  /\ index' = index + 1
  /\ reply' = ReplyAt(index)
  /\ toWrite' = Deltas(ReplyAt(index))
  /\ buffer' = <<>> /\ clauses' = <<>> /\ parts' = <<>>
  /\ UNCHANGED <<script, cursor, messages, learner, historyVars>>

Write ==
  /\ phase = "asked" /\ toWrite # <<>>
  /\ LET fed == Feed(buffer, Head(toWrite)) IN
       /\ clauses' = clauses \o fed.clauses
       /\ buffer' = fed.buffer
  /\ toWrite' = Tail(toWrite)
  /\ UNCHANGED <<scriptVars, phase, reply, parts, messages, learner, historyVars>>

FinishWriting ==
  /\ phase = "asked" /\ toWrite = <<>>
  /\ phase' = "written"
  /\ clauses' = clauses \o Flush(buffer)
  /\ buffer' = <<>>
  /\ UNCHANGED <<scriptVars, reply, toWrite, parts, messages, learner, historyVars>>

(* MockTTS: one chunk per clause, none for an empty one. *)
Speak ==
  /\ phase \in {"asked", "written"} /\ clauses # <<>>
  /\ parts' = IF Head(clauses) = <<>> THEN parts ELSE Append(parts, Head(clauses))
  /\ clauses' = Tail(clauses)
  /\ UNCHANGED <<scriptVars, phase, reply, toWrite, buffer, messages, learner,
                 historyVars>>

Complete ==
  /\ phase = "written" /\ clauses = <<>>
  /\ phase' = "listening"
  /\ messages' = Append(messages, Assistant(JoinClauses(parts), reply))
  /\ learner' = Taught(learner, JoinClauses(parts))
  /\ TurnGone
  /\ UNCHANGED <<scriptVars, historyVars>>

(* Mutant: the part of the reply that was spoken is checked and counted. *)
BargeInCounted ==
  /\ phase \in {"created", "asked", "written"}
  /\ phase' = "listening"
  /\ cutUnasked' = (cutUnasked \/ phase = "created")
  /\ learner' = Taught(learner, JoinClauses(parts))
  /\ TurnGone
  /\ UNCHANGED <<scriptVars, messages, sessions, unsaved>>

BargeIn ==
  /\ phase \in {"created", "asked", "written"}
  /\ phase' = "listening"
  /\ cutUnasked' = (cutUnasked \/ phase = "created")
  /\ TurnGone
  /\ UNCHANGED <<scriptVars, messages, learner, sessions, unsaved>>

(* What learner.py leaves to the owner of the session: to write the        *)
(* history into the profile from which build_pedagogy_orchestrator         *)
(* restores it.  No owner in the repository does.                          *)
SaveHistory == learner' = [learner EXCEPT !.messages = messages]

(* The connection ends, in any phase, and close() ends the turn there is.  *)
(* The history is saved or is lost.                                        *)
EndSession ==
  /\ phase # "ended"
  /\ phase' = "ended"
  /\ cutUnasked' = (cutUnasked \/ phase = "created")
  /\ \/ SaveHistory /\ UNCHANGED unsaved
     \/ unsaved' = TRUE /\ UNCHANGED learner
  /\ TurnGone
  /\ UNCHANGED <<scriptVars, messages, sessions>>

(* build_pedagogy_orchestrator for a learner the store knows, with fresh   *)
(* providers.                                                              *)
OpenSession ==
  /\ phase = "ended" /\ sessions < MaxSessions
  /\ sessions' = sessions + 1
  /\ \E s \in ScenarioIds : learner' = WithScenario(learner, s)
  /\ messages' = IF learner.messages # <<>> THEN learner.messages ELSE <<>>
  /\ cursor' = 0 /\ index' = 0
  /\ phase' = "listening"
  /\ UNCHANGED <<script, turnVars, cutUnasked, unsaved>>

Next ==
  \/ Hear \/ Ask \/ Write \/ FinishWriting \/ Speak \/ Complete
  \/ BargeIn \/ EndSession \/ OpenSession

Spec == Init /\ [][Next]_vars

-----------------------------------------------------------------------------
(* build_session_report, without the wording. *)

Of(msgs, r) ==
  FlattenSeq([i \in DOMAIN msgs |-> IF msgs[i].role = r THEN <<msgs[i]>> ELSE <<>>])

TokensOf(msgs)     == FlattenSeq([i \in DOMAIN msgs |-> Tokenize(msgs[i].text)])
ViolationsOf(msgs) == FlattenSeq([i \in DOMAIN msgs |-> Violations(msgs[i].text)])

Mentions(text, word) ==
  \E i \in 0..(Len(text) - Len(word)) : SubSeq(text, i + 1, i + Len(word)) = word

Report(msgs) ==
  LET said      == Of(msgs, "user")
      replies   == Of(msgs, "assistant")
      violated  == Len(ViolationsOf(replies))
      tokens    == Len(TokensOf(replies))
      used      == {w \in ToSet(TargetVocabulary) :
                      \E i \in DOMAIN said : Mentions(said[i].text, w)}
      missed    == Without(TargetVocabulary, used)
  IN  [turns            |-> Len(said),
       learnerWordCount |-> Len(TokensOf(said)),
       agentWordCount   |-> tokens,
       violations       |-> violated,
       missed           |-> missed,
       nextSteps        |-> IF 20 * violated > tokens THEN "review"
                            ELSE IF missed # <<>> THEN "practise" ELSE "advance"]

-----------------------------------------------------------------------------
(* Properties. *)

(* The two ways errors are counted agree: the hook that sees each reply    *)
(* as it completes, over all sessions, and the report that reads them back *)
(* from the history.  A turn that was cut short is in neither.  While no   *)
(* session's history was lost they are equal, error by error; and every    *)
(* entry names the completed reply it was found in, whatever turns were    *)
(* interrupted in between and however many sessions lie behind.            *)
Replies == Of(messages, "assistant")

LogIsOfReplies ==
  /\ \A e \in DOMAIN learner.errors :
       /\ learner.errors[e].turn < learner.turnsCompleted
       /\ e > 1 => learner.errors[e - 1].turn <= learner.errors[e].turn
  /\ ~unsaved =>
       /\ learner.turnsCompleted = Len(Replies)
       /\ Len(learner.errors) = Report(messages).violations
       /\ \A e \in DOMAIN learner.errors :
            learner.errors[e].detail
              \in ToSet(Violations(Replies[learner.errors[e].turn + 1].text))
  /\ Len(learner.errors) >= Report(messages).violations
  /\ Report(messages).turns >= Len(Replies)

(* The history holds what the model wrote: its characters and its words.   *)
(* The chunker strips, cuts and drops, and join_clauses puts together      *)
(* again; whatever the deltas, no character but spaces is lost, doubled or *)
(* moved.                                                                  *)
NonSpaceText(t) == Without(t, {Space})

CharactersKept ==
  \A i \in DOMAIN Replies : NonSpaceText(Replies[i].text) = NonSpaceText(Replies[i].written)

(* For Latin text the words, which the ceiling is checked on and the model *)
(* reads back, are the same too, a sentence that was glued to the next     *)
(* counted as two, unless a word is as long as the chunker's limit.        *)
WordsKept ==
  \A i \in DOMAIN Replies :
    LET m == Replies[i] IN
      (/\ ToSet(m.written) \cap Cjk = {}
       /\ \A w \in ToSet(Split(m.written)) : Len(w) < MaxChars)
      => Tokenize(m.text) = Tokenize(Unglued(m.written))

(* Both: a reply of the history is what was written for it. *)
ReplyIsWhatWasWritten == CharactersKept /\ WordsKept

(* main.py 110-116: the two scripts are walked in lockstep.  Every reply   *)
(* in the history follows the utterance it answers and is the line the     *)
(* script pairs with it, through interruptions, restored histories and the *)
(* wrap of both scripts.  The exception is stated, not left out: a turn    *)
(* cancelled before its task asks the model has moved one script only.     *)
ScriptsInStep ==
  ~cutUnasked =>
    \A i \in DOMAIN messages :
      messages[i].role = "assistant" =>
        /\ i > 1 /\ messages[i - 1].role = "user"
        /\ \E k \in DOMAIN Utterances :
             /\ messages[i - 1].text = Utterances[k]
             /\ messages[i].written = script[k]

=============================================================================
