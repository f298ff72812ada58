---------------------------- MODULE LessonProofs ----------------------------
(***************************************************************************)
(* Three proofs about lessons of any scripts, ceiling, chunker limits,     *)
(* number of turns and number of sessions, whatever is interrupted:        *)
(*   1. the two scripts of the demo stay paired;                           *)
(*   2. a reply in the history has the characters the model wrote and, in  *)
(*      Latin text, its words;                                             *)
(*   3. the log of errors is that of the replies.                          *)
(* The second rests on what the chunker, the deltas and join_clauses do to *)
(* the characters (section 2) and to the words (section 3) of any text,    *)
(* the third on the second's types and on the first's.                     *)
(***************************************************************************)
EXTENDS Lesson, DataLemmas, TLAPS

-----------------------------------------------------------------------------
(* 1. The scripts: the inductive invariant. *)

InTurn == phase \in {"created", "asked", "written"}

(* A history: a sequence of messages, of whatever text. *)
IsHistory(msgs) ==
  /\ \E S : msgs \in Seq(S)
  /\ \A i \in DOMAIN msgs : msgs[i].role \in {"user", "assistant"}

(* ScriptsInStep, of any history. *)
Paired(msgs) ==
  \A i \in DOMAIN msgs :
    msgs[i].role = "assistant" =>
      /\ i > 1 /\ msgs[i - 1].role = "user"
      /\ \E k \in DOMAIN Utterances :
           /\ msgs[i - 1].text = Utterances[k]
           /\ msgs[i].written = script[k]

(* A profile: a record with the four fields. *)
IsProfile(p) == \E s, e, h, n :
  p = [scenarios |-> s, errors |-> e, messages |-> h, turnsCompleted |-> n]

Types ==
  /\ phase \in {"listening", "created", "asked", "written", "ended"}
  /\ script \in Scripts /\ cursor \in Nat /\ index \in Nat
  /\ cutUnasked \in BOOLEAN
  /\ IsProfile(learner)
  /\ IsHistory(messages) /\ IsHistory(learner.messages)

(* A turn answers the utterance the history ends with. *)
Asked == InTurn =>
  /\ cursor > 0 /\ messages # <<>>
  /\ messages[Len(messages)].role = "user"
  /\ messages[Len(messages)].text = UtteranceAt(cursor - 1)

(* The model is one line behind between the utterance and the question,    *)
(* and nowhere else.                                                       *)
Lockstep == ~cutUnasked =>
  /\ cursor = IF phase = "created" THEN index + 1 ELSE index
  /\ phase \in {"asked", "written"} => reply = ReplyAt(index - 1)

(* Saved histories are paired too: they come back. *)
Histories == ~cutUnasked => Paired(messages) /\ Paired(learner.messages)

Inv == Types /\ Asked /\ Lockstep /\ Histories

-----------------------------------------------------------------------------
(* Histories. *)

LEMMA EmptyHistory == IsHistory(<<>>) /\ Paired(<<>>)
BY DEF IsHistory, Paired

(* What a message appended leaves and adds.                                *)
Grown(msgs, m) ==
  /\ \A i \in DOMAIN msgs : Append(msgs, m)[i] = msgs[i]
  /\ Append(msgs, m)[Len(msgs) + 1] = m
  /\ DOMAIN Append(msgs, m) = DOMAIN msgs \cup {Len(msgs) + 1}
  /\ DOMAIN msgs = 1..Len(msgs) /\ Len(msgs) \in Nat

LEMMA GrownHistory ==
  ASSUME NEW msgs, IsHistory(msgs), NEW m
  PROVE  Grown(msgs, m)
<1>1. PICK S : msgs \in Seq(S)
  BY DEF IsHistory
<1>2. msgs \in Seq(S \cup {m})
  BY <1>1
<1>3. QED
  BY <1>2 DEF Grown

LEMMA LongerHistory ==
  ASSUME NEW msgs, IsHistory(msgs), NEW m, m.role \in {"user", "assistant"}
  PROVE  /\ IsHistory(Append(msgs, m))
         /\ Len(Append(msgs, m)) = Len(msgs) + 1 /\ Append(msgs, m) # <<>>
         /\ Append(msgs, m)[Len(msgs) + 1] = m
         /\ \A i \in DOMAIN msgs : Append(msgs, m)[i] = msgs[i]
         /\ DOMAIN Append(msgs, m) = DOMAIN msgs \cup {Len(msgs) + 1}
         /\ DOMAIN msgs = 1..Len(msgs) /\ Len(msgs) \in Nat
<1>1. PICK S : msgs \in Seq(S)
  BY DEF IsHistory
<1>2. msgs \in Seq(S \cup {m})
  BY <1>1
<1>3. Append(msgs, m) \in Seq(S \cup {m})
  BY <1>2
<1>4. /\ Len(Append(msgs, m)) = Len(msgs) + 1 /\ Append(msgs, m) # <<>>
      /\ Append(msgs, m)[Len(msgs) + 1] = m
      /\ \A i \in DOMAIN msgs : Append(msgs, m)[i] = msgs[i]
      /\ DOMAIN Append(msgs, m) = DOMAIN msgs \cup {Len(msgs) + 1}
      /\ DOMAIN msgs = 1..Len(msgs) /\ Len(msgs) \in Nat
  BY <1>2
<1>5. IsHistory(Append(msgs, m))
  BY <1>3, <1>4 DEF IsHistory
<1>6. QED
  BY <1>4, <1>5

LEMMA UtterancePairs ==
  ASSUME NEW msgs, IsHistory(msgs), Paired(msgs), NEW text
  PROVE  Paired(Append(msgs, User(text)))
<1> DEFINE m == User(text)
<1>1. m.role = "user"
  BY DEF User
<1>2. /\ \A i \in DOMAIN msgs : Append(msgs, m)[i] = msgs[i]
      /\ Append(msgs, m)[Len(msgs) + 1] = m
      /\ DOMAIN Append(msgs, m) = DOMAIN msgs \cup {Len(msgs) + 1}
      /\ DOMAIN msgs = 1..Len(msgs) /\ Len(msgs) \in Nat
  <2>1. Grown(msgs, m)
    BY GrownHistory
  <2>2. QED
    BY <2>1 DEF Grown
<1> HIDE DEF m
<1>3. Paired(Append(msgs, m))
  <2> SUFFICES ASSUME NEW i \in DOMAIN Append(msgs, m), Append(msgs, m)[i].role = "assistant"
               PROVE  /\ i > 1 /\ Append(msgs, m)[i - 1].role = "user"
                      /\ \E k \in DOMAIN Utterances :
                           /\ Append(msgs, m)[i - 1].text = Utterances[k]
                           /\ Append(msgs, m)[i].written = script[k]
    BY DEF Paired
  <2>1. i \in DOMAIN msgs
    BY <1>1, <1>2
  <2>2. i > 1 => i - 1 \in DOMAIN msgs
    BY <1>2, <2>1
  <2>3. QED
    BY <1>2, <2>1, <2>2 DEF Paired
<1>4. QED
  BY <1>3 DEF m

(* A line of the one script and the line of the other with its number. *)
LEMMA ReplyPairs ==
  ASSUME NEW msgs, IsHistory(msgs), Paired(msgs), NEW text, NEW n \in Nat,
         script \in Scripts, msgs # <<>>,
         msgs[Len(msgs)].role = "user", msgs[Len(msgs)].text = UtteranceAt(n)
  PROVE  Paired(Append(msgs, Assistant(text, ReplyAt(n))))
<1> DEFINE m == Assistant(text, ReplyAt(n))
           k == (n % Len(Utterances)) + 1
<1>1. m.role = "assistant" /\ m.written = ReplyAt(n)
  BY DEF Assistant
<1>2. /\ \A i \in DOMAIN msgs : Append(msgs, m)[i] = msgs[i]
      /\ Append(msgs, m)[Len(msgs) + 1] = m
      /\ DOMAIN Append(msgs, m) = DOMAIN msgs \cup {Len(msgs) + 1}
      /\ DOMAIN msgs = 1..Len(msgs) /\ Len(msgs) \in Nat
  <2>1. Grown(msgs, m)
    BY GrownHistory
  <2>2. QED
    BY <2>1 DEF Grown
<1>3. Len(msgs) > 0
  <2>1. PICK S : msgs \in Seq(S)
    BY DEF IsHistory
  <2>2. QED
    BY <2>1
<1>4. k \in DOMAIN Utterances /\ UtteranceAt(n) = Utterances[k] /\ ReplyAt(n) = script[k]
  <2>1. Len(Utterances) \in Nat \ {0} /\ DOMAIN Utterances = 1..Len(Utterances)
    BY LessonAssumption DEF LessonAssumption
  <2>2. n % Len(Utterances) \in 0..(Len(Utterances) - 1)
    BY <2>1
  <2>3. Len(script) = Len(Utterances)
    BY LessonAssumption DEF LessonAssumption
  <2>4. QED
    BY <2>1, <2>2, <2>3 DEF UtteranceAt, ReplyAt
<1> HIDE DEF m, k
<1>5. Paired(Append(msgs, m))
  <2> SUFFICES ASSUME NEW i \in DOMAIN Append(msgs, m), Append(msgs, m)[i].role = "assistant"
               PROVE  /\ i > 1 /\ Append(msgs, m)[i - 1].role = "user"
                      /\ \E j \in DOMAIN Utterances :
                           /\ Append(msgs, m)[i - 1].text = Utterances[j]
                           /\ Append(msgs, m)[i].written = script[j]
    BY DEF Paired
  <2>1. CASE i \in DOMAIN msgs
    <3>1. i > 1 => i - 1 \in DOMAIN msgs
      BY <1>2, <2>1
    <3>2. QED
      BY <1>2, <2>1, <3>1 DEF Paired
  <2>2. CASE i = Len(msgs) + 1
    <3>1. Append(msgs, m)[i] = m
      BY <1>2, <2>2
    <3>2. i - 1 = Len(msgs) /\ i > 1 /\ i - 1 \in DOMAIN msgs
      BY <1>2, <1>3, <2>2
    <3>3. Append(msgs, m)[i - 1] = msgs[Len(msgs)]
      BY <1>2, <3>2
    <3>4. QED
      BY <1>1, <1>4, <3>1, <3>2, <3>3
  <2>3. QED
    BY <1>2, <2>1, <2>2
<1>6. QED
  BY <1>5 DEF m

-----------------------------------------------------------------------------
(* The learner's profile keeps its saved history. *)

(* A change of one field. *)
LEMMA ProfileChanged ==
  ASSUME NEW p, IsProfile(p), NEW c
  PROVE  /\ IsProfile([p EXCEPT !.scenarios = c])
         /\ [p EXCEPT !.scenarios = c].messages = p.messages
         /\ IsProfile([p EXCEPT !.errors = c])
         /\ [p EXCEPT !.errors = c].messages = p.messages
         /\ IsProfile([p EXCEPT !.turnsCompleted = c])
         /\ [p EXCEPT !.turnsCompleted = c].messages = p.messages
         /\ IsProfile([p EXCEPT !.messages = c])
         /\ [p EXCEPT !.messages = c].messages = c
<1>1. PICK a, e, h, n :
        p = [scenarios |-> a, errors |-> e, messages |-> h, turnsCompleted |-> n]
  BY DEF IsProfile
<1>2. [p EXCEPT !.scenarios = c]
        = [scenarios |-> c, errors |-> e, messages |-> h, turnsCompleted |-> n]
  BY <1>1
<1>3. [p EXCEPT !.errors = c]
        = [scenarios |-> a, errors |-> c, messages |-> h, turnsCompleted |-> n]
  BY <1>1
<1>4. [p EXCEPT !.turnsCompleted = c]
        = [scenarios |-> a, errors |-> e, messages |-> h, turnsCompleted |-> c]
  BY <1>1
<1>5. [p EXCEPT !.messages = c]
        = [scenarios |-> a, errors |-> e, messages |-> c, turnsCompleted |-> n]
  BY <1>1
<1>6. \A x, y, z, w :
        LET r == [scenarios |-> x, errors |-> y, messages |-> z, turnsCompleted |-> w]
        IN  IsProfile(r) /\ r.messages = z
  BY DEF IsProfile
<1>7. QED
  BY <1>1, <1>2, <1>3, <1>4, <1>5, <1>6

LEMMA ProfileKept ==
  ASSUME NEW p, IsProfile(p), NEW s, NEW text
  PROVE  /\ IsProfile(WithScenario(p, s)) /\ WithScenario(p, s).messages = p.messages
         /\ IsProfile(Taught(p, text)) /\ Taught(p, text).messages = p.messages
<1>1. IsProfile(WithScenario(p, s)) /\ WithScenario(p, s).messages = p.messages
  BY ProfileChanged DEF WithScenario
<1>2. IsProfile(Taught(p, text)) /\ Taught(p, text).messages = p.messages
  <2> DEFINE found  == Violations(text)
             errors == p.errors \o
                         [k \in DOMAIN found |-> Entry(p.turnsCompleted, found[k])]
             r      == [p EXCEPT !.errors = errors]
  <2>1. Taught(p, text) = [r EXCEPT !.turnsCompleted = p.turnsCompleted + 1]
    BY DEF Taught
  <2> HIDE DEF errors
  <2>2. IsProfile(r) /\ r.messages = p.messages
    BY ProfileChanged
  <2> DEFINE n == p.turnsCompleted + 1
  <2> HIDE DEF r, n
  <2>3. /\ IsProfile([r EXCEPT !.turnsCompleted = n])
        /\ [r EXCEPT !.turnsCompleted = n].messages = r.messages
    BY <2>2, ProfileChanged
  <2>4. QED
    BY <2>1, <2>2, <2>3 DEF n
<1>3. QED
  BY <1>1, <1>2

-----------------------------------------------------------------------------
(* Every step preserves the invariant. *)

LEMMA InvInit == Init => Inv
<1> SUFFICES ASSUME Init PROVE Inv
  OBVIOUS
<1>1. learner.messages = <<>> /\ IsProfile(learner)
  <2>1. IsProfile(NewLearner) /\ NewLearner.messages = <<>>
    BY DEF IsProfile, NewLearner
  <2>2. QED
    BY <2>1, ProfileKept DEF Init
<1>2. Types
  BY <1>1, EmptyHistory DEF Init, Types
<1>3. Asked /\ Lockstep
  BY DEF Init, Asked, InTurn, Lockstep
<1>4. Histories
  BY <1>1, EmptyHistory DEF Init, Histories
<1>5. QED
  BY <1>2, <1>3, <1>4 DEF Inv

LEMMA HearKeeps == ASSUME Inv, Hear PROVE Inv'
<1> USE DEF Inv
<1> DEFINE m == User(UtteranceAt(cursor))
<1>1. m.role = "user" /\ m.text = UtteranceAt(cursor)
  BY DEF User
<1>2. messages' = Append(messages, m) /\ cursor' = cursor + 1 /\ phase' = "created"
  BY DEF Hear
<1>3. Types'
  BY <1>1, <1>2, LongerHistory DEF Hear, Types, scriptVars, turnVars, historyVars
<1>4. Asked'
  <2>1. messages' # <<>> /\ messages'[Len(messages')] = m
    BY <1>1, <1>2, LongerHistory DEF Types
  <2>2. cursor' > 0 /\ cursor' - 1 = cursor
    BY <1>2 DEF Types
  <2>3. QED
    BY <1>1, <2>1, <2>2 DEF Asked, UtteranceAt
<1>5. Lockstep'
  BY <1>2 DEF Hear, Types, Lockstep, historyVars
<1>6. Histories'
  <2>1. Paired(messages) => Paired(Append(messages, m))
    BY UtterancePairs DEF Types
  <2>2. QED
    BY <1>2, <2>1 DEF Hear, Histories, Paired, historyVars
<1>7. QED
  BY <1>3, <1>4, <1>5, <1>6

LEMMA AskKeeps == ASSUME Inv, Ask PROVE Inv'
<1> USE DEF Inv
<1>1. Types'
  BY DEF Ask, Types, historyVars
<1>2. Asked'
  BY DEF Ask, Asked, InTurn, UtteranceAt
<1>3. Lockstep'
  BY DEF Ask, Types, Lockstep, ReplyAt, historyVars
<1>4. Histories'
  BY DEF Ask, Histories, Paired, historyVars
<1>5. QED
  BY <1>1, <1>2, <1>3, <1>4

(* Writing and speaking move only the text of the turn. *)
LEMMA TextKeeps ==
  ASSUME Inv, Write \/ FinishWriting \/ Speak \/ UNCHANGED vars
  PROVE  Inv'
<1> USE DEF Inv
<1>1. /\ UNCHANGED <<script, cursor, index, reply, messages, learner, cutUnasked>>
      /\ phase' = phase \/ (phase = "asked" /\ phase' = "written")
  BY DEF Write, FinishWriting, Speak, vars, turnVars, scriptVars, historyVars
<1>2. Types'
  BY <1>1 DEF Types
<1>3. Asked' /\ Lockstep'
  BY <1>1 DEF Asked, InTurn, UtteranceAt, Lockstep, ReplyAt
<1>4. Histories'
  BY <1>1 DEF Histories, Paired
<1>5. QED
  BY <1>2, <1>3, <1>4

LEMMA CompleteKeeps == ASSUME Inv, Complete PROVE Inv'
<1> USE DEF Inv
<1> DEFINE text == JoinClauses(parts)
           m    == Assistant(text, reply)
<1>1. m.role = "assistant"
  BY DEF Assistant
<1>2. messages' = Append(messages, m) /\ learner' = Taught(learner, text)
  BY DEF Complete
<1>3. /\ phase = "written" /\ phase' = "listening"
      /\ UNCHANGED <<script, cursor, index, cutUnasked>>
  BY DEF Complete, scriptVars, historyVars
<1> HIDE DEF text, m
<1>4. /\ learner'.messages = learner.messages
      /\ IsProfile(learner')
  BY <1>2, ProfileKept DEF Types
<1>5. Types'
  BY <1>1, <1>2, <1>3, <1>4, LongerHistory DEF Types
<1>6. Asked' /\ Lockstep'
  BY <1>3 DEF Asked, InTurn, Lockstep
<1>7. Histories'
  <2> SUFFICES ASSUME ~cutUnasked PROVE Paired(messages') /\ Paired(learner.messages)
    BY <1>3, <1>4 DEF Histories, Paired
  <2>1. cursor = index /\ reply = ReplyAt(cursor - 1) /\ cursor - 1 \in Nat
    BY <1>3 DEF Lockstep, Asked, InTurn, Types
  <2>2. m = Assistant(text, ReplyAt(cursor - 1))
    BY <2>1 DEF m
  <2>3. Paired(Append(messages, m))
    BY <1>3, <2>1, <2>2, ReplyPairs DEF Histories, Types, Asked, InTurn
  <2>4. QED
    BY <1>2, <2>3 DEF Histories
<1>8. QED
  BY <1>5, <1>6, <1>7

LEMMA BargeInKeeps == ASSUME Inv, BargeIn PROVE Inv'
<1> USE DEF Inv, scriptVars
<1>1. Types'
  BY DEF BargeIn, Types
<1>2. Asked' /\ Lockstep'
  BY DEF BargeIn, Asked, InTurn, Lockstep, Types
<1>3. Histories'
  BY DEF BargeIn, Histories, Paired
<1>4. QED
  BY <1>1, <1>2, <1>3

LEMMA EndSessionKeeps == ASSUME Inv, EndSession PROVE Inv'
<1> USE DEF Inv, scriptVars
<1>1. /\ learner'.messages \in {learner.messages, messages}
      /\ IsProfile(learner')
  <2>1. IsProfile(learner)
    BY DEF Types
  <2>2. /\ IsProfile([learner EXCEPT !.messages = messages])
        /\ [learner EXCEPT !.messages = messages].messages = messages
    BY <2>1, ProfileChanged
  <2>3. learner' \in {learner, [learner EXCEPT !.messages = messages]}
    BY DEF EndSession, SaveHistory
  <2>4. QED
    BY <2>1, <2>2, <2>3
<1>2. Types'
  BY <1>1 DEF EndSession, SaveHistory, Types
<1>3. Asked' /\ Lockstep'
  BY DEF EndSession, SaveHistory, Asked, InTurn, Lockstep, Types
<1>4. cutUnasked => cutUnasked'
  BY DEF EndSession, SaveHistory, Types
<1>5. UNCHANGED <<script, messages>>
  BY DEF EndSession, SaveHistory
<1>6. Histories'
  BY <1>1, <1>4, <1>5 DEF Histories, Paired
<1>7. QED
  BY <1>2, <1>3, <1>6

LEMMA OpenSessionKeeps == ASSUME Inv, OpenSession PROVE Inv'
<1> USE DEF Inv
<1>1. PICK s \in ScenarioIds : learner' = WithScenario(learner, s)
  BY DEF OpenSession
<1>2. /\ learner'.messages = learner.messages
      /\ IsProfile(learner')
  BY <1>1, ProfileKept DEF Types
<1>3. messages' \in {learner.messages, <<>>}
  BY DEF OpenSession
<1>4. Types'
  BY <1>2, <1>3, EmptyHistory DEF OpenSession, Types
<1>5. Asked' /\ Lockstep'
  BY DEF OpenSession, Asked, InTurn, Lockstep
<1>6. Histories'
  BY <1>2, <1>3, EmptyHistory DEF OpenSession, Histories, Paired
<1>7. QED
  BY <1>4, <1>5, <1>6

LEMMA InvNext == Inv /\ [Next]_vars => Inv'
BY HearKeeps, AskKeeps, TextKeeps, CompleteKeeps, BargeInKeeps, EndSessionKeeps,
   OpenSessionKeeps DEF Next

(* The scripts of the demo's STT and tutor are walked in lockstep          *)
(* (main.py 110-116): each reply of the history follows the utterance its  *)
(* line is paired with, unless a turn was cancelled before it asked.       *)
THEOREM ScriptsStayInStep == Spec => []ScriptsInStep
<1>1. Inv => ScriptsInStep
  BY DEF Inv, Histories, Paired, ScriptsInStep
<1>2. QED
  BY InvInit, InvNext, <1>1, PTL DEF Spec

-----------------------------------------------------------------------------
(* 2. The characters of a reply.                                           *)
(* What is left of a sequence without some elements: first, of one.        *)

Left(e, E) == IF e \in E THEN <<>> ELSE <<e>>

Shed(s, E) == [i \in DOMAIN s |-> Left(s[i], E)]

LEMMA LeftType == ASSUME NEW S, NEW e \in S, NEW E PROVE Left(e, E) \in Seq(S \ E)
<1>1. CASE e \in E
  BY <1>1 DEF Left
<1>2. CASE e \notin E
  <2>1. e \in S \ E
    BY <1>2
  <2>2. <<e>> \in Seq(S \ E)
    BY <2>1
  <2>3. QED
    BY <1>2, <2>2 DEF Left
<1>3. QED
  BY <1>1, <1>2

LEMMA ShedType ==
  ASSUME NEW S, NEW s \in Seq(S), NEW E
  PROVE  Shed(s, E) \in Seq(Seq(S \ E)) /\ Len(Shed(s, E)) = Len(s)
<1>1. DOMAIN s = 1..Len(s) /\ Len(s) \in Nat /\ \A i \in 1..Len(s) : s[i] \in S
  OBVIOUS
<1>2. \A i \in 1..Len(s) : Left(s[i], E) \in Seq(S \ E)
  BY <1>1, LeftType
<1>3. /\ Shed(s, E) = [i \in 1..Len(s) |-> Shed(s, E)[i]]
      /\ \A i \in 1..Len(s) : Shed(s, E)[i] \in Seq(S \ E)
  BY <1>1, <1>2 DEF Shed
<1>4. QED
  BY <1>1, <1>3, FunctionIsSeq

LEMMA WithoutType ==
  ASSUME NEW S, NEW s \in Seq(S), NEW E
  PROVE  Without(s, E) \in Seq(S \ E)
<1>1. Without(s, E) = FlattenSeq(Shed(s, E))
  BY DEF Without, Shed, Left
<1>2. QED
  BY <1>1, ShedType, FlattenType

LEMMA WithoutEmpty == ASSUME NEW E PROVE Without(<<>>, E) = <<>>
<1>1. [i \in DOMAIN <<>> |-> IF <<>>[i] \in E THEN <<>> ELSE <<(<<>>)[i]>>] = <<>>
  OBVIOUS
<1>2. QED
  BY <1>1, FlattenEmpty DEF Without

(* One element more. *)
LEMMA WithoutAppend ==
  ASSUME NEW S, NEW s \in Seq(S), NEW e \in S, NEW E
  PROVE  Without(Append(s, e), E) = Without(s, E) \o Left(e, E)
<1> DEFINE f == Shed(s, E)
           g == Shed(Append(s, e), E)
           T == Seq(S \ E)
           d == Left(e, E)
<1>1. f \in Seq(T) /\ Len(f) = Len(s)
  BY ShedType
<1>2. g \in Seq(T) /\ Len(g) = Len(s) + 1
  <2>1. Append(s, e) \in Seq(S) /\ Len(Append(s, e)) = Len(s) + 1
    BY AppendProperties
  <2>2. QED
    BY <2>1, ShedType
<1>3. d \in T
  BY LeftType
<1>4. (\A k \in 1..Len(s) : g[k] = f[k]) /\ g[Len(s) + 1] = d
  <2>1. /\ DOMAIN Append(s, e) = 1..(Len(s) + 1) /\ DOMAIN s = 1..Len(s) /\ Len(s) \in Nat
        /\ \A k \in 1..Len(s) : Append(s, e)[k] = s[k]
        /\ Append(s, e)[Len(s) + 1] = e
    OBVIOUS
  <2>2. QED
    BY <2>1 DEF Shed
<1> HIDE DEF f, g, d
<1>5. g = Append(f, d)
  BY <1>1, <1>2, <1>3, <1>4, OneLonger
<1>6. FlattenSeq(g) = FlattenSeq(f) \o d
  BY <1>1, <1>3, <1>5, FlattenAppend
<1>7. QED
  BY <1>6 DEF f, g, d, Without, Shed, Left

LEMMA WithoutConcat ==
  ASSUME NEW S, NEW s \in Seq(S), NEW t \in Seq(S), NEW E
  PROVE  Without(s \o t, E) = Without(s, E) \o Without(t, E)
<1> DEFINE P == {u \in Seq(S) : Without(s \o u, E) = Without(s, E) \o Without(u, E)}
<1>1. <<>> \in P
  <2>1. Without(s, E) \o <<>> = Without(s, E)
    BY WithoutType, ConcatEmptySeq
  <2>2. s \o <<>> = s /\ <<>> \in Seq(S)
    OBVIOUS
  <2>3. QED
    BY <2>1, <2>2, WithoutEmpty
<1>2. ASSUME NEW u \in Seq(S), u \in P, NEW e \in S PROVE Append(u, e) \in P
  <2>1. s \o u \in Seq(S) /\ Append(u, e) \in Seq(S) /\ s \o Append(u, e) = Append(s \o u, e)
    BY ConcatProperties, AppendProperties, ConcatThenAppend
  <2>2. Without(Append(s \o u, e), E) = Without(s \o u, E) \o Left(e, E)
    BY <2>1, WithoutAppend
  <2>3. Without(Append(u, e), E) = Without(u, E) \o Left(e, E)
    BY WithoutAppend
  <2>4. Without(s \o u, E) = Without(s, E) \o Without(u, E)
    BY <1>2
  <2>5. (Without(s, E) \o Without(u, E)) \o Left(e, E)
          = Without(s, E) \o (Without(u, E) \o Left(e, E))
    <3> DEFINE T == S \ E
    <3>1. Without(s, E) \in Seq(T)
      BY WithoutType
    <3>2. Without(u, E) \in Seq(T)
      BY WithoutType
    <3>3. Left(e, E) \in Seq(T)
      BY LeftType
    <3> HIDE DEF T
    <3>4. Associative(T)
      BY ConcatIsAssociative
    <3>5. QED
      BY <3>1, <3>2, <3>3, <3>4, Zenon DEF Associative
  <2>6. QED
    BY <2>1, <2>2, <2>3, <2>4, <2>5
<1> HIDE DEF P
<1>3. \A u \in Seq(S) : u \in P
  BY <1>1, <1>2, SequencesByLength
<1> USE DEF P
<1>4. QED
  BY <1>3

(* Nothing is left of what is all in E. *)
LEMMA WithoutAll ==
  ASSUME NEW S, NEW E, NEW s \in Seq(S), \A i \in 1..Len(s) : s[i] \in E
  PROVE  Without(s, E) = <<>>
<1>1. Without(s, E) \in Seq(S \ E)
  BY WithoutType
<1> DEFINE P == {u \in Seq(S \cap E) : Without(u, E) = <<>>}
<1>2. <<>> \in P
  BY WithoutEmpty
<1>3. ASSUME NEW u \in Seq(S \cap E), u \in P, NEW e \in S \cap E PROVE Append(u, e) \in P
  <2>1. Without(Append(u, e), E) = Without(u, E) \o Left(e, E)
    BY WithoutAppend
  <2>2. Left(e, E) = <<>> /\ <<>> \o <<>> = <<>>
    BY DEF Left
  <2>3. QED
    BY <1>3, <2>1, <2>2, AppendProperties
<1> HIDE DEF P
<1>4. \A u \in Seq(S \cap E) : u \in P
  BY <1>2, <1>3, SequencesByLength
<1>5. s \in Seq(S \cap E)
  <2>1. s = [i \in 1..Len(s) |-> s[i]] /\ Len(s) \in Nat /\ \A i \in 1..Len(s) : s[i] \in S \cap E
    BY LenProperties
  <2>2. QED
    BY <2>1, FunctionIsSeq
<1> USE DEF P
<1>6. QED
  BY <1>4, <1>5

(* From within or from without. *)
LEMMA WithoutFlatten ==
  ASSUME NEW S, NEW s \in Seq(Seq(S)), NEW E
  PROVE  Without(FlattenSeq(s), E) = FlattenSeq([k \in DOMAIN s |-> Without(s[k], E)])
<1> DEFINE Inner(u) == [k \in DOMAIN u |-> Without(u[k], E)]
           P == {u \in Seq(Seq(S)) : Without(FlattenSeq(u), E) = FlattenSeq(Inner(u))}
<1>1. ASSUME NEW u \in Seq(Seq(S))
      PROVE  Inner(u) \in Seq(Seq(S \ E)) /\ Len(Inner(u)) = Len(u)
  <2>1. DOMAIN u = 1..Len(u) /\ Len(u) \in Nat
    OBVIOUS
  <2>2. \A k \in 1..Len(u) : Without(u[k], E) \in Seq(S \ E)
    <3> TAKE k \in 1..Len(u)
    <3>1. u[k] \in Seq(S)
      BY ElementOfSeq
    <3>2. QED
      BY <3>1, WithoutType
  <2>3. /\ Inner(u) = [k \in 1..Len(u) |-> Inner(u)[k]]
        /\ \A k \in 1..Len(u) : Inner(u)[k] \in Seq(S \ E)
    BY <2>1, <2>2
  <2> HIDE DEF Inner
  <2>4. QED
    BY <2>1, <2>3, FunctionIsSeq
<1>2. <<>> \in P
  <2>1. Inner(<<>>) = <<>> /\ <<>> \in Seq(Seq(S))
    OBVIOUS
  <2> HIDE DEF Inner
  <2>2. Without(FlattenSeq(<<>>), E) = FlattenSeq(Inner(<<>>))
    BY <2>1, FlattenEmpty, WithoutEmpty
  <2>3. QED
    BY <2>1, <2>2
<1>3. ASSUME NEW u \in Seq(Seq(S)), u \in P, NEW q \in Seq(S)
      PROVE  Append(u, q) \in P
  <2>1. FlattenSeq(Append(u, q)) = FlattenSeq(u) \o q
    BY FlattenAppend
  <2>2. FlattenSeq(u) \in Seq(S) /\ Without(q, E) \in Seq(S \ E)
    BY FlattenType, WithoutType
  <2>3. Without(FlattenSeq(u) \o q, E) = Without(FlattenSeq(u), E) \o Without(q, E)
    BY <2>2, WithoutConcat
  <2>4. Append(u, q) \in Seq(Seq(S))
    BY AppendProperties
  <2>5. Inner(Append(u, q)) = Append(Inner(u), Without(q, E))
    <3> DEFINE f == Inner(u)
               g == Inner(Append(u, q))
    <3>1. /\ DOMAIN Append(u, q) = 1..(Len(u) + 1) /\ DOMAIN u = 1..Len(u) /\ Len(u) \in Nat
          /\ \A k \in 1..Len(u) : Append(u, q)[k] = u[k]
          /\ Append(u, q)[Len(u) + 1] = q
          /\ Len(Append(u, q)) = Len(u) + 1
      OBVIOUS
    <3>2. /\ \A k \in 1..Len(u) : g[k] = f[k]
          /\ g[Len(u) + 1] = Without(q, E)
      BY <3>1
    <3> HIDE DEF Inner
    <3>3. f \in Seq(Seq(S \ E)) /\ Len(f) = Len(u)
      BY <1>1
    <3>4. g \in Seq(Seq(S \ E)) /\ Len(g) = Len(u) + 1
      BY <1>1, <2>4, <3>1
    <3> HIDE DEF f, g, P
    <3>5. Len(g) = Len(f) + 1 /\ (\A k \in 1..Len(f) : g[k] = f[k])
          /\ g[Len(f) + 1] = Without(q, E)
      BY <3>2, <3>3, <3>4
    <3>6. g = Append(f, Without(q, E))
      BY <2>2, <3>3, <3>4, <3>5, OneLonger
    <3>7. QED
      BY <3>6 DEF f, g
  <2> HIDE DEF Inner
  <2>6. FlattenSeq(Append(Inner(u), Without(q, E))) = FlattenSeq(Inner(u)) \o Without(q, E)
    <3>1. Inner(u) \in Seq(Seq(S \ E))
      BY <1>1
    <3>2. QED
      BY <2>2, <3>1, FlattenAppend
  <2>7. Without(FlattenSeq(Append(u, q)), E) = FlattenSeq(Inner(Append(u, q)))
    BY <1>3, <2>1, <2>3, <2>5, <2>6
  <2>8. QED
    BY <2>4, <2>7
<1> HIDE DEF P
<1>4. \A u \in Seq(Seq(S)) : u \in P
  BY <1>2, <1>3, SequencesByLength
<1> USE DEF P
<1>5. QED
  BY <1>4

(* So two sequences that differ element by element only by what is left    *)
(* out differ by no more together.                                         *)
LEMMA WithoutSame ==
  ASSUME NEW S, NEW s \in Seq(Seq(S)), NEW t \in Seq(Seq(S)), NEW E, Len(s) = Len(t),
         \A k \in 1..Len(s) : Without(s[k], E) = Without(t[k], E)
  PROVE  Without(FlattenSeq(s), E) = Without(FlattenSeq(t), E)
<1>1. DOMAIN s = 1..Len(s) /\ DOMAIN t = 1..Len(s)
  BY LenProperties
<1>2. [k \in DOMAIN s |-> Without(s[k], E)] = [k \in DOMAIN t |-> Without(t[k], E)]
  BY <1>1
<1>3. Without(FlattenSeq(s), E) = FlattenSeq([k \in DOMAIN s |-> Without(s[k], E)])
  BY WithoutFlatten
<1>4. Without(FlattenSeq(t), E) = FlattenSeq([k \in DOMAIN t |-> Without(t[k], E)])
  BY WithoutFlatten
<1>5. QED
  BY <1>2, <1>3, <1>4

(* The sequence of a sequence's one-element parts. *)
LEMMA FlattenSingles ==
  ASSUME NEW S, NEW s \in Seq(S)
  PROVE  /\ FlattenSeq([i \in DOMAIN s |-> <<s[i]>>]) = s
         /\ [i \in DOMAIN s |-> <<s[i]>>] \in Seq(Seq(S))
<1>1. Shed(s, {}) = [i \in DOMAIN s |-> <<s[i]>>]
  BY DEF Shed, Left
<1>2. Shed(s, {}) \in Seq(Seq(S \ {})) /\ S \ {} = S
  BY ShedType
<1> DEFINE P == {u \in Seq(S) : Without(u, {}) = u}
<1>3. <<>> \in P
  BY WithoutEmpty
<1>4. ASSUME NEW u \in Seq(S), u \in P, NEW e \in S PROVE Append(u, e) \in P
  <2>1. Without(Append(u, e), {}) = Without(u, {}) \o Left(e, {})
    BY WithoutAppend
  <2>2. Left(e, {}) = <<e>> /\ Append(u, e) = u \o <<e>>
    BY AppendIsConcat DEF Left
  <2>3. QED
    BY <1>4, <2>1, <2>2, AppendProperties
<1> HIDE DEF P
<1>5. \A u \in Seq(S) : u \in P
  BY <1>3, <1>4, SequencesByLength
<1> USE DEF P
<1>6. Without(s, {}) = s
  BY <1>5
<1>7. Without(s, {}) = FlattenSeq(Shed(s, {}))
  BY DEF Without, Shed, Left
<1>8. QED
  BY <1>1, <1>2, <1>6, <1>7

-----------------------------------------------------------------------------
(* Texts: stripping takes spaces only. *)

LEMMA TextLength ==
  ASSUME NEW t \in Text
  PROVE  /\ t \in Seq(Char) /\ Len(t) \in Nat /\ DOMAIN t = 1..Len(t)
         /\ NonSpaces(t) = {i \in 1..Len(t) : t[i] # Space}
<1>1. t \in Seq(Char) /\ Len(t) \in Nat /\ DOMAIN t = 1..Len(t)
  BY LenProperties DEF Text
<1>2. QED
  BY <1>1 DEF NonSpaces

LEMMA NonSpaceType == ASSUME NEW t \in Text PROVE NonSpaceText(t) \in Text
<1> DEFINE E == {Space}
<1> HIDE DEF E
<1>1. t \in Seq(Char)
  BY DEF Text
<1>2. Without(t, E) \in Seq(Char \ E) /\ Char \ E \subseteq Char
  BY <1>1, WithoutType
<1>3. Without(t, E) \in Seq(Char)
  BY <1>2, SeqMonotonic
<1>4. QED
  BY <1>3 DEF NonSpaceText, Text, E

LEMMA NonSpaceConcat ==
  ASSUME NEW s \in Text, NEW t \in Text
  PROVE  s \o t \in Text /\ NonSpaceText(s \o t) = NonSpaceText(s) \o NonSpaceText(t)
<1> DEFINE E == {Space}
<1> HIDE DEF E
<1>1. s \in Seq(Char) /\ t \in Seq(Char)
  BY DEF Text
<1>2. s \o t \in Seq(Char) /\ Without(s \o t, E) = Without(s, E) \o Without(t, E)
  BY <1>1, ConcatProperties, WithoutConcat
<1>3. QED
  BY <1>2 DEF NonSpaceText, Text, E

LEMMA NonSpaceOfSpaces ==
  ASSUME NEW t \in Text, NonSpaces(t) = {}
  PROVE  NonSpaceText(t) = <<>>
<1> DEFINE E == {Space}
<1>1. t \in Seq(Char) /\ DOMAIN t = 1..Len(t)
  BY DEF Text
<1>2. \A i \in 1..Len(t) : t[i] \in E
  BY <1>1 DEF NonSpaces
<1> HIDE DEF E
<1>3. Without(t, E) = <<>>
  BY <1>1, <1>2, WithoutAll
<1>4. QED
  BY <1>3 DEF NonSpaceText, E

(* A text in two at n. *)
LEMMA TwoParts ==
  ASSUME NEW t \in Text, NEW n \in 0..Len(t)
  PROVE  /\ SubSeq(t, 1, n) \in Text /\ Len(SubSeq(t, 1, n)) = n
         /\ SubSeq(t, n + 1, Len(t)) \in Text /\ Len(SubSeq(t, n + 1, Len(t))) = Len(t) - n
         /\ \A i \in 1..n : SubSeq(t, 1, n)[i] = t[i]
         /\ \A i \in 1..(Len(t) - n) : SubSeq(t, n + 1, Len(t))[i] = t[n + i]
         /\ NonSpaceText(t)
              = NonSpaceText(SubSeq(t, 1, n)) \o NonSpaceText(SubSeq(t, n + 1, Len(t)))
<1>1. Len(t) \in Nat /\ t \in Seq(Char) /\ n \in Nat /\ n <= Len(t)
  BY DEF Text
<1>2. /\ SubSeq(t, 1, n) \in Seq(Char) /\ Len(SubSeq(t, 1, n)) = n
      /\ SubSeq(t, n + 1, Len(t)) \in Seq(Char) /\ Len(SubSeq(t, n + 1, Len(t))) = Len(t) - n
      /\ \A i \in 1..n : SubSeq(t, 1, n)[i] = t[i]
      /\ \A i \in 1..(Len(t) - n) : SubSeq(t, n + 1, Len(t))[i] = t[n + i]
  BY <1>1
<1>3. SubSeq(t, 1, n) \o SubSeq(t, n + 1, Len(t)) = t
  <2>1. 1 \in 1..(Len(t) + 1) /\ n \in (1 - 1)..Len(t) /\ Len(t) \in n..Len(t)
    BY <1>1
  <2>2. SubSeq(t, 1, n) \o SubSeq(t, n + 1, Len(t)) = SubSeq(t, 1, Len(t))
    BY <1>1, <2>1, ConcatAdjacentSubSeq
  <2>3. QED
    BY <1>1, <2>2, SubSeqFull
<1>4. NonSpaceText(SubSeq(t, 1, n) \o SubSeq(t, n + 1, Len(t)))
        = NonSpaceText(SubSeq(t, 1, n)) \o NonSpaceText(SubSeq(t, n + 1, Len(t)))
  BY <1>2, NonSpaceConcat DEF Text
<1>5. QED
  BY <1>2, <1>3, <1>4 DEF Text

(* Nothing on one side. *)
LEMMA NonSpaceLeft ==
  ASSUME NEW t \in Text
  PROVE  <<>> \o NonSpaceText(t) = NonSpaceText(t) /\ NonSpaceText(t) \o <<>> = NonSpaceText(t)
<1>1. NonSpaceText(t) \in Seq(Char)
  BY NonSpaceType DEF Text
<1>2. QED
  BY <1>1, ConcatEmptySeq

LEMMA NonSpacesType ==
  ASSUME NEW t \in Text, NonSpaces(t) # {}
  PROVE  /\ Min(NonSpaces(t)) \in 1..Len(t) /\ Max(NonSpaces(t)) \in 1..Len(t)
         /\ Min(NonSpaces(t)) <= Max(NonSpaces(t))
         /\ \A i \in 1..Len(t) : t[i] # Space => Min(NonSpaces(t)) <= i /\ i <= Max(NonSpaces(t))
<1>1. NonSpaces(t) = {i \in 1..Len(t) : t[i] # Space} /\ Len(t) \in Nat
  BY TextLength
<1>2. NonSpaces(t) \in SUBSET Nat /\ NonSpaces(t) \in SUBSET (0..Len(t))
  BY <1>1
<1>3. Min(NonSpaces(t)) \in NonSpaces(t) /\ \A x \in NonSpaces(t) : Min(NonSpaces(t)) <= x
  BY <1>2, MinIsLeast
<1>4. Max(NonSpaces(t)) \in NonSpaces(t) /\ \A x \in NonSpaces(t) : x <= Max(NonSpaces(t))
  BY <1>1, <1>2, MaxIsGreatest
<1>5. QED
  BY <1>1, <1>3, <1>4

LEMMA LStripKeeps ==
  ASSUME NEW t \in Text
  PROVE  /\ LStrip(t) \in Text /\ Len(LStrip(t)) <= Len(t)
         /\ NonSpaceText(LStrip(t)) = NonSpaceText(t)
<1>1. CASE NonSpaces(t) = {}
  <2>1. NonSpaceText(t) = <<>> /\ LStrip(t) = <<>>
    BY <1>1, NonSpaceOfSpaces DEF LStrip
  <2>2. <<>> \in Text /\ NonSpaces(<<>>) = {} /\ Len(<<>>) = 0 /\ Len(t) >= 0
    BY DEF Text, NonSpaces
  <2>3. QED
    BY <2>1, <2>2, NonSpaceOfSpaces
<1>2. CASE NonSpaces(t) # {}
  <2> DEFINE n == Min(NonSpaces(t)) - 1
             s == SubSeq(t, 1, n)
             u == SubSeq(t, n + 1, Len(t))
  <2>1. /\ n \in 0..Len(t) /\ n + 1 = Min(NonSpaces(t)) /\ Len(t) \in Nat
        /\ \A i \in 1..n : t[i] = Space
    <3>1. Len(t) \in Nat
      BY TextLength
    <3>2. /\ Min(NonSpaces(t)) \in 1..Len(t)
          /\ \A i \in 1..Len(t) : t[i] # Space => Min(NonSpaces(t)) <= i
      BY <1>2, NonSpacesType
    <3>3. n \in 0..Len(t) /\ n + 1 = Min(NonSpaces(t))
      BY <3>1, <3>2
    <3>4. \A i \in 1..n : t[i] = Space
      BY <3>1, <3>2, <3>3
    <3>5. QED
      BY <3>1, <3>3, <3>4
  <2>2. LStrip(t) = u
    BY <1>2, <2>1 DEF LStrip
  <2> HIDE DEF n
  <2>3. /\ s \in Text /\ Len(s) = n /\ u \in Text /\ Len(u) = Len(t) - n
        /\ \A i \in 1..n : s[i] = t[i]
        /\ NonSpaceText(t) = NonSpaceText(s) \o NonSpaceText(u)
    BY <2>1, TwoParts
  <2> HIDE DEF s, u
  <2>4. NonSpaceText(s) = <<>>
    <3>1. NonSpaces(s) = {}
      BY <2>1, <2>3, TextLength
    <3>2. QED
      BY <2>3, <3>1, NonSpaceOfSpaces
  <2>5. <<>> \o NonSpaceText(u) = NonSpaceText(u)
    BY <2>3, NonSpaceLeft
  <2>6. QED
    BY <2>1, <2>2, <2>3, <2>4, <2>5
<1>3. QED
  BY <1>1, <1>2

LEMMA StripKeeps ==
  ASSUME NEW t \in Text
  PROVE  Strip(t) \in Text /\ NonSpaceText(Strip(t)) = NonSpaceText(t)
<1>1. CASE NonSpaces(t) = {}
  <2>1. NonSpaceText(t) = <<>> /\ Strip(t) = <<>>
    BY <1>1, NonSpaceOfSpaces DEF Strip
  <2>2. <<>> \in Text /\ NonSpaces(<<>>) = {}
    BY DEF Text, NonSpaces
  <2>3. QED
    BY <2>1, <2>2, NonSpaceOfSpaces
<1>2. CASE NonSpaces(t) # {}
  <2> DEFINE a == Min(NonSpaces(t))
             b == Max(NonSpaces(t))
             u == SubSeq(t, 1, b)
             v == SubSeq(t, b + 1, Len(t))
  <2>1. /\ a \in 1..Len(t) /\ b \in 1..Len(t) /\ a <= b /\ Len(t) \in Nat
        /\ \A i \in 1..Len(t) : t[i] # Space => a <= i /\ i <= b
    BY <1>2, NonSpacesType, TextLength
  <2>2. Strip(t) = SubSeq(t, a, b)
    BY <1>2 DEF Strip
  <2> HIDE DEF a, b
  <2>3. b \in 0..Len(t)
    BY <2>1
  <2>4. /\ u \in Text /\ Len(u) = b /\ v \in Text /\ Len(v) = Len(t) - b
        /\ \A i \in 1..b : u[i] = t[i]
        /\ \A i \in 1..(Len(t) - b) : v[i] = t[b + i]
        /\ NonSpaceText(t) = NonSpaceText(u) \o NonSpaceText(v)
    BY <2>3, TwoParts
  <2>5. SubSeq(u, a, b) = SubSeq(t, a, b)
    <3>1. t \in Seq(Char) /\ u \in Seq(Char)
      BY <2>4 DEF Text
    <3>2. a \in 1..b /\ b \in 1..b /\ 1 \in 1..Len(t) /\ b = (b - 1) + 1
      BY <2>1
    <3>3. SubSeq(SubSeq(t, 1, b), a, b) = SubSeq(t, 1 + a - 1, 1 + b - 1)
      BY <2>1, <3>1, <3>2, SubSeqOfSubSeq
    <3>4. 1 + a - 1 = a /\ 1 + b - 1 = b
      BY <2>1
    <3>5. QED
      BY <3>3, <3>4
  <2> HIDE DEF u, v
  <2>6. NonSpaceText(v) = <<>>
    <3>1. ASSUME NEW i \in 1..Len(v) PROVE v[i] = Space
      <4>1. b + i \in 1..Len(t) /\ ~(b + i <= b) /\ v[i] = t[b + i]
        BY <2>1, <2>4
      <4>2. QED
        BY <2>1, <4>1
    <3>2. NonSpaces(v) = {}
      BY <2>4, <3>1, TextLength
    <3>3. QED
      BY <2>4, <3>2, NonSpaceOfSpaces
  <2>7. NonSpaceText(t) = NonSpaceText(u)
    BY <2>4, <2>6, NonSpaceLeft
  <2>8. Strip(t) = LStrip(u)
    <3>1. NonSpaces(u) = {i \in 1..b : u[i] # Space}
      BY <2>4, TextLength
    <3>2. NonSpaces(t) = {i \in 1..Len(t) : t[i] # Space}
      BY TextLength
    <3>3. \A i \in 1..Len(t) : t[i] # Space => i \in 1..b
      BY <2>1
    <3>4. \A i \in 1..b : i \in 1..Len(t) /\ u[i] = t[i]
      BY <2>1, <2>4
    <3>5. NonSpaces(u) = NonSpaces(t)
      BY <3>1, <3>2, <3>3, <3>4
    <3>6. QED
      BY <1>2, <2>2, <2>4, <2>5, <3>5 DEF LStrip, a
  <2>9. QED
    BY <2>4, <2>7, <2>8, LStripKeeps
<1>3. QED
  BY <1>1, <1>2

-----------------------------------------------------------------------------
(* The chunker's loop. *)

LEMMA ClauseLengthBounds ==
  ASSUME NEW t \in Text
  PROVE  ClauseLength(t) \in 0..Len(t)
<1>1. MaxChars \in Nat /\ MaxChars > 0 /\ Len(t) \in Nat /\ DOMAIN t = 1..Len(t)
  BY ChunkerAssumption DEF ChunkerAssumption, Text
<1>2. CASE Boundaries(t) # {}
  <2>1. Boundaries(t) \in SUBSET Nat /\ Boundaries(t) \in SUBSET (1..Len(t))
    BY <1>1 DEF Boundaries
  <2>2. Min(Boundaries(t)) \in Boundaries(t)
    BY <1>2, <2>1, MinIsLeast
  <2>3. QED
    BY <1>1, <1>2, <2>1, <2>2 DEF ClauseLength
<1>3. CASE Boundaries(t) = {}
  <2> DEFINE T == {0} \cup {i - 1 : i \in {j \in 1..MaxChars : t[j] = Space}}
  <2>1. T \in SUBSET (0..MaxChars) /\ T # {}
    BY <1>1
  <2> HIDE DEF T
  <2>2. Max(T) \in 0..MaxChars
    BY <1>1, <2>1, MaxIsGreatest
  <2>3. WordBreak(t) = IF Max(T) = 0 THEN MaxChars ELSE Max(T)
    BY DEF WordBreak, T
  <2>4. WordBreak(t) \in 1..MaxChars
    BY <1>1, <2>2, <2>3
  <2>5. QED
    BY <1>1, <1>3, <2>4 DEF ClauseLength
<1>4. QED
  BY <1>2, <1>3

(* What the loop does next is shorter. *)
LEMMA RestIsShorter ==
  ASSUME NEW t \in Text, NEW n \in 1..Len(t)
  PROVE  /\ Rest(t, n) \in Text /\ Len(Rest(t, n)) \in Nat /\ Len(Rest(t, n)) < Len(t)
         /\ NonSpaceText(t)
              = NonSpaceText(Strip(SubSeq(t, 1, n))) \o NonSpaceText(Rest(t, n))
<1> DEFINE s == SubSeq(t, 1, n)
           u == SubSeq(t, n + 1, Len(t))
<1>1. n \in 0..Len(t) /\ Len(t) \in Nat
  BY DEF Text
<1>2. /\ s \in Text /\ u \in Text /\ Len(u) = Len(t) - n
      /\ NonSpaceText(t) = NonSpaceText(s) \o NonSpaceText(u)
  BY <1>1, TwoParts
<1> HIDE DEF s, u
<1>3. NonSpaceText(Strip(s)) = NonSpaceText(s)
  BY <1>2, StripKeeps
<1>4. LStrip(u) \in Text /\ Len(LStrip(u)) <= Len(u) /\ NonSpaceText(LStrip(u)) = NonSpaceText(u)
  BY <1>2, LStripKeeps
<1>5. Len(LStrip(u)) \in Nat
  BY <1>4 DEF Text
<1>6. Rest(t, n) = LStrip(u)
  BY DEF Rest, u
<1>7. QED
  BY <1>1, <1>2, <1>3, <1>4, <1>5, <1>6 DEF s

(* One turn of the loop, with f for the turns after it. *)
TakeBody(f, t) ==
  LET n == ClauseLength(t) IN
    IF n = 0 THEN [clauses |-> <<>>, buffer |-> t]
    ELSE LET more == f[Rest(t, n)]
         IN  [clauses |-> <<Strip(SubSeq(t, 1, n))>> \o more.clauses,
              buffer  |-> more.buffer]

Short(n) == {t \in Text : Len(t) <= n}

TakesShort(f, n) == f = [t \in Short(n) |-> TakeBody(f, t)]

LEMMA BodyLooksAtRest ==
  ASSUME NEW t \in Text, NEW f, NEW g,
         ClauseLength(t) # 0 => f[Rest(t, ClauseLength(t))] = g[Rest(t, ClauseLength(t))]
  PROVE  TakeBody(f, t) = TakeBody(g, t)
BY DEF TakeBody

LEMMA RestIsShort ==
  ASSUME NEW t \in Text, ClauseLength(t) # 0
  PROVE  /\ Rest(t, ClauseLength(t)) \in Text
         /\ Len(Rest(t, ClauseLength(t))) \in Nat
         /\ Len(Rest(t, ClauseLength(t))) < Len(t)
<1>1. ClauseLength(t) \in 1..Len(t)
  BY ClauseLengthBounds, TextLength
<1>2. QED
  BY <1>1, RestIsShorter

(* The loop ends, so there is a function that says what it does. *)
LEMMA ShortTakesExist == \A n \in Nat : \E f : TakesShort(f, n)
<1> DEFINE P == {n \in Nat : \E f : TakesShort(f, n)}
<1>1. 0 \in P
  <2> DEFINE f == [t \in Short(0) |-> TakeBody(<<>>, t)]
  <2>1. ASSUME NEW t \in Short(0) PROVE TakeBody(<<>>, t) = TakeBody(f, t)
    <3>1. t \in Text /\ Len(t) <= 0
      BY DEF Short
    <3>2. ClauseLength(t) = 0
      BY <3>1, ClauseLengthBounds, TextLength
    <3> HIDE DEF f
    <3>3. QED
      BY <3>1, <3>2, BodyLooksAtRest
  <2>2. TakesShort(f, 0)
    BY <2>1, Zenon DEF TakesShort
  <2>3. QED
    BY <2>2
<1>2. ASSUME NEW n \in Nat, n \in P PROVE n + 1 \in P
  <2>1. PICK f : TakesShort(f, n)
    BY <1>2
  <2> DEFINE g == [t \in Short(n + 1) |-> TakeBody(f, t)]
  <2>2. ASSUME NEW t \in Short(n) PROVE g[t] = f[t]
    <3>1. t \in Short(n + 1)
      BY TextLength DEF Short
    <3>2. QED
      BY <2>1, <3>1, Zenon DEF TakesShort
  <2>3. ASSUME NEW t \in Short(n + 1) PROVE TakeBody(f, t) = TakeBody(g, t)
    <3>1. t \in Text /\ Len(t) <= n + 1 /\ Len(t) \in Nat
      BY TextLength DEF Short
    <3>2. ClauseLength(t) # 0 => Rest(t, ClauseLength(t)) \in Short(n)
      BY <3>1, RestIsShort DEF Short
    <3> HIDE DEF g
    <3>3. QED
      BY <2>2, <3>1, <3>2, BodyLooksAtRest
  <2>4. TakesShort(g, n + 1)
    BY <2>3, Zenon DEF TakesShort
  <2>5. QED
    BY <2>4
<1> HIDE DEF P
<1>3. \A n \in Nat : n \in P
  BY <1>1, <1>2, NumbersBySuccessor
<1> USE DEF P
<1>4. QED
  BY <1>3

(* And they agree. *)
LEMMA ShortTakesAgree ==
  ASSUME NEW n \in Nat, NEW k \in Nat, NEW f, NEW g, TakesShort(f, n), TakesShort(g, k)
  PROVE  \A t \in Text : Len(t) <= n /\ Len(t) <= k => f[t] = g[t]
<1> DEFINE Bad(t) == Len(t) <= n /\ Len(t) <= k /\ f[t] # g[t]
           T == {m \in Nat : \E t \in Text : Len(t) = m /\ Bad(t)}
<1> SUFFICES ASSUME T # {} PROVE FALSE
  <2>1. T = {} => \A t \in Text : ~Bad(t)
    BY TextLength
  <2>2. QED
    BY <2>1
<1>1. PICK m \in T : \A j \in T : m <= j
  <2>1. T \in SUBSET Nat
    OBVIOUS
  <2> HIDE DEF T
  <2>2. QED
    BY <2>1, LeastNumber
<1>2. PICK t \in Text : Len(t) = m /\ Bad(t)
  BY <1>1
<1>3. t \in Short(n) /\ t \in Short(k)
  BY <1>2 DEF Short
<1>4. f[t] = TakeBody(f, t) /\ g[t] = TakeBody(g, t)
  BY <1>3, Zenon DEF TakesShort
<1>5. ClauseLength(t) # 0 => f[Rest(t, ClauseLength(t))] = g[Rest(t, ClauseLength(t))]
  <2> SUFFICES ASSUME ClauseLength(t) # 0
               PROVE  f[Rest(t, ClauseLength(t))] = g[Rest(t, ClauseLength(t))]
    OBVIOUS
  <2> DEFINE r == Rest(t, ClauseLength(t))
  <2>1. r \in Text /\ Len(r) \in Nat /\ Len(r) < Len(t)
    BY RestIsShort
  <2> HIDE DEF r
  <2>2. Len(r) <= n /\ Len(r) <= k /\ ~(m <= Len(r))
    BY <1>1, <1>2, <2>1
  <2>3. ~Bad(r)
    BY <1>1, <2>1, <2>2
  <2>4. QED
    BY <2>2, <2>3 DEF r
<1>6. f[t] = g[t]
  BY <1>4, <1>5, BodyLooksAtRest
<1>7. QED
  BY <1>2, <1>6

(* Take is what the loop does. *)
LEMMA TakeIsTheLoop == \A t \in Text : Take[t] = TakeBody(Take, t)
<1> DEFINE g(n) == CHOOSE f : TakesShort(f, n)
           F == [t \in Text |-> g(Len(t))[t]]
<1>1. \A n \in Nat : TakesShort(g(n), n)
  BY ShortTakesExist
<1> HIDE DEF g
<1>2. ASSUME NEW t \in Text PROVE F[t] = TakeBody(F, t)
  <2> DEFINE h == g(Len(t))
  <2>1. TakesShort(h, Len(t)) /\ Len(t) \in Nat
    BY <1>1, TextLength
  <2>2. F[t] = h[t]
    OBVIOUS
  <2> HIDE DEF h
  <2>3. t \in Short(Len(t))
    BY <2>1 DEF Short
  <2>4. h[t] = TakeBody(h, t)
    BY <2>1, <2>3, Zenon DEF TakesShort
  <2>5. ClauseLength(t) # 0 => h[Rest(t, ClauseLength(t))] = F[Rest(t, ClauseLength(t))]
    <3> SUFFICES ASSUME ClauseLength(t) # 0
                 PROVE  h[Rest(t, ClauseLength(t))] = F[Rest(t, ClauseLength(t))]
      OBVIOUS
    <3> DEFINE r == Rest(t, ClauseLength(t))
    <3>1. r \in Text /\ Len(r) \in Nat /\ Len(r) < Len(t)
      BY RestIsShort
    <3>2. F[r] = g(Len(r))[r]
      BY <3>1
    <3> HIDE DEF r, F
    <3>3. Len(r) <= Len(t) /\ Len(r) <= Len(r)
      BY <2>1, <3>1
    <3>4. TakesShort(g(Len(r)), Len(r))
      BY <1>1, <3>1
    <3>5. h[r] = g(Len(r))[r]
      BY <2>1, <3>1, <3>3, <3>4, ShortTakesAgree
    <3>6. QED
      BY <3>2, <3>5 DEF r
  <2> HIDE DEF F
  <2>6. TakeBody(h, t) = TakeBody(F, t)
    BY <2>5, BodyLooksAtRest
  <2>7. QED
    BY <2>2, <2>4, <2>6
<1>3. F = [t \in Text |-> TakeBody(F, t)]
  <2>1. F = [t \in Text |-> F[t]]
    OBVIOUS
  <2> HIDE DEF F
  <2>2. QED
    BY <1>2, <2>1
<1> HIDE DEF F
<1>4. \E f : f = [t \in Text |-> TakeBody(f, t)]
  BY <1>3
<1>5. Take = CHOOSE f : f = [t \in Text |-> TakeBody(f, t)]
  BY DEF Take, TakeBody
<1>6. Take = [t \in Text |-> TakeBody(Take, t)]
  BY <1>4, <1>5
<1>7. QED
  BY <1>6, Zenon

-----------------------------------------------------------------------------
(* Sequences of texts. *)

LEMMA TextsFlatten ==
  ASSUME NEW s \in Seq(Text), NEW t \in Seq(Text)
  PROVE  /\ FlattenSeq(s) \in Text
         /\ s \o t \in Seq(Text) /\ FlattenSeq(s \o t) = FlattenSeq(s) \o FlattenSeq(t)
<1>1. s \in Seq(Seq(Char)) /\ t \in Seq(Seq(Char))
  BY DEF Text
<1>2. FlattenSeq(s) \in Seq(Char) /\ FlattenSeq(s \o t) = FlattenSeq(s) \o FlattenSeq(t)
  BY <1>1, FlattenType, FlattenConcat
<1>3. QED
  BY <1>2, ConcatProperties DEF Text

LEMMA TextsOne ==
  ASSUME NEW t \in Text
  PROVE  <<t>> \in Seq(Text) /\ FlattenSeq(<<t>>) = t
<1>1. t \in Seq(Char)
  BY DEF Text
<1>2. FlattenSeq(<<t>>) = t
  BY <1>1, FlattenOne
<1>3. QED
  BY <1>2

LEMMA EmptyText ==
  <<>> \in Text /\ <<>> \in Seq(Text) /\ FlattenSeq(<<>>) = <<>> /\ NonSpaceText(<<>>) = <<>>
<1>1. <<>> \in Text
  BY DEF Text
<1>2. NonSpaces(<<>>) = {}
  BY DEF NonSpaces
<1>3. QED
  BY <1>1, <1>2, NonSpaceOfSpaces, FlattenEmpty

(* The characters of two and of three texts. *)
LEMMA NonSpaceAssociative ==
  ASSUME NEW s \in Text, NEW t \in Text, NEW u \in Text
  PROVE  (NonSpaceText(s) \o NonSpaceText(t)) \o NonSpaceText(u)
           = NonSpaceText(s) \o (NonSpaceText(t) \o NonSpaceText(u))
<1>1. /\ NonSpaceText(s) \in Seq(Char) /\ NonSpaceText(t) \in Seq(Char)
      /\ NonSpaceText(u) \in Seq(Char)
  BY NonSpaceType DEF Text
<1>2. QED
  BY <1>1, ConcatAssociative

-----------------------------------------------------------------------------
(* The chunker keeps what is not space. *)

Conserves(r, t) ==
  /\ r.clauses \in Seq(Text) /\ r.buffer \in Text
  /\ NonSpaceText(FlattenSeq(r.clauses)) \o NonSpaceText(r.buffer) = NonSpaceText(t)

LEMMA OneMoreClause ==
  ASSUME NEW t \in Text, NEW c \in Text, NEW u \in Text, NEW r, Conserves(r, u),
         NonSpaceText(t) = NonSpaceText(c) \o NonSpaceText(u)
  PROVE  Conserves([clauses |-> <<c>> \o r.clauses, buffer |-> r.buffer], t)
<1> DEFINE x == r.clauses
           f == FlattenSeq(r.clauses)
           b == r.buffer
<1>1. x \in Seq(Text) /\ b \in Text /\ f \in Text
      /\ NonSpaceText(f) \o NonSpaceText(b) = NonSpaceText(u)
  BY TextsFlatten DEF Conserves
<1>2. <<c>> \in Seq(Text) /\ FlattenSeq(<<c>>) = c
  BY TextsOne
<1>3. <<c>> \o x \in Seq(Text) /\ FlattenSeq(<<c>> \o x) = c \o f
  BY <1>1, <1>2, TextsFlatten
<1> HIDE DEF f
<1>4. NonSpaceText(c \o f) = NonSpaceText(c) \o NonSpaceText(f)
  BY <1>1, NonSpaceConcat
<1>5. (NonSpaceText(c) \o NonSpaceText(f)) \o NonSpaceText(b)
        = NonSpaceText(c) \o (NonSpaceText(f) \o NonSpaceText(b))
  BY <1>1, NonSpaceAssociative
<1>6. NonSpaceText(FlattenSeq(<<c>> \o x)) \o NonSpaceText(b) = NonSpaceText(t)
  BY <1>1, <1>3, <1>4, <1>5
<1>7. QED
  BY <1>1, <1>3, <1>6 DEF Conserves

LEMMA TakeConserves == \A t \in Text : Conserves(Take[t], t)
<1> DEFINE T == {m \in Nat : \E t \in Text : Len(t) = m /\ ~Conserves(Take[t], t)}
<1> SUFFICES ASSUME T # {} PROVE FALSE
  <2>1. T = {} => \A t \in Text : Conserves(Take[t], t)
    BY TextLength
  <2>2. QED
    BY <2>1
<1>1. PICK m \in T : \A j \in T : m <= j
  <2>1. T \in SUBSET Nat
    OBVIOUS
  <2> HIDE DEF T
  <2>2. QED
    BY <2>1, LeastNumber
<1>2. PICK t \in Text : Len(t) = m /\ ~Conserves(Take[t], t)
  BY <1>1
<1> DEFINE n == ClauseLength(t)
<1>3. Take[t] = TakeBody(Take, t)
  BY TakeIsTheLoop
<1>4. CASE n = 0
  <2>1. Take[t] = [clauses |-> <<>>, buffer |-> t]
    BY <1>3, <1>4 DEF TakeBody
  <2>2. <<>> \o NonSpaceText(t) = NonSpaceText(t)
    BY NonSpaceLeft
  <2>3. Conserves([clauses |-> <<>>, buffer |-> t], t)
    BY <2>2, EmptyText DEF Conserves
  <2>4. QED
    BY <1>2, <2>1, <2>3
<1>5. CASE n # 0
  <2> DEFINE c == Strip(SubSeq(t, 1, n))
             u == Rest(t, n)
  <2>1. n \in 1..Len(t)
    BY <1>5, ClauseLengthBounds, TextLength
  <2>2. c \in Text
    <3>1. n \in 0..Len(t)
      BY <2>1
    <3>2. SubSeq(t, 1, n) \in Text
      BY <3>1, TwoParts
    <3>3. QED
      BY <3>2, StripKeeps
  <2>3. /\ u \in Text /\ Len(u) \in Nat /\ Len(u) < Len(t)
        /\ NonSpaceText(t) = NonSpaceText(c) \o NonSpaceText(u)
    BY <2>1, RestIsShorter
  <2>4. Take[t] = [clauses |-> <<c>> \o Take[u].clauses, buffer |-> Take[u].buffer]
    BY <1>3, <1>5 DEF TakeBody
  <2> HIDE DEF c, u
  <2>5. Conserves(Take[u], u)
    <3>1. ~(m <= Len(u))
      BY <1>1, <1>2, <2>3
    <3>2. QED
      BY <1>1, <2>3, <3>1
  <2>6. Conserves([clauses |-> <<c>> \o Take[u].clauses, buffer |-> Take[u].buffer], t)
    BY <2>2, <2>3, <2>5, OneMoreClause
  <2>7. QED
    BY <1>2, <2>4, <2>6
<1>6. QED
  BY <1>4, <1>5

(* The glue is spaces. *)
LEMMA UngluedKeeps ==
  ASSUME NEW t \in Text
  PROVE  Unglued(t) \in Text /\ NonSpaceText(Unglued(t)) = NonSpaceText(t)
<1> DEFINE E == {Space}
           f == [i \in DOMAIN t |-> <<t[i]>>]
           g == [i \in DOMAIN t |-> IF IsGlued(t, i) THEN <<Space, t[i]>> ELSE <<t[i]>>]
<1>1. t \in Seq(Char) /\ Len(t) \in Nat /\ DOMAIN t = 1..Len(t) /\ Space \in Char
  BY TextLength DEF Char
<1>2. f \in Seq(Seq(Char)) /\ FlattenSeq(f) = t
  BY <1>1, FlattenSingles
<1>3. ASSUME NEW i \in 1..Len(t)
      PROVE  /\ g[i] \in {<<t[i]>>, <<Space, t[i]>>} /\ f[i] = <<t[i]>>
             /\ <<t[i]>> \in Seq(Char) /\ <<Space, t[i]>> = <<Space>> \o <<t[i]>>
             /\ <<Space>> \in Seq(Char) /\ g[i] \in Seq(Char)
  <2>1. t[i] \in Char
    BY <1>1
  <2>2. g[i] \in {<<t[i]>>, <<Space, t[i]>>} /\ f[i] = <<t[i]>>
    BY <1>1
  <2>3. <<Space, t[i]>> = <<Space>> \o <<t[i]>>
    BY <1>1, <2>1, Pair
  <2>4. <<t[i]>> \in Seq(Char) /\ <<Space, t[i]>> \in Seq(Char) /\ <<Space>> \in Seq(Char)
    BY <1>1, <2>1
  <2> HIDE DEF f, g
  <2>5. QED
    BY <2>2, <2>3, <2>4
<1>4. g \in Seq(Seq(Char)) /\ Len(g) = Len(t)
  <2>1. g = [i \in 1..Len(t) |-> g[i]]
    BY <1>1
  <2> HIDE DEF g
  <2>2. QED
    BY <1>1, <1>3, <2>1, FunctionIsSeq
<1>5. Len(f) = Len(t)
  BY <1>1, <1>2
<1>6. Unglued(t) = FlattenSeq(g)
  BY DEF Unglued
<1> HIDE DEF E, f, g
<1>7. ASSUME NEW i \in 1..Len(g) PROVE Without(g[i], E) = Without(f[i], E)
  <2> i \in 1..Len(t)
    BY <1>4
  <2>1. CASE g[i] = <<t[i]>>
    BY <1>3, <2>1
  <2>2. CASE g[i] = <<Space>> \o <<t[i]>>
    <3>1. Without(<<Space>> \o <<t[i]>>, E) = Without(<<Space>>, E) \o Without(<<t[i]>>, E)
      <4> DEFINE a == <<Space>>
                 b == <<t[i]>>
      <4>1. a \in Seq(Char) /\ b \in Seq(Char)
        BY <1>3
      <4> HIDE DEF a, b
      <4>2. Without(a \o b, E) = Without(a, E) \o Without(b, E)
        BY <4>1, WithoutConcat
      <4>3. QED
        BY <4>2 DEF a, b
    <3>2. Without(<<Space>>, E) = <<>>
      <4>1. \A k \in 1..Len(<<Space>>) : <<Space>>[k] \in E
        BY DEF E
      <4>2. QED
        BY <1>3, <4>1, WithoutAll
    <3>3. <<>> \o Without(<<t[i]>>, E) = Without(<<t[i]>>, E)
      BY <1>3, WithoutType, ConcatEmptySeq
    <3>4. QED
      BY <1>3, <2>2, <3>1, <3>2, <3>3
  <2>3. QED
    BY <1>3, <2>1, <2>2
<1>8. Without(FlattenSeq(g), E) = Without(FlattenSeq(f), E)
  BY <1>2, <1>4, <1>5, <1>7, WithoutSame
<1>9. FlattenSeq(g) \in Seq(Char)
  BY <1>4, FlattenType
<1>10. QED
  BY <1>2, <1>6, <1>8, <1>9 DEF NonSpaceText, E, Text

(* feed: what comes out and stays is what was kept and came in. *)
LEMMA FeedKeeps ==
  ASSUME NEW b \in Text, NEW d \in Text
  PROVE  Conserves(Feed(b, d), b \o d)
<1>1. b \o d \in Text
  BY NonSpaceConcat
<1>2. Unglued(b \o d) \in Text /\ NonSpaceText(Unglued(b \o d)) = NonSpaceText(b \o d)
  BY <1>1, UngluedKeeps
<1>3. Conserves(Take[Unglued(b \o d)], Unglued(b \o d))
  BY <1>2, TakeConserves
<1>4. QED
  BY <1>2, <1>3 DEF Feed, Conserves

(* flush. *)
LEMMA FlushKeeps ==
  ASSUME NEW b \in Text
  PROVE  Flush(b) \in Seq(Text) /\ NonSpaceText(FlattenSeq(Flush(b))) = NonSpaceText(b)
<1>1. Strip(b) \in Text /\ NonSpaceText(Strip(b)) = NonSpaceText(b)
  BY StripKeeps
<1>2. CASE Strip(b) = <<>>
  BY <1>1, <1>2, EmptyText DEF Flush
<1>3. CASE Strip(b) # <<>>
  <2>1. <<Strip(b)>> \in Seq(Text) /\ FlattenSeq(<<Strip(b)>>) = Strip(b)
    BY <1>1, TextsOne
  <2>2. QED
    BY <1>1, <1>3, <2>1 DEF Flush
<1>4. QED
  BY <1>2, <1>3

(* join_clauses adds spaces only. *)
LEMMA JoinKeeps ==
  ASSUME NEW cs \in Seq(Text)
  PROVE  JoinClauses(cs) \in Text /\ NonSpaceText(JoinClauses(cs)) = NonSpaceText(FlattenSeq(cs))
<1> DEFINE E == {Space}
           g == [k \in DOMAIN cs |-> IF IsSeam(cs, k) THEN <<Space>> \o cs[k] ELSE cs[k]]
           b == <<Space>>
<1>1. cs \in Seq(Seq(Char)) /\ Len(cs) \in Nat /\ DOMAIN cs = 1..Len(cs)
  BY LenProperties DEF Text
<1>2. b \in Seq(Char) /\ \A k \in 1..Len(b) : b[k] \in E
  BY DEF Char
<1>3. JoinClauses(cs) = FlattenSeq(g)
  BY DEF JoinClauses
<1>4. \A k \in 1..Len(cs) : g[k] \in {cs[k], b \o cs[k]}
  BY <1>1
<1>5. g = [k \in 1..Len(cs) |-> g[k]]
  BY <1>1
<1> HIDE DEF E, g, b
<1>6. ASSUME NEW k \in 1..Len(cs)
      PROVE  g[k] \in Seq(Char) /\ Without(g[k], E) = Without(cs[k], E)
  <2>1. cs[k] \in Seq(Char)
    BY <1>1, ElementOfSeq
  <2>2. b \o cs[k] \in Seq(Char) /\ Without(b \o cs[k], E) = Without(b, E) \o Without(cs[k], E)
    BY <1>2, <2>1, ConcatProperties, WithoutConcat
  <2>3. Without(b, E) = <<>>
    BY <1>2, WithoutAll
  <2>4. <<>> \o Without(cs[k], E) = Without(cs[k], E)
    BY <2>1, WithoutType, ConcatEmptySeq
  <2>5. QED
    BY <1>4, <2>1, <2>2, <2>3, <2>4
<1>7. g \in Seq(Seq(Char)) /\ Len(g) = Len(cs)
  BY <1>1, <1>5, <1>6, FunctionIsSeq
<1>8. Without(FlattenSeq(g), E) = Without(FlattenSeq(cs), E)
  BY <1>1, <1>6, <1>7, WithoutSame
<1>9. FlattenSeq(g) \in Seq(Char)
  BY <1>7, FlattenType
<1>10. QED
  BY <1>3, <1>8, <1>9 DEF NonSpaceText, E, Text

-----------------------------------------------------------------------------
(* MockLLM's deltas make up the reply. *)

EndsOf(t) ==
  LET spaces == DOMAIN t \ NonSpaces(t)
  IN  IF spaces = {} THEN DOMAIN t ELSE spaces \cup {Len(t)}

(* The last end up to n, and the delta that ends at i. *)
LastEnd(t, n) == Max({0} \cup {j \in EndsOf(t) : j <= n})
Piece(t, i)   == SubSeq(t, LastEnd(t, i - 1) + 1, i)
PieceAt(t, i) == IF i \in EndsOf(t) THEN Piece(t, i) ELSE <<>>

LEMMA EndsInText ==
  ASSUME NEW t \in Text
  PROVE  EndsOf(t) \in SUBSET (0..Len(t)) /\ (t # <<>> => Len(t) \in EndsOf(t))
<1>1. Len(t) \in Nat /\ DOMAIN t = 1..Len(t) /\ (t # <<>> => Len(t) >= 1)
  BY TextLength DEF Text
<1>2. QED
  BY <1>1 DEF EndsOf

LEMMA LastEndIs ==
  ASSUME NEW t \in Text, NEW n \in Nat
  PROVE  /\ LastEnd(t, n) \in 0..n /\ LastEnd(t, n) <= Len(t)
         /\ n + 1 \in EndsOf(t) => LastEnd(t, n + 1) = n + 1
         /\ n + 1 \notin EndsOf(t) => LastEnd(t, n + 1) = LastEnd(t, n)
<1> DEFINE D(k) == {0} \cup {j \in EndsOf(t) : j <= k}
<1>1. EndsOf(t) \in SUBSET (0..Len(t)) /\ Len(t) \in Nat
  BY EndsInText, TextLength
<1>2. \A k \in Nat : D(k) \in SUBSET (0..k) /\ D(k) # {} /\ D(k) \in SUBSET (0..Len(t))
  BY <1>1
<1>3. n + 1 \notin EndsOf(t) => D(n + 1) = D(n)
  BY <1>1
<1>4. n + 1 \in EndsOf(t) => n + 1 \in D(n + 1)
  OBVIOUS
<1>5. LastEnd(t, n) = Max(D(n)) /\ LastEnd(t, n + 1) = Max(D(n + 1))
  BY DEF LastEnd
<1> HIDE DEF D
<1>6. Max(D(n)) \in 0..n /\ Max(D(n)) \in 0..Len(t)
  BY <1>2, MaxIsGreatest
<1>7. n + 1 \in EndsOf(t) => Max(D(n + 1)) = n + 1
  <2>1. n + 1 \in Nat /\ \A x \in D(n + 1) : x <= n + 1
    BY <1>2
  <2>2. QED
    BY <1>2, <1>4, <2>1, GreatestIsMax
<1>8. QED
  BY <1>1, <1>3, <1>5, <1>6, <1>7

LEMMA PieceType ==
  ASSUME NEW t \in Text, NEW i \in 1..Len(t)
  PROVE  Piece(t, i) \in Seq(Char) /\ PieceAt(t, i) \in Seq(Char)
<1>1. t \in Seq(Char) /\ Len(t) \in Nat /\ i - 1 \in Nat /\ i \in Nat
  BY TextLength
<1>2. LastEnd(t, i - 1) \in 0..(i - 1)
  BY <1>1, LastEndIs
<1>3. LastEnd(t, i - 1) + 1 \in Int /\ \A k \in (LastEnd(t, i - 1) + 1)..i : t[k] \in Char
  BY <1>1, <1>2
<1>4. Piece(t, i) \in Seq(Char)
  BY <1>1, <1>3, SubSeqProperties DEF Piece
<1>5. QED
  BY <1>4 DEF PieceAt

LEMMA PiecesMakeUp ==
  ASSUME NEW t \in Text, NEW h, h = [i \in 1..Len(t) |-> PieceAt(t, i)]
  PROVE  h \in Seq(Seq(Char)) /\ FlattenSeq(h) = t
<1>1. t \in Seq(Char) /\ Len(t) \in Nat
  BY TextLength
<1>2. \A i \in 1..Len(t) : h[i] = PieceAt(t, i) /\ h[i] \in Seq(Char)
  BY PieceType
<1>3. h \in Seq(Seq(Char)) /\ Len(h) = Len(t)
  <2>1. h = [i \in 1..Len(t) |-> h[i]]
    BY <1>2
  <2>2. QED
    BY <1>1, <1>2, <2>1, FunctionIsSeq
<1> DEFINE P == {n \in Nat : n <= Len(t) =>
                   FlattenSeq(SubSeq(h, 1, n)) = SubSeq(t, 1, LastEnd(t, n))}
<1>4. 0 \in P
  <2>1. SubSeq(h, 1, 0) = <<>> /\ SubSeq(t, 1, 0) = <<>>
    BY SubSeqEmpty
  <2>2. LastEnd(t, 0) = 0
    <3>1. LastEnd(t, 0) \in 0..0
      BY LastEndIs
    <3>2. QED
      BY <3>1
  <2>3. QED
    BY <2>1, <2>2, FlattenEmpty
<1>5. ASSUME NEW n \in Nat, n \in P PROVE n + 1 \in P
  <2> SUFFICES ASSUME n + 1 <= Len(t)
               PROVE  FlattenSeq(SubSeq(h, 1, n + 1)) = SubSeq(t, 1, LastEnd(t, n + 1))
    OBVIOUS
  <2> DEFINE e == LastEnd(t, n)
  <2>1. FlattenSeq(SubSeq(h, 1, n)) = SubSeq(t, 1, e)
    BY <1>1, <1>5
  <2>2. e \in 0..n /\ e <= Len(t)
    BY LastEndIs
  <2>3. /\ SubSeq(h, 1, n) \in Seq(Seq(Char)) /\ h[n + 1] \in Seq(Char)
        /\ SubSeq(h, 1, n + 1) = Append(SubSeq(h, 1, n), h[n + 1])
    BY <1>1, <1>3
  <2>4. FlattenSeq(SubSeq(h, 1, n + 1)) = SubSeq(t, 1, e) \o h[n + 1]
    BY <2>1, <2>3, FlattenAppend
  <2>5. h[n + 1] = PieceAt(t, n + 1) /\ (n + 1) - 1 = n
    BY <1>1, <1>2
  <2> HIDE DEF e
  <2>6. CASE n + 1 \in EndsOf(t)
    <3>1. h[n + 1] = SubSeq(t, e + 1, n + 1)
      BY <2>5, <2>6 DEF PieceAt, Piece, e
    <3>2. 1 \in 1..(Len(t) + 1) /\ e \in (1 - 1)..Len(t) /\ n + 1 \in e..Len(t)
      BY <1>1, <2>2
    <3>3. SubSeq(t, 1, e) \o SubSeq(t, e + 1, n + 1) = SubSeq(t, 1, n + 1)
      BY <1>1, <3>2, ConcatAdjacentSubSeq
    <3>4. LastEnd(t, n + 1) = n + 1
      BY <2>6, LastEndIs
    <3>5. QED
      BY <2>4, <3>1, <3>3, <3>4
  <2>7. CASE n + 1 \notin EndsOf(t)
    <3>1. h[n + 1] = <<>>
      BY <2>5, <2>7 DEF PieceAt
    <3>2. SubSeq(t, 1, e) \in Seq(Char)
      BY <1>1, <2>2
    <3>3. SubSeq(t, 1, e) \o <<>> = SubSeq(t, 1, e)
      BY <3>2, ConcatEmptySeq
    <3>4. LastEnd(t, n + 1) = e
      BY <2>7, LastEndIs DEF e
    <3>5. QED
      BY <2>4, <3>1, <3>3, <3>4
  <2>8. QED
    BY <2>6, <2>7
<1> HIDE DEF P
<1>6. \A n \in Nat : n \in P
  BY <1>4, <1>5, NumbersBySuccessor
<1> USE DEF P
<1>7. FlattenSeq(SubSeq(h, 1, Len(t))) = SubSeq(t, 1, LastEnd(t, Len(t)))
  BY <1>1, <1>6
<1>8. LastEnd(t, Len(t)) = Len(t)
  <2>1. CASE Len(t) = 0
    <3>1. LastEnd(t, 0) \in 0..0
      BY LastEndIs
    <3>2. QED
      BY <2>1, <3>1
  <2>2. CASE Len(t) # 0
    <3>1. Len(t) - 1 \in Nat /\ (Len(t) - 1) + 1 = Len(t) /\ t # <<>>
      BY <1>1, <2>2
    <3>2. Len(t) \in EndsOf(t)
      BY <3>1, EndsInText
    <3>3. (Len(t) - 1) + 1 \in EndsOf(t) => LastEnd(t, (Len(t) - 1) + 1) = (Len(t) - 1) + 1
      BY <3>1, LastEndIs
    <3>4. QED
      BY <3>1, <3>2, <3>3
  <2>3. QED
    BY <2>1, <2>2
<1>9. SubSeq(h, 1, Len(h)) = h /\ SubSeq(t, 1, Len(t)) = t
  BY <1>1, <1>3, SubSeqFull
<1>10. QED
  BY <1>3, <1>7, <1>8, <1>9

LEMMA DeltasMakeUp ==
  ASSUME NEW t \in Text
  PROVE  Deltas(t) \in Seq(Text) /\ FlattenSeq(Deltas(t)) = t
<1> DEFINE f == [i \in 1..Len(t) |-> IF i \in EndsOf(t) THEN <<Piece(t, i)>> ELSE <<>>]
           h == [i \in 1..Len(t) |-> PieceAt(t, i)]
<1>1. t \in Seq(Char) /\ Len(t) \in Nat /\ DOMAIN t = 1..Len(t)
  BY TextLength
<1>2. ASSUME NEW i \in 1..Len(t)
      PROVE  f[i] \in Seq(Seq(Char)) /\ FlattenSeq(f[i]) = PieceAt(t, i)
  <2>1. CASE i \in EndsOf(t)
    <3>1. Piece(t, i) \in Seq(Char)
      BY PieceType
    <3>2. <<Piece(t, i)>> \in Seq(Seq(Char)) /\ FlattenSeq(<<Piece(t, i)>>) = Piece(t, i)
      BY <3>1, FlattenOne
    <3>3. f[i] = <<Piece(t, i)>> /\ PieceAt(t, i) = Piece(t, i)
      BY <2>1 DEF PieceAt
    <3> HIDE DEF f
    <3>4. QED
      BY <3>2, <3>3
  <2>2. CASE i \notin EndsOf(t)
    <3>1. f[i] = <<>> /\ PieceAt(t, i) = <<>>
      BY <2>2 DEF PieceAt
    <3>2. <<>> \in Seq(Seq(Char))
      OBVIOUS
    <3> HIDE DEF f
    <3>3. QED
      BY <3>1, <3>2, FlattenEmpty
  <2>3. QED
    BY <2>1, <2>2
<1>3. f = [i \in 1..Len(t) |-> f[i]] /\ DOMAIN f = 1..Len(t)
  OBVIOUS
<1>4. Deltas(t) = FlattenSeq(f)
  <2>1. ASSUME NEW i \in 1..Len(t)
        PROVE  Piece(t, i) = SubSeq(t, Max({0} \cup {j \in EndsOf(t) : j < i}) + 1, i)
    <3>1. \A j \in EndsOf(t) : j < i <=> j <= i - 1
      BY <1>1, EndsInText
    <3>2. {j \in EndsOf(t) : j < i} = {j \in EndsOf(t) : j <= i - 1}
      BY <3>1
    <3>3. QED
      BY <3>2 DEF Piece, LastEnd
  <2>2. f = [i \in DOMAIN t |-> IF i \in EndsOf(t)
               THEN <<SubSeq(t, Max({0} \cup {j \in EndsOf(t) : j < i}) + 1, i)>> ELSE <<>>]
    BY <1>1, <2>1
  <2> HIDE DEF f
  <2>3. QED
    BY <2>2 DEF Deltas, EndsOf
<1> HIDE DEF f
<1>5. f \in Seq(Seq(Seq(Char)))
  BY <1>1, <1>2, <1>3, FunctionIsSeq
<1>6. FlattenSeq(FlattenSeq(f)) = FlattenSeq([k \in DOMAIN f |-> FlattenSeq(f[k])])
  BY <1>5, FlattenTwice
<1>7. [k \in DOMAIN f |-> FlattenSeq(f[k])] = h
  BY <1>2, <1>3
<1>8. FlattenSeq(h) = t
  BY PiecesMakeUp
<1>9. FlattenSeq(f) \in Seq(Seq(Char))
  BY <1>5, FlattenType
<1>10. QED
  BY <1>4, <1>6, <1>7, <1>8, <1>9 DEF Text

-----------------------------------------------------------------------------
(* The texts of a turn: what was spoken, what the TTS will get, what the   *)
(* chunker keeps and what the model has still to write.                    *)

Characters(p, c, b, w) ==
  (NonSpaceText(FlattenSeq(p)) \o NonSpaceText(FlattenSeq(c)))
    \o (NonSpaceText(b) \o NonSpaceText(FlattenSeq(w)))

(* \o is associative. *)
LEMMA CharactersAssociative ==
  ASSUME NEW s \in Seq(Char), NEW t \in Seq(Char), NEW u \in Seq(Char)
  PROVE  (s \o t) \o u = s \o (t \o u)
<1>1. Associative(Char)
  BY ConcatIsAssociative, Zenon
<1>2. QED
  BY <1>1, Zenon DEF Associative

LEMMA WriteMoves ==
  ASSUME NEW p \in Seq(Text), NEW c \in Seq(Text), NEW b \in Text, NEW w \in Seq(Text),
         w # <<>>
  PROVE  LET fed == Feed(b, Head(w)) IN
           /\ c \o fed.clauses \in Seq(Text) /\ fed.buffer \in Text /\ Tail(w) \in Seq(Text)
           /\ Characters(p, c \o fed.clauses, fed.buffer, Tail(w)) = Characters(p, c, b, w)
<1> DEFINE d == Head(w)
           r == Feed(b, d)
           x == r.clauses
           y == r.buffer
           v == Tail(w)
<1>1. d \in Text /\ v \in Seq(Text)
  BY HeadTailProperties
<1>2. /\ x \in Seq(Text) /\ y \in Text
      /\ NonSpaceText(FlattenSeq(x)) \o NonSpaceText(y) = NonSpaceText(b \o d)
  BY <1>1, FeedKeeps DEF Conserves
<1>3. FlattenSeq(w) = d \o FlattenSeq(v)
  <2>1. w \in Seq(Seq(Char))
    BY DEF Text
  <2>2. QED
    BY <2>1, FlattenHead
<1> HIDE DEF d, r, x, y, v
<1>4. c \o x \in Seq(Text) /\ FlattenSeq(c \o x) = FlattenSeq(c) \o FlattenSeq(x)
  BY <1>2, TextsFlatten
<1>5. /\ FlattenSeq(p) \in Text /\ FlattenSeq(c) \in Text /\ FlattenSeq(x) \in Text
      /\ FlattenSeq(v) \in Text
  BY <1>1, <1>2, TextsFlatten
<1>6. /\ NonSpaceText(FlattenSeq(c) \o FlattenSeq(x))
            = NonSpaceText(FlattenSeq(c)) \o NonSpaceText(FlattenSeq(x))
      /\ NonSpaceText(b \o d) = NonSpaceText(b) \o NonSpaceText(d)
      /\ NonSpaceText(d \o FlattenSeq(v)) = NonSpaceText(d) \o NonSpaceText(FlattenSeq(v))
  BY <1>1, <1>5, NonSpaceConcat
<1> DEFINE P == NonSpaceText(FlattenSeq(p))
           C == NonSpaceText(FlattenSeq(c))
           X == NonSpaceText(FlattenSeq(x))
           V == NonSpaceText(FlattenSeq(v))
           Y == NonSpaceText(y)
           B == NonSpaceText(b)
           D == NonSpaceText(d)
<1>7. /\ P \in Seq(Char) /\ C \in Seq(Char) /\ X \in Seq(Char) /\ V \in Seq(Char)
      /\ Y \in Seq(Char) /\ B \in Seq(Char) /\ D \in Seq(Char)
  BY <1>1, <1>2, <1>5, NonSpaceType DEF Text
<1>8. X \o Y = B \o D
  BY <1>2, <1>6
<1>9. Characters(p, c \o x, y, v) = (P \o (C \o X)) \o (Y \o V)
  BY <1>4, <1>6 DEF Characters
<1>10. Characters(p, c, b, w) = (P \o C) \o (B \o (D \o V))
  BY <1>3, <1>6 DEF Characters
<1> HIDE DEF P, C, X, V, Y, B, D
<1> DEFINE Q == P \o C
           Z == Y \o V
<1>15. Q \in Seq(Char) /\ Z \in Seq(Char)
  <2>1. P \in Seq(Char) /\ C \in Seq(Char)
    BY <1>7
  <2>2. Y \in Seq(Char) /\ V \in Seq(Char)
    BY <1>7
  <2>3. P \o C \in Seq(Char)
    BY <2>1, ConcatProperties
  <2>4. Y \o V \in Seq(Char)
    BY <2>2, ConcatProperties
  <2>5. QED
    BY <2>3, <2>4
<1>16. Q \o X = P \o (C \o X)
  <2>1. P \in Seq(Char) /\ C \in Seq(Char) /\ X \in Seq(Char)
    BY <1>7
  <2>2. QED
    BY <2>1, CharactersAssociative
<1>17. (X \o Y) \o V = X \o Z
  <2>1. X \in Seq(Char) /\ Y \in Seq(Char) /\ V \in Seq(Char)
    BY <1>7
  <2>2. QED
    BY <2>1, CharactersAssociative
<1> HIDE DEF Q, Z
<1>18. (Q \o X) \o Z = Q \o (X \o Z)
  <2>1. Q \in Seq(Char) /\ X \in Seq(Char) /\ Z \in Seq(Char)
    BY <1>7, <1>15
  <2>2. QED
    BY <2>1, CharactersAssociative
<1>11. (P \o (C \o X)) \o (Y \o V) = (P \o C) \o ((B \o D) \o V)
  BY <1>8, <1>16, <1>17, <1>18 DEF Q, Z
<1>14. (B \o D) \o V = B \o (D \o V)
  <2>1. B \in Seq(Char) /\ D \in Seq(Char) /\ V \in Seq(Char)
    BY <1>7
  <2>2. QED
    BY <2>1, CharactersAssociative
<1>12. Characters(p, c \o x, y, v) = Characters(p, c, b, w)
  BY <1>9, <1>10, <1>11, <1>14
<1>13. QED
  BY <1>1, <1>2, <1>4, <1>12 DEF d, r, x, y, v

LEMMA FlushMoves ==
  ASSUME NEW p \in Seq(Text), NEW c \in Seq(Text), NEW b \in Text
  PROVE  /\ c \o Flush(b) \in Seq(Text)
         /\ Characters(p, c \o Flush(b), <<>>, <<>>) = Characters(p, c, b, <<>>)
<1> DEFINE x == Flush(b)
<1>1. x \in Seq(Text) /\ NonSpaceText(FlattenSeq(x)) = NonSpaceText(b)
  BY FlushKeeps
<1> HIDE DEF x
<1>2. c \o x \in Seq(Text) /\ FlattenSeq(c \o x) = FlattenSeq(c) \o FlattenSeq(x)
  BY <1>1, TextsFlatten
<1>3. FlattenSeq(p) \in Text /\ FlattenSeq(c) \in Text /\ FlattenSeq(x) \in Text
  BY <1>1, TextsFlatten
<1> DEFINE P == NonSpaceText(FlattenSeq(p))
           C == NonSpaceText(FlattenSeq(c))
           B == NonSpaceText(b)
<1>4. P \in Seq(Char) /\ C \in Seq(Char) /\ B \in Seq(Char) /\ <<>> \in Seq(Char)
  BY <1>3, NonSpaceType DEF Text
<1>5. NonSpaceText(FlattenSeq(c) \o FlattenSeq(x)) = C \o B
  <2>1. NonSpaceText(FlattenSeq(c) \o FlattenSeq(x)) = C \o NonSpaceText(FlattenSeq(x))
    BY <1>3, NonSpaceConcat
  <2>2. QED
    BY <1>1, <2>1
<1>6. Characters(p, c \o x, <<>>, <<>>) = (P \o (C \o B)) \o (<<>> \o <<>>)
  BY <1>2, <1>5, EmptyText DEF Characters
<1>7. Characters(p, c, b, <<>>) = (P \o C) \o (B \o <<>>)
  BY EmptyText DEF Characters
<1> HIDE DEF P, C, B
<1>8. B \o <<>> = B /\ <<>> \o <<>> = <<>>
  BY <1>4, ConcatEmptySeq
<1>9. (P \o C) \o B = P \o (C \o B) /\ (P \o (C \o B)) \o <<>> = P \o (C \o B)
  <2>1. P \in Seq(Char) /\ C \in Seq(Char) /\ B \in Seq(Char)
    BY <1>4
  <2>2. (P \o C) \o B = P \o (C \o B)
    BY <2>1, CharactersAssociative
  <2>3. P \o (C \o B) \in Seq(Char)
    BY <2>1, ConcatProperties
  <2>4. QED
    BY <2>2, <2>3, ConcatEmptySeq
<1>10. QED
  BY <1>2, <1>6, <1>7, <1>8, <1>9 DEF x

(* What was spoken, with one clause more. *)
Heard(p, h) == IF h = <<>> THEN p ELSE Append(p, h)

LEMMA SpeakMoves ==
  ASSUME NEW p \in Seq(Text), NEW c \in Seq(Text), NEW b \in Text, NEW w \in Seq(Text),
         c # <<>>
  PROVE  /\ Heard(p, Head(c)) \in Seq(Text) /\ Tail(c) \in Seq(Text)
         /\ Characters(Heard(p, Head(c)), Tail(c), b, w) = Characters(p, c, b, w)
<1> DEFINE h == Head(c)
           t == Tail(c)
           q == Heard(p, h)
<1>1. h \in Text /\ t \in Seq(Text)
  BY HeadTailProperties
<1>2. p \in Seq(Seq(Char)) /\ c \in Seq(Seq(Char)) /\ h \in Seq(Char)
  BY <1>1 DEF Text
<1>3. FlattenSeq(c) = h \o FlattenSeq(t)
  BY <1>2, FlattenHead
<1> HIDE DEF t
<1>4. q \in Seq(Text) /\ FlattenSeq(q) = FlattenSeq(p) \o h
  <2>1. CASE h = <<>>
    <3>4. q = p
      BY <2>1 DEF Heard
    <3>1. FlattenSeq(p) \in Seq(Char)
      BY <1>2, FlattenType
    <3>2. FlattenSeq(p) \o <<>> = FlattenSeq(p)
      BY <3>1, ConcatEmptySeq
    <3>3. QED
      BY <2>1, <3>2, <3>4
  <2>2. CASE h # <<>>
    <3>1. q = Append(p, h)
      BY <2>2 DEF Heard
    <3> HIDE DEF h, q
    <3>2. FlattenSeq(Append(p, h)) = FlattenSeq(p) \o h
      BY <1>2, FlattenAppend
    <3>3. QED
      BY <1>1, <3>1, <3>2, AppendProperties
  <2>3. QED
    BY <2>1, <2>2
<1> HIDE DEF h, q
<1>5. FlattenSeq(p) \in Text /\ FlattenSeq(t) \in Text
  BY <1>1, TextsFlatten
<1>6. /\ NonSpaceText(FlattenSeq(p) \o h) = NonSpaceText(FlattenSeq(p)) \o NonSpaceText(h)
      /\ NonSpaceText(h \o FlattenSeq(t)) = NonSpaceText(h) \o NonSpaceText(FlattenSeq(t))
  BY <1>1, <1>5, NonSpaceConcat
<1>7. (NonSpaceText(FlattenSeq(p)) \o NonSpaceText(h)) \o NonSpaceText(FlattenSeq(t))
        = NonSpaceText(FlattenSeq(p)) \o (NonSpaceText(h) \o NonSpaceText(FlattenSeq(t)))
  BY <1>1, <1>5, NonSpaceAssociative
<1>8. Characters(q, t, b, w) = Characters(p, c, b, w)
  BY <1>3, <1>4, <1>6, <1>7 DEF Characters
<1>9. QED
  BY <1>1, <1>4, <1>8 DEF t, q, h

-----------------------------------------------------------------------------
(* 3. The words of a reply, of Latin text.  Ungluing a part of a text      *)
(* first makes no difference to what comes of all of it; a space keeps     *)
(* words apart, so that cutting or stripping there keeps them; where no    *)
(* word is as long as the limit the chunker cuts at a space only, and      *)
(* join_clauses puts one back at each cut.  First: words are texts.        *)

LEMMA LoweredType == ASSUME NEW t \in Text PROVE Lowered(t) \in Text
<1>1. DOMAIN t = 1..Len(t) /\ Len(t) \in Nat /\ t \in Seq(Char)
  BY TextLength
<1>2. "a" \in Char
  BY DEF Char, Letters, Lower
<1>3. \A i \in 1..Len(t) : t[i] \in Char
  BY <1>1
<1>4. /\ Lowered(t) = [i \in 1..Len(t) |-> Lowered(t)[i]]
      /\ \A i \in 1..Len(t) : Lowered(t)[i] \in Char
  BY <1>1, <1>2, <1>3 DEF Lowered
<1>5. Lowered(t) \in Seq(Char)
  BY <1>1, <1>4, FunctionIsSeq
<1>6. QED
  BY <1>5 DEF Text

LEMMA NormalizedType == ASSUME NEW t \in Text PROVE Normalized(t) \in Text
<1> DEFINE u == Without(t, LatinTerminators)
<1>1. t \in Seq(Char)
  BY DEF Text
<1>2. u \in Seq(Char \ LatinTerminators) /\ Char \ LatinTerminators \subseteq Char
  BY <1>1, WithoutType
<1>3. u \in Seq(Char)
  BY <1>2, SeqMonotonic
<1> HIDE DEF u
<1>4. Lowered(u) \in Text
  BY <1>3, LoweredType DEF Text
<1>5. QED
  BY <1>4 DEF Normalized, u

(* The word that starts at i, and the starts. *)
WordAt(t, i) == SubSeq(t, i, Max({j \in i..Len(t) : i..j \subseteq NonSpaces(t)}))
Starts(t)    == {i \in NonSpaces(t) : i = 1 \/ t[i - 1] = Space}
Words(t)     == [i \in DOMAIN t |-> IF i \in Starts(t) THEN <<WordAt(t, i)>> ELSE <<>>]

LEMMA WordType ==
  ASSUME NEW t \in Text, NEW i \in NonSpaces(t)
  PROVE  WordAt(t, i) \in Text
<1> DEFINE J == {j \in i..Len(t) : i..j \subseteq NonSpaces(t)}
           n == Max(J)
<1>1. t \in Seq(Char) /\ Len(t) \in Nat /\ i \in 1..Len(t)
  BY TextLength
<1>2. J \in SUBSET (0..Len(t)) /\ i \in J
  <2>1. i..i = {i} /\ i \in i..Len(t)
    BY <1>1
  <2>2. QED
    BY <1>1, <2>1
<1> HIDE DEF J
<1>3. n \in J
  BY <1>1, <1>2, MaxIsGreatest
<1>4. n \in i..Len(t)
  BY <1>3 DEF J
<1> HIDE DEF n
<1>5. i \in Int /\ n \in Int /\ \A k \in i..n : t[k] \in Char
  BY <1>1, <1>4
<1>6. SubSeq(t, i, n) \in Seq(Char)
  BY <1>1, <1>5, SubSeqProperties
<1>7. QED
  BY <1>6 DEF WordAt, Text, n, J

LEMMA WordsType ==
  ASSUME NEW t \in Text
  PROVE  Words(t) \in Seq(Seq(Text)) /\ Len(Words(t)) = Len(t)
<1>1. DOMAIN t = 1..Len(t) /\ Len(t) \in Nat
  BY TextLength
<1>2. ASSUME NEW i \in 1..Len(t) PROVE Words(t)[i] \in Seq(Text)
  <2>1. CASE i \in Starts(t)
    <3>1. WordAt(t, i) \in Text
      BY <2>1, WordType DEF Starts
    <3>2. Words(t)[i] = <<WordAt(t, i)>>
      BY <1>1, <2>1 DEF Words
    <3>3. QED
      BY <3>1, <3>2
  <2>2. CASE i \notin Starts(t)
    <3>1. Words(t)[i] = <<>>
      BY <1>1, <2>2 DEF Words
    <3>2. QED
      BY <3>1
  <2>3. QED
    BY <2>1, <2>2
<1>3. Words(t) = [i \in 1..Len(t) |-> Words(t)[i]]
  BY <1>1 DEF Words
<1>4. QED
  BY <1>1, <1>2, <1>3, FunctionIsSeq

LEMMA SplitType == ASSUME NEW t \in Text PROVE Split(t) \in Seq(Text)
<1>1. FlattenSeq(Words(t)) \in Seq(Text)
  BY WordsType, FlattenType
<1>2. QED
  BY <1>1 DEF Split, Words, WordAt, Starts

-----------------------------------------------------------------------------
(* Ungluing: what a text ends in decides what comes of what follows it. *)

(* What a text ends in, as far as the glue looks. *)
EndsLow(x) == x # <<>> /\ x[Len(x)] \in Lower
EndsDot(x) == Len(x) > 1 /\ x[Len(x)] \in LatinTerminators /\ x[Len(x) - 1] \in Lower

SameEnds(x, y) == (EndsLow(x) <=> EndsLow(y)) /\ (EndsDot(x) <=> EndsDot(y))

Glue(x, c) == IF EndsDot(x) /\ c \in Upper THEN <<Space, c>> ELSE <<c>>

LEMMA CharClasses ==
  /\ Space \in Char /\ Space \notin Lower /\ Space \notin Upper /\ Space \notin LatinTerminators
  /\ Lower \cap Upper = {} /\ Upper \cap LatinTerminators = {} /\ Lower \cap LatinTerminators = {}
BY DEF Space, Lower, Upper, LatinTerminators, Char

LEMMA AppendText ==
  ASSUME NEW x \in Text, NEW c \in Char
  PROVE  /\ Append(x, c) \in Text /\ Len(x) \in Nat /\ Len(Append(x, c)) = Len(x) + 1
         /\ DOMAIN Append(x, c) = 1..(Len(x) + 1)
         /\ \A i \in 1..Len(x) : Append(x, c)[i] = x[i]
         /\ Append(x, c)[Len(x) + 1] = c
         /\ Append(x, c) # <<>>
BY DEF Text

LEMMA EndsAppend ==
  ASSUME NEW x \in Text, NEW c \in Char
  PROVE  /\ EndsLow(Append(x, c)) <=> c \in Lower
         /\ EndsDot(Append(x, c)) <=> c \in LatinTerminators /\ EndsLow(x)
<1> DEFINE y == Append(x, c)
<1>1. /\ y # <<>> /\ Len(y) = Len(x) + 1 /\ Len(x) \in Nat /\ y[Len(x) + 1] = c
      /\ \A i \in 1..Len(x) : y[i] = x[i]
  BY AppendText
<1>2. x # <<>> <=> Len(x) > 0
  BY <1>1, EmptySeq DEF Text
<1> HIDE DEF y
<1>3. EndsLow(y) <=> c \in Lower
  BY <1>1 DEF EndsLow
<1>4. EndsDot(y) <=> Len(x) > 0 /\ c \in LatinTerminators /\ x[Len(x)] \in Lower
  BY <1>1 DEF EndsDot
<1>5. QED
  BY <1>2, <1>3, <1>4 DEF y, EndsLow

LEMMA GlueType ==
  ASSUME NEW x \in Text, NEW c \in Char
  PROVE  /\ Glue(x, c) \in Text
         /\ (EndsDot(x) /\ c \in Upper) => Glue(x, c) = <<Space, c>>
         /\ ~(EndsDot(x) /\ c \in Upper) => Glue(x, c) = <<c>>
<1>1. <<c>> \in Seq(Char) /\ <<Space, c>> \in Seq(Char)
  BY CharClasses
<1>2. QED
  BY <1>1 DEF Glue, Text

Glues(t) == [i \in DOMAIN t |-> IF IsGlued(t, i) THEN <<Space, t[i]>> ELSE <<t[i]>>]

LEMMA GluesType ==
  ASSUME NEW t \in Text
  PROVE  Glues(t) \in Seq(Text) /\ Len(Glues(t)) = Len(t)
<1>1. Len(t) \in Nat /\ DOMAIN t = 1..Len(t) /\ \A i \in 1..Len(t) : t[i] \in Char
  BY DEF Text
<1>2. \A c \in Char : <<c>> \in Text /\ <<Space, c>> \in Text
  <2> TAKE c \in Char
  <2>1. <<c>> \in Seq(Char) /\ <<Space, c>> \in Seq(Char)
    BY CharClasses
  <2>2. QED
    BY <2>1 DEF Text
<1>3. \A i \in 1..Len(t) : Glues(t)[i] \in Text
  BY <1>1, <1>2, Zenon DEF Glues
<1>4. Glues(t) = [i \in 1..Len(t) |-> Glues(t)[i]]
  BY <1>1 DEF Glues
<1>5. QED
  BY <1>1, <1>3, <1>4, FunctionIsSeq

LEMMA UngluedAppend ==
  ASSUME NEW x \in Text, NEW c \in Char
  PROVE  Unglued(Append(x, c)) = Unglued(x) \o Glue(x, c)
<1> DEFINE y == Append(x, c)
           n == Len(x)
<1>1. /\ y \in Text /\ y # <<>> /\ Len(y) = n + 1 /\ n \in Nat /\ y[n + 1] = c
      /\ \A i \in 1..n : y[i] = x[i]
      /\ DOMAIN y = 1..(n + 1) /\ DOMAIN x = 1..n
  BY AppendText, TextLength
<1> HIDE DEF y, n
<1>2. \A i \in 1..n : IsGlued(y, i) <=> IsGlued(x, i)
  BY <1>1 DEF IsGlued
<1>3. IsGlued(y, n + 1) <=> EndsDot(x) /\ c \in Upper
  BY <1>1 DEF IsGlued, EndsDot, n
<1>4. \A i \in 1..n : Glues(y)[i] = Glues(x)[i]
  BY <1>1, <1>2 DEF Glues
<1>5. Glues(y)[n + 1] = Glue(x, c)
  <2>1. n + 1 \in DOMAIN y
    BY <1>1
  <2>2. Glues(y)[n + 1] = IF IsGlued(y, n + 1) THEN <<Space, y[n + 1]>> ELSE <<y[n + 1]>>
    BY <2>1, Zenon DEF Glues
  <2>3. QED
    BY <1>1, <1>3, <2>2, Zenon DEF Glue
<1>6. Glues(y) \in Seq(Text) /\ Glues(x) \in Seq(Text) /\ Len(Glues(y)) = n + 1 /\ Len(Glues(x)) = n
  BY <1>1, GluesType DEF n
<1>7. Glue(x, c) \in Text
  BY GlueType
<1>8. Glues(y) = Append(Glues(x), Glue(x, c))
  BY <1>4, <1>5, <1>6, <1>7, OneLonger
<1>9. FlattenSeq(Append(Glues(x), Glue(x, c))) = FlattenSeq(Glues(x)) \o Glue(x, c)
  BY <1>6, <1>7, FlattenAppend DEF Text
<1>10. QED
  BY <1>8, <1>9 DEF Unglued, Glues, y

(* Induction on texts. *)
LEMMA TextsByLength ==
  ASSUME NEW P, <<>> \in P, \A x \in Text : x \in P => \A c \in Char : Append(x, c) \in P
  PROVE  \A x \in Text : x \in P
<1>1. \A x \in Seq(Char) : x \in P => \A c \in Char : Append(x, c) \in P
  BY DEF Text
<1>2. QED
  BY <1>1, SequencesByLength DEF Text

(* Concatenation of texts. *)
LEMMA TextConcat ==
  /\ <<>> \in Text
  /\ \A s \in Text : s \o <<>> = s /\ <<>> \o s = s
  /\ \A s, t \in Text : s \o t \in Text
  /\ \A s, t, u \in Text : (s \o t) \o u = s \o (t \o u)
  /\ \A s, t \in Text : \A c \in Char : s \o Append(t, c) = Append(s \o t, c)
  /\ \A s \in Text : \A c \in Char : Append(s, c) = s \o <<c>> /\ <<c>> \in Text
<1>1. <<>> \in Text
  BY DEF Text
<1>2. \A s \in Text : s \o <<>> = s /\ <<>> \o s = s
  BY ConcatEmptySeq DEF Text
<1>3. \A s, t \in Text : s \o t \in Text
  BY ConcatProperties DEF Text
<1>4. \A s, t, u \in Text : (s \o t) \o u = s \o (t \o u)
  BY ConcatIsAssociative DEF Text, Associative
<1>5. \A s, t \in Text : \A c \in Char : s \o Append(t, c) = Append(s \o t, c)
  BY ConcatThenAppend DEF Text
<1>6. ASSUME NEW s \in Text, NEW c \in Char
      PROVE  Append(s, c) = s \o <<c>> /\ <<c>> \in Text
  <2>1. <<c>> \in Seq(Char)
    OBVIOUS
  <2>2. QED
    BY <2>1, AppendIsConcat DEF Text
<1>7. QED
  BY <1>1, <1>2, <1>3, <1>4, <1>5, <1>6

LEMMA TextAssociative == \A s, t, u \in Text : (s \o t) \o u = s \o (t \o u)
BY ConcatIsAssociative DEF Text, Associative

LEMMA UngluedEmpty == Unglued(<<>>) = <<>>
<1>1. [i \in DOMAIN <<>> |-> IF IsGlued(<<>>, i) THEN <<Space, (<<>>)[i]>> ELSE <<(<<>>)[i]>>] = <<>>
  OBVIOUS
<1>2. QED
  BY <1>1, FlattenEmpty DEF Unglued

LEMMA UngluedType == \A t \in Text : Unglued(t) \in Text
BY UngluedKeeps

(* What the glue adds, one character or two. *)
LEMMA GlueAppends ==
  ASSUME NEW y \in Text, NEW x \in Text, NEW c \in Char
  PROVE  \/ /\ ~(EndsDot(x) /\ c \in Upper)
            /\ y \o Glue(x, c) = Append(y, c)
         \/ /\ EndsDot(x) /\ c \in Upper
            /\ y \o Glue(x, c) = Append(Append(y, Space), c)
<1>1. Space \in Char
  BY CharClasses
<1>2. CASE ~(EndsDot(x) /\ c \in Upper)
  <2>1. Glue(x, c) = <<c>>
    BY <1>2, GlueType
  <2>2. QED
    BY <1>2, <2>1, TextConcat
<1>3. CASE EndsDot(x) /\ c \in Upper
  <2>1. Glue(x, c) = <<Space, c>>
    BY <1>3, GlueType
  <2>2. <<Space>> \o <<c>> = <<Space, c>>
    BY <1>1, Pair
  <2>3. y \o (<<Space>> \o <<c>>) = (y \o <<Space>>) \o <<c>>
    BY <1>1, TextConcat
  <2>4. y \o <<Space>> = Append(y, Space) /\ Append(y, Space) \in Text
    BY <1>1, TextConcat, AppendText
  <2>5. Append(y, Space) \o <<c>> = Append(Append(y, Space), c)
    BY <2>4, TextConcat
  <2>6. QED
    BY <1>3, <2>1, <2>2, <2>3, <2>4, <2>5
<1>4. QED
  BY <1>2, <1>3

LEMMA UngluedEnds == \A x \in Text : SameEnds(Unglued(x), x)
<1> DEFINE P == {x \in Text : SameEnds(Unglued(x), x)}
<1>1. <<>> \in P
  BY UngluedEmpty, TextConcat DEF SameEnds
<1>2. ASSUME NEW x \in Text, x \in P, NEW c \in Char PROVE Append(x, c) \in P
  <2> DEFINE y == Unglued(x)
  <2>1. y \in Text /\ SameEnds(y, x)
    BY <1>2, UngluedType
  <2>2. Unglued(Append(x, c)) = y \o Glue(x, c)
    BY UngluedAppend
  <2> HIDE DEF y
  <2>3. /\ EndsLow(Append(x, c)) <=> c \in Lower
        /\ EndsDot(Append(x, c)) <=> c \in LatinTerminators /\ EndsLow(x)
    BY EndsAppend
  <2>4. CASE y \o Glue(x, c) = Append(y, c)
    <3>1. /\ EndsLow(Append(y, c)) <=> c \in Lower
          /\ EndsDot(Append(y, c)) <=> c \in LatinTerminators /\ EndsLow(y)
      BY <2>1, EndsAppend
    <3>2. SameEnds(Append(y, c), Append(x, c))
      BY <2>1, <2>3, <3>1 DEF SameEnds
    <3>3. QED
      BY <2>2, <2>4, <3>2, AppendText
  <2>5. CASE c \in Upper /\ y \o Glue(x, c) = Append(Append(y, Space), c)
    <3> DEFINE z == Append(y, Space)
    <3>1. z \in Text
      BY <2>1, CharClasses, AppendText
    <3> HIDE DEF z
    <3>2. /\ EndsLow(Append(z, c)) <=> c \in Lower
          /\ EndsDot(Append(z, c)) <=> c \in LatinTerminators /\ EndsLow(z)
      BY <3>1, EndsAppend
    <3>3. c \notin Lower /\ c \notin LatinTerminators
      BY <2>5, CharClasses
    <3>4. SameEnds(Append(z, c), Append(x, c))
      BY <2>3, <3>2, <3>3 DEF SameEnds
    <3>5. QED
      BY <2>2, <2>5, <3>4, AppendText DEF z
  <2>6. QED
    BY <2>1, <2>4, <2>5, GlueAppends
<1> HIDE DEF P
<1>3. \A x \in Text : x \in P
  BY <1>1, <1>2, TextsByLength
<1> USE DEF P
<1>4. QED
  BY <1>3

(* What follows texts with the same end is unglued in the same way. *)
LEMMA SameAfter ==
  ASSUME NEW x \in Text, NEW y \in Text, SameEnds(x, y), NEW v \in Text
  PROVE  \E d \in Text : /\ Unglued(x \o v) = Unglued(x) \o d
                         /\ Unglued(y \o v) = Unglued(y) \o d
<1> DEFINE Q(w, d) == /\ Unglued(x \o w) = Unglued(x) \o d
                      /\ Unglued(y \o w) = Unglued(y) \o d
           P == {w \in Text : SameEnds(x \o w, y \o w) /\ \E d \in Text : Q(w, d)}
<1>1. <<>> \in P
  <2>1. Unglued(x) \in Text /\ Unglued(y) \in Text /\ <<>> \in Text
    BY UngluedType, TextConcat
  <2>2. x \o <<>> = x /\ y \o <<>> = y
    BY TextConcat
  <2>3. Unglued(x) \o <<>> = Unglued(x) /\ Unglued(y) \o <<>> = Unglued(y)
    BY <2>1, TextConcat
  <2>4. Q(<<>>, <<>>)
    BY <2>2, <2>3
  <2>5. SameEnds(x \o <<>>, y \o <<>>)
    BY <2>2
  <2> HIDE DEF Q
  <2>6. QED
    BY <2>1, <2>4, <2>5
<1>2. ASSUME NEW w \in Text, w \in P, NEW c \in Char PROVE Append(w, c) \in P
  <2>1. x \o w \in Text /\ y \o w \in Text /\ Append(w, c) \in Text
    BY TextConcat, AppendText
  <2>2. x \o Append(w, c) = Append(x \o w, c) /\ y \o Append(w, c) = Append(y \o w, c)
    BY TextConcat
  <2>3. SameEnds(x \o w, y \o w)
    BY <1>2
  <2>4. PICK d \in Text : Q(w, d)
    BY <1>2
  <2> DEFINE g == Glue(x \o w, c)
  <2>5. g = Glue(y \o w, c)
    BY <2>3, Zenon DEF Glue, SameEnds
  <2>6. g \in Text
    BY <2>1, GlueType
  <2>7. Unglued(Append(x \o w, c)) = Unglued(x \o w) \o g
    BY <2>1, UngluedAppend
  <2>8. Unglued(Append(y \o w, c)) = Unglued(y \o w) \o g
    BY <2>1, <2>5, UngluedAppend
  <2> HIDE DEF g
  <2>9. Unglued(x) \in Text /\ Unglued(y) \in Text
    BY UngluedType
  <2>10. (Unglued(x) \o d) \o g = Unglued(x) \o (d \o g)
    <3> DEFINE a == Unglued(x)
    <3>1. a \in Text
      BY <2>9
    <3> HIDE DEF a
    <3>2. (a \o d) \o g = a \o (d \o g)
      BY <3>1, <2>6, TextAssociative, ZenonT(60)
    <3>3. QED
      BY <3>2 DEF a
  <2>11. (Unglued(y) \o d) \o g = Unglued(y) \o (d \o g)
    <3> DEFINE a == Unglued(y)
    <3>1. a \in Text
      BY <2>9
    <3> HIDE DEF a
    <3>2. (a \o d) \o g = a \o (d \o g)
      BY <3>1, <2>6, TextAssociative, ZenonT(60)
    <3>3. QED
      BY <3>2 DEF a
  <2>12. d \o g \in Text
    BY <2>6, TextConcat
  <2>13. Q(Append(w, c), d \o g)
    BY <2>2, <2>4, <2>7, <2>8, <2>10, <2>11
  <2>14. SameEnds(Append(x \o w, c), Append(y \o w, c))
    BY <2>1, <2>3, EndsAppend DEF SameEnds
  <2> HIDE DEF Q
  <2>15. QED
    BY <2>1, <2>2, <2>12, <2>13, <2>14
<1> HIDE DEF P
<1>3. \A w \in Text : w \in P
  BY <1>1, <1>2, TextsByLength
<1> USE DEF P
<1>4. QED
  BY <1>3

NoGlue(t) == \A i \in 1..Len(t) : ~IsGlued(t, i)

LEMMA NothingToUnglue ==
  ASSUME NEW t \in Text, NoGlue(t)
  PROVE  Unglued(t) = t
<1>1. t \in Seq(Char) /\ DOMAIN t = 1..Len(t)
  BY TextLength
<1>2. [i \in DOMAIN t |-> IF IsGlued(t, i) THEN <<Space, t[i]>> ELSE <<t[i]>>]
        = [i \in DOMAIN t |-> <<t[i]>>]
  BY <1>1 DEF NoGlue
<1>3. QED
  BY <1>1, <1>2, FlattenSingles DEF Unglued

LEMMA NoGlueAppend ==
  ASSUME NEW x \in Text, NEW c \in Char, NoGlue(x), ~(EndsDot(x) /\ c \in Upper)
  PROVE  NoGlue(Append(x, c))
<1> DEFINE y == Append(x, c)
           n == Len(x)
<1>1. /\ Len(y) = n + 1 /\ n \in Nat /\ y[n + 1] = c
      /\ \A i \in 1..n : y[i] = x[i]
  BY AppendText, TextLength
<1> HIDE DEF y
<1>2. \A i \in 1..n : IsGlued(y, i) <=> IsGlued(x, i)
  BY <1>1 DEF IsGlued
<1>3. IsGlued(y, n + 1) <=> EndsDot(x) /\ c \in Upper
  BY <1>1 DEF IsGlued, EndsDot
<1>4. NoGlue(y)
  BY <1>1, <1>2, <1>3 DEF NoGlue
<1>5. QED
  BY <1>4 DEF y

LEMMA NoGlueParts ==
  ASSUME NEW s \in Text, NEW t \in Text, NoGlue(s \o t)
  PROVE  NoGlue(s) /\ NoGlue(t)
<1>1. /\ Len(s) \in Nat /\ Len(t) \in Nat /\ Len(s \o t) = Len(s) + Len(t)
      /\ \A i \in 1..Len(s) : (s \o t)[i] = s[i]
      /\ \A i \in 1..Len(t) : (s \o t)[Len(s) + i] = t[i]
  BY DEF Text
<1> DEFINE u == s \o t
<1> HIDE DEF u
<1>2. \A i \in 1..Len(s) : IsGlued(s, i) => IsGlued(u, i)
  BY <1>1 DEF IsGlued, u
<1>3. \A i \in 1..Len(t) : IsGlued(t, i) => IsGlued(u, Len(s) + i)
  <2> TAKE i \in 1..Len(t)
  <2> HAVE IsGlued(t, i)
  <2>1. i > 2
    BY DEF IsGlued
  <2>2. i - 1 \in 1..Len(t) /\ i - 2 \in 1..Len(t)
    BY <1>1, <2>1
  <2>3. u[Len(s) + i] = t[i] /\ u[Len(s) + (i - 1)] = t[i - 1] /\ u[Len(s) + (i - 2)] = t[i - 2]
    BY <1>1, <2>2 DEF u
  <2>4. Len(s) + (i - 1) = (Len(s) + i) - 1 /\ Len(s) + (i - 2) = (Len(s) + i) - 2 /\ Len(s) + i > 2
    BY <1>1, <2>1
  <2>5. QED
    BY <2>3, <2>4 DEF IsGlued
<1>4. \A i \in 1..Len(t) : Len(s) + i \in 1..Len(u)
  BY <1>1 DEF u
<1>5. \A i \in 1..Len(s) : i \in 1..Len(u)
  BY <1>1 DEF u
<1>6. NoGlue(u)
  BY DEF u
<1>7. QED
  BY <1>2, <1>3, <1>4, <1>5, <1>6 DEF NoGlue

(* After ungluing nothing is glued. *)
LEMMA UngluedHasNone == \A x \in Text : NoGlue(Unglued(x))
<1> DEFINE P == {x \in Text : NoGlue(Unglued(x))}
<1>1. <<>> \in P
  BY UngluedEmpty, TextConcat DEF NoGlue
<1>2. ASSUME NEW x \in Text, x \in P, NEW c \in Char PROVE Append(x, c) \in P
  <2> DEFINE y == Unglued(x)
  <2>1. y \in Text /\ NoGlue(y) /\ SameEnds(y, x)
    BY <1>2, UngluedType, UngluedEnds
  <2>2. Unglued(Append(x, c)) = y \o Glue(x, c)
    BY UngluedAppend
  <2> HIDE DEF y
  <2>3. CASE ~(EndsDot(x) /\ c \in Upper) /\ y \o Glue(x, c) = Append(y, c)
    <3>1. ~(EndsDot(y) /\ c \in Upper)
      BY <2>1, <2>3 DEF SameEnds
    <3>2. NoGlue(Append(y, c))
      BY <2>1, <3>1, NoGlueAppend
    <3>3. QED
      BY <2>2, <2>3, <3>2, AppendText
  <2>4. CASE y \o Glue(x, c) = Append(Append(y, Space), c)
    <3> DEFINE z == Append(y, Space)
    <3>1. z \in Text /\ Space \in Char /\ Space \notin LatinTerminators /\ Space \notin Upper
      BY <2>1, CharClasses, AppendText
    <3>2. ~EndsDot(z)
      BY <2>1, <3>1, EndsAppend
    <3>3. NoGlue(z)
      BY <2>1, <3>1, NoGlueAppend
    <3> HIDE DEF z
    <3>4. NoGlue(Append(z, c))
      BY <3>1, <3>2, <3>3, NoGlueAppend
    <3>5. QED
      BY <2>2, <2>4, <3>4, AppendText DEF z
  <2>5. QED
    BY <2>1, <2>3, <2>4, GlueAppends
<1> HIDE DEF P
<1>3. \A x \in Text : x \in P
  BY <1>1, <1>2, TextsByLength
<1> USE DEF P
<1>4. QED
  BY <1>3

(* Ungluing a part first makes no difference. *)
LEMMA UngluedTwice ==
  ASSUME NEW s \in Text, NEW v \in Text
  PROVE  Unglued(Unglued(s) \o v) = Unglued(s \o v)
<1> DEFINE u == Unglued(s)
<1>1. u \in Text /\ SameEnds(u, s) /\ Unglued(u) = u
  BY UngluedType, UngluedEnds, UngluedHasNone, NothingToUnglue
<1> HIDE DEF u
<1>2. PICK d \in Text : /\ Unglued(u \o v) = Unglued(u) \o d
                        /\ Unglued(s \o v) = Unglued(s) \o d
  BY <1>1, SameAfter
<1>3. QED
  BY <1>1, <1>2 DEF u

(* A space keeps both sides apart. *)
LEMMA UngluedAtSpace ==
  ASSUME NEW s \in Text, NEW v \in Text
  PROVE  Unglued(Append(s, Space) \o v) = Append(Unglued(s), Space) \o Unglued(v)
<1> DEFINE x == Append(s, Space)
<1>1. Space \in Char /\ Space \notin Lower /\ Space \notin LatinTerminators /\ Space \notin Upper
  BY CharClasses
<1>2. x \in Text /\ <<>> \in Text
  BY <1>1, AppendText, TextConcat
<1>3. ~EndsLow(x) /\ ~EndsDot(x)
  BY <1>1, EndsAppend
<1>4. ~EndsLow(<<>>) /\ ~EndsDot(<<>>)
  BY DEF EndsLow, EndsDot
<1>5. Unglued(x) = Append(Unglued(s), Space)
  <2>1. Unglued(x) = Unglued(s) \o Glue(s, Space)
    BY <1>1, UngluedAppend
  <2>2. Glue(s, Space) = <<Space>> /\ Unglued(s) \in Text
    BY <1>1, GlueType, UngluedType
  <2>3. QED
    BY <1>1, <2>1, <2>2, TextConcat
<1> HIDE DEF x
<1>6. PICK d \in Text : /\ Unglued(x \o v) = Unglued(x) \o d
                        /\ Unglued(<<>> \o v) = Unglued(<<>>) \o d
  BY <1>2, <1>3, <1>4, SameAfter DEF SameEnds
<1>7. Unglued(v) = d
  BY <1>6, TextConcat, UngluedEmpty
<1>8. QED
  BY <1>5, <1>6, <1>7 DEF x

-----------------------------------------------------------------------------
(* A space keeps the words on its sides apart. *)

(* Where the word at i may end, and its end. *)
Ends(t, i)    == {j \in i..Len(t) : i..j \subseteq NonSpaces(t)}
WordEnd(t, i) == Max(Ends(t, i))

LEMMA WordEndIs ==
  ASSUME NEW t \in Text, NEW i \in NonSpaces(t)
  PROVE  /\ Ends(t, i) \in SUBSET (0..Len(t)) /\ WordEnd(t, i) \in Ends(t, i)
         /\ \A j \in Ends(t, i) : j <= WordEnd(t, i)
         /\ WordEnd(t, i) \in i..Len(t)
<1>1. Len(t) \in Nat /\ i \in 1..Len(t)
  BY TextLength
<1>2. Ends(t, i) \in SUBSET (0..Len(t)) /\ i \in Ends(t, i)
  <2>1. i..i = {i} /\ i \in i..Len(t)
    BY <1>1
  <2>2. QED
    BY <1>1, <2>1 DEF Ends
<1>3. WordEnd(t, i) \in Ends(t, i) /\ \A j \in Ends(t, i) : j <= WordEnd(t, i)
  BY <1>1, <1>2, MaxIsGreatest DEF WordEnd
<1>4. QED
  BY <1>2, <1>3 DEF Ends

(* Two texts with a space between them. *)
LEMMA SpacedElements ==
  ASSUME NEW s \in Text, NEW t \in Text
  PROVE  LET w == Append(s, Space) \o t IN
         /\ w \in Text /\ Len(s) \in Nat /\ Len(t) \in Nat /\ Len(w) = Len(s) + 1 + Len(t)
         /\ \A i \in 1..Len(s) : w[i] = s[i]
         /\ w[Len(s) + 1] = Space
         /\ \A i \in 1..Len(t) : w[Len(s) + 1 + i] = t[i]
<1> DEFINE a == Append(s, Space)
           w == a \o t
<1>1. /\ a \in Text /\ Len(s) \in Nat /\ Len(a) = Len(s) + 1 /\ a[Len(s) + 1] = Space
      /\ \A i \in 1..Len(s) : a[i] = s[i]
  BY AppendText, CharClasses
<1> HIDE DEF a
<1>2. /\ Len(t) \in Nat /\ w \in Text /\ Len(w) = Len(a) + Len(t)
      /\ \A i \in 1..Len(a) : w[i] = a[i]
      /\ \A i \in 1..Len(t) : w[Len(a) + i] = t[i]
  BY <1>1 DEF Text
<1> HIDE DEF w
<1>3. w[Len(s) + 1] = Space
  BY <1>1, <1>2
<1>4. \A i \in 1..Len(s) : w[i] = s[i]
  BY <1>1, <1>2
<1>5. QED
  BY <1>1, <1>2, <1>3, <1>4 DEF w, a

LEMMA WordsBefore ==
  ASSUME NEW s \in Text, NEW w \in Text, Len(w) > Len(s), w[Len(s) + 1] = Space,
         \A i \in 1..Len(s) : w[i] = s[i],
         NEW i \in 1..Len(s)
  PROVE  Words(w)[i] = Words(s)[i]
<1>1. /\ Len(s) \in Nat /\ Len(w) \in Nat /\ DOMAIN w = 1..Len(w) /\ DOMAIN s = 1..Len(s)
      /\ NonSpaces(w) = {k \in 1..Len(w) : w[k] # Space}
      /\ NonSpaces(s) = {k \in 1..Len(s) : s[k] # Space}
  BY TextLength
<1>2. \A k \in 1..Len(s) : k \in NonSpaces(w) <=> k \in NonSpaces(s)
  BY <1>1
<1>3. i \in Starts(w) <=> i \in Starts(s)
  BY <1>1, <1>2 DEF Starts
<1>4. CASE i \in Starts(s)
  <2>1. i \in NonSpaces(s)
    BY <1>4 DEF Starts
  <2>2. Ends(w, i) = Ends(s, i)
    <3>1. ASSUME NEW j \in Ends(w, i) PROVE j \in Ends(s, i)
      <4>1. j \in i..Len(w) /\ i..j \subseteq NonSpaces(w)
        BY <3>1 DEF Ends
      <4>2. j <= Len(s)
        <5>1. SUFFICES ASSUME j >= Len(s) + 1 PROVE FALSE
          BY <1>1, <4>1
        <5>2. Len(s) + 1 \in i..j
          BY <1>1, <4>1, <5>1
        <5>3. QED
          BY <1>1, <4>1, <5>2
      <4>3. i..j \subseteq NonSpaces(s)
        BY <1>1, <1>2, <4>1, <4>2
      <4>4. QED
        BY <1>1, <4>1, <4>2, <4>3 DEF Ends
    <3>2. ASSUME NEW j \in Ends(s, i) PROVE j \in Ends(w, i)
      <4>1. j \in i..Len(s) /\ i..j \subseteq NonSpaces(s)
        BY <3>2 DEF Ends
      <4>2. i..j \subseteq NonSpaces(w)
        BY <1>1, <1>2, <4>1
      <4>3. QED
        BY <1>1, <4>1, <4>2 DEF Ends
    <3>3. QED
      BY <3>1, <3>2
  <2>3. WordEnd(s, i) \in i..Len(s) /\ WordEnd(w, i) = WordEnd(s, i)
    BY <2>1, <2>2, WordEndIs DEF WordEnd
  <2> DEFINE e == WordEnd(s, i)
  <2>4. WordAt(w, i) = SubSeq(w, i, e) /\ WordAt(s, i) = SubSeq(s, i, e)
    BY <2>3 DEF WordAt, WordEnd, Ends
  <2>5. e \in i..Len(s)
    BY <2>3
  <2> HIDE DEF e
  <2>6. \A k \in i..e : w[k] = s[k] /\ s[k] \in Char
    BY <1>1, <2>5 DEF Text
  <2>7. SubSeq(w, i, e) = SubSeq(s, i, e)
    BY <1>1, <2>5, <2>6
  <2>8. Words(w)[i] = <<WordAt(w, i)>>
    <3>1. i \in DOMAIN w
      BY <1>1
    <3>2. QED
      BY <1>3, <1>4, <3>1 DEF Words
  <2>9. Words(s)[i] = <<WordAt(s, i)>>
    BY <1>1, <1>4 DEF Words
  <2>10. QED
    BY <2>4, <2>7, <2>8, <2>9
<1>5. CASE i \notin Starts(s)
  BY <1>1, <1>3, <1>5 DEF Words
<1>6. QED
  BY <1>4, <1>5

LEMMA WordsAfter ==
  ASSUME NEW t \in Text, NEW w \in Text, NEW d \in Nat, d > 0, Len(w) = d + Len(t), w[d] = Space,
         \A i \in 1..Len(t) : w[d + i] = t[i],
         NEW i \in 1..Len(t)
  PROVE  Words(w)[d + i] = Words(t)[i]
<1>1. /\ Len(t) \in Nat /\ Len(w) \in Nat /\ DOMAIN w = 1..Len(w) /\ DOMAIN t = 1..Len(t)
      /\ NonSpaces(w) = {k \in 1..Len(w) : w[k] # Space}
      /\ NonSpaces(t) = {k \in 1..Len(t) : t[k] # Space}
  BY TextLength
<1>2. \A k \in 1..Len(t) : d + k \in NonSpaces(w) <=> k \in NonSpaces(t)
  BY <1>1
<1>3. d + i \in Starts(w) <=> i \in Starts(t)
  <2>1. d + i \in NonSpaces(w) <=> i \in NonSpaces(t)
    BY <1>2
  <2>2. d + i # 1
    BY <1>1
  <2>3. (d + i) - 1 = d + (i - 1)
    BY <1>1
  <2>4. CASE i = 1
    <3>1. w[(d + i) - 1] = Space
      BY <1>1, <2>3, <2>4
    <3>2. QED
      BY <2>1, <2>4, <3>1 DEF Starts
  <2>5. CASE i # 1
    <3>1. i - 1 \in 1..Len(t)
      BY <1>1, <2>5
    <3>2. w[(d + i) - 1] = t[i - 1]
      BY <2>3, <3>1
    <3>3. QED
      BY <2>1, <2>2, <2>5, <3>2 DEF Starts
  <2>6. QED
    BY <2>4, <2>5
<1>4. CASE i \in Starts(t)
  <2>1. i \in NonSpaces(t)
    BY <1>4 DEF Starts
  <2>2. \A j \in Ends(t, i) : d + j \in Ends(w, d + i)
    <3> TAKE j \in Ends(t, i)
    <3>1. j \in i..Len(t) /\ i..j \subseteq NonSpaces(t)
      BY DEF Ends
    <3>2. ASSUME NEW k \in (d + i)..(d + j) PROVE k \in NonSpaces(w)
      <4>1. k - d \in i..j /\ d + (k - d) = k
        BY <1>1, <3>1
      <4>2. k - d \in NonSpaces(t)
        BY <3>1, <4>1
      <4>3. QED
        BY <1>1, <1>2, <4>1, <4>2
    <3>3. d + j \in (d + i)..Len(w)
      BY <1>1, <3>1
    <3>4. QED
      BY <3>2, <3>3 DEF Ends
  <2>3. \A j \in Ends(w, d + i) : j - d \in Ends(t, i)
    <3> TAKE j \in Ends(w, d + i)
    <3>1. j \in (d + i)..Len(w) /\ (d + i)..j \subseteq NonSpaces(w)
      BY DEF Ends
    <3>2. ASSUME NEW k \in i..(j - d) PROVE k \in NonSpaces(t)
      <4>1. d + k \in (d + i)..j /\ k \in 1..Len(t)
        BY <1>1, <3>1
      <4>2. d + k \in NonSpaces(w)
        BY <3>1, <4>1
      <4>3. QED
        BY <1>2, <4>1, <4>2
    <3>3. j - d \in i..Len(t)
      BY <1>1, <3>1
    <3>4. QED
      BY <3>2, <3>3 DEF Ends
  <2> DEFINE e == WordEnd(t, i)
  <2>4. /\ e \in Ends(t, i) /\ e \in i..Len(t) /\ \A j \in Ends(t, i) : j <= e
    BY <2>1, WordEndIs
  <2> HIDE DEF e
  <2>5. WordEnd(w, d + i) = d + e
    <3> DEFINE J == Ends(w, d + i)
    <3>1. J \in SUBSET (0..Len(w)) /\ \A j \in J : j \in (d + i)..Len(w)
      BY <1>1 DEF Ends
    <3>2. d + e \in J
      BY <2>2, <2>4
    <3>3. \A j \in J : j <= d + e
      BY <1>1, <2>3, <2>4, <3>1
    <3> HIDE DEF J
    <3>4. Max(J) = d + e
      BY <1>1, <3>1, <3>2, <3>3, GreatestIsMax
    <3>5. QED
      BY <3>4 DEF WordEnd, J
  <2>6. WordAt(w, d + i) = SubSeq(w, d + i, d + e) /\ WordAt(t, i) = SubSeq(t, i, e)
    BY <2>5 DEF WordAt, WordEnd, Ends, e
  <2>7. SubSeq(w, d + i, d + e) = SubSeq(t, i, e)
    <3> DEFINE p == SubSeq(w, d + i, d + e)
               q == SubSeq(t, i, e)
    <3>1. p = [k \in 1..((d + e) - (d + i) + 1) |-> w[(d + i) + k - 1]]
      BY <1>1, <2>4
    <3>2. q = [k \in 1..(e - i + 1) |-> t[i + k - 1]]
      BY <1>1, <2>4
    <3>3. (d + e) - (d + i) + 1 = e - i + 1
      BY <1>1, <2>4
    <3>4. \A k \in 1..(e - i + 1) : w[(d + i) + k - 1] = t[i + k - 1]
      <4> TAKE k \in 1..(e - i + 1)
      <4>1. (d + i) + k - 1 = d + (i + k - 1) /\ i + k - 1 \in 1..Len(t)
        BY <1>1, <2>4
      <4>2. QED
        BY <4>1
    <3> HIDE DEF p, q
    <3>5. QED
      BY <3>1, <3>2, <3>3, <3>4 DEF p, q
  <2>8. QED
    <3>1. d + i \in DOMAIN w
      BY <1>1
    <3>2. Words(w)[d + i] = <<WordAt(w, d + i)>>
      BY <1>3, <1>4, <3>1 DEF Words
    <3>3. Words(t)[i] = <<WordAt(t, i)>>
      BY <1>1, <1>4 DEF Words
    <3>4. QED
      BY <2>6, <2>7, <3>2, <3>3
<1>5. CASE i \notin Starts(t)
  <2>1. d + i \in DOMAIN w
    BY <1>1
  <2>2. QED
    BY <1>1, <1>3, <1>5, <2>1 DEF Words
<1>6. QED
  BY <1>4, <1>5

LEMMA SplitAtSpace ==
  ASSUME NEW s \in Text, NEW t \in Text
  PROVE  Split(Append(s, Space) \o t) = Split(s) \o Split(t)
<1> DEFINE w == Append(s, Space) \o t
           m == Len(s)
<1>1. /\ w \in Text /\ m \in Nat /\ Len(t) \in Nat /\ Len(w) = m + 1 + Len(t)
      /\ \A i \in 1..m : w[i] = s[i]
      /\ w[m + 1] = Space
      /\ \A i \in 1..Len(t) : w[m + 1 + i] = t[i]
  BY SpacedElements
<1> HIDE DEF w
<1> DEFINE a == Words(s)
           b == Words(t)
           c == Words(w)
<1>2. /\ a \in Seq(Seq(Text)) /\ Len(a) = m /\ b \in Seq(Seq(Text)) /\ Len(b) = Len(t)
      /\ c \in Seq(Seq(Text)) /\ Len(c) = m + 1 + Len(t)
  BY <1>1, WordsType
<1>3. \A i \in 1..m : c[i] = a[i]
  BY <1>1, WordsBefore
<1>4. \A i \in 1..Len(t) : c[m + 1 + i] = b[i]
  <2> DEFINE d == m + 1
  <2>1. /\ d \in Nat /\ d > 0 /\ Len(w) = d + Len(t) /\ w[d] = Space
        /\ \A i \in 1..Len(t) : w[d + i] = t[i]
    BY <1>1
  <2> HIDE DEF m, d
  <2>2. \A i \in 1..Len(t) : Words(w)[d + i] = Words(t)[i]
    BY <1>1, <2>1, WordsAfter
  <2>3. QED
    BY <2>2 DEF d
<1>5. c[m + 1] = <<>>
  <2>1. m + 1 \in DOMAIN w /\ m + 1 \notin NonSpaces(w)
    BY <1>1, TextLength
  <2>2. QED
    BY <2>1 DEF Words, Starts
<1> HIDE DEF a, b, c, m
<1> DEFINE e == Append(a, <<>>)
<1>6. /\ e \in Seq(Seq(Text)) /\ Len(e) = m + 1 /\ e[m + 1] = <<>>
      /\ \A i \in 1..m : e[i] = a[i]
  <2>1. <<>> \in Seq(Text)
    OBVIOUS
  <2>2. QED
    BY <1>1, <1>2, <2>1
<1>7. FlattenSeq(e) = FlattenSeq(a)
  <2>1. <<>> \in Seq(Text) /\ FlattenSeq(a) \in Seq(Text)
    BY <1>2, FlattenType
  <2>2. FlattenSeq(e) = FlattenSeq(a) \o <<>>
    BY <1>2, <2>1, FlattenAppend
  <2>3. QED
    BY <2>1, <2>2, ConcatEmptySeq
<1> HIDE DEF e
<1>8. c = e \o b
  <2>1. /\ e \o b \in Seq(Seq(Text)) /\ Len(e \o b) = m + 1 + Len(t)
        /\ \A i \in 1..(m + 1) : (e \o b)[i] = e[i]
        /\ \A i \in 1..Len(t) : (e \o b)[m + 1 + i] = b[i]
    <3>1. /\ Len(e) \in Nat /\ Len(b) \in Nat
          /\ e \o b \in Seq(Seq(Text)) /\ Len(e \o b) = Len(e) + Len(b)
          /\ \A i \in 1..Len(e) : (e \o b)[i] = e[i]
          /\ \A i \in 1..Len(e \o b) : i > Len(e) => (e \o b)[i] = b[i - Len(e)]
      <4> DEFINE S == Seq(Text)
      <4>1. e \in Seq(S) /\ b \in Seq(S)
        BY <1>2, <1>6
      <4> HIDE DEF S
      <4>2. /\ Len(e) \in Nat /\ Len(b) \in Nat
            /\ e \o b \in Seq(S) /\ Len(e \o b) = Len(e) + Len(b)
            /\ \A i \in 1..Len(e) : (e \o b)[i] = e[i]
            /\ \A i \in 1..Len(e \o b) : i > Len(e) => (e \o b)[i] = b[i - Len(e)]
        BY <4>1, ConcatElements
      <4>3. QED
        BY <4>2 DEF S
    <3> DEFINE z == e \o b
    <3>2. ASSUME NEW i \in 1..Len(t) PROVE z[m + 1 + i] = b[i]
      <4>1. /\ m + 1 + i \in 1..Len(z) /\ m + 1 + i > Len(e)
            /\ (m + 1 + i) - Len(e) = i
        BY <1>1, <1>2, <1>6, <3>1
      <4> HIDE DEF z
      <4>2. z[m + 1 + i] = b[(m + 1 + i) - Len(e)]
        BY <3>1, <4>1 DEF z
      <4>3. QED
        BY <4>1, <4>2
    <3> HIDE DEF z
    <3>3. QED
      BY <1>2, <1>6, <3>1, <3>2 DEF z
  <2> DEFINE z == e \o b
  <2> HIDE DEF z
  <2>2. ASSUME NEW i \in 1..(m + 1 + Len(t)) PROVE c[i] = z[i]
    <3>1. CASE i <= m
      BY <1>1, <1>3, <1>6, <2>1, <3>1 DEF z
    <3>2. CASE i = m + 1
      BY <1>1, <1>5, <1>6, <2>1, <3>2 DEF z
    <3>3. CASE i > m + 1
      <4>1. i - (m + 1) \in 1..Len(t) /\ m + 1 + (i - (m + 1)) = i
        BY <1>1, <3>3
      <4>2. c[m + 1 + (i - (m + 1))] = b[i - (m + 1)]
        BY <1>4, <4>1
      <4>3. z[m + 1 + (i - (m + 1))] = b[i - (m + 1)]
        BY <2>1, <4>1 DEF z
      <4>4. QED
        BY <4>1, <4>2, <4>3
    <3>4. QED
      BY <1>1, <3>1, <3>2, <3>3
  <2>3. z \in Seq(Seq(Text)) /\ Len(z) = m + 1 + Len(t)
    BY <2>1 DEF z
  <2>4. c = z
    BY <1>2, <2>2, <2>3, SeqEqual
  <2>5. QED
    BY <2>4 DEF z
<1>9. FlattenSeq(e \o b) = FlattenSeq(e) \o FlattenSeq(b)
  BY <1>2, <1>6, FlattenConcat
<1>10. Split(w) = FlattenSeq(c) /\ Split(s) = FlattenSeq(a) /\ Split(t) = FlattenSeq(b)
  BY DEF Split, Words, WordAt, Starts, a, b, c
<1>11. QED
  BY <1>7, <1>8, <1>9, <1>10 DEF w

LEMMA NormalizedAtSpace ==
  ASSUME NEW s \in Text, NEW t \in Text
  PROVE  Normalized(Append(s, Space) \o t) = Append(Normalized(s), Space) \o Normalized(t)
<1> DEFINE E == LatinTerminators
           S == Char \ E
           a == Without(s, E)
           b == Without(t, E)
           w == Append(a, Space) \o b
<1>1. Space \in Char /\ Space \notin E
  BY CharClasses
<1>2. s \in Seq(Char) /\ t \in Seq(Char) /\ Append(s, Space) \in Seq(Char)
  BY <1>1, AppendText DEF Text
<1> HIDE DEF E, a, b, w
<1>3. Without(Append(s, Space) \o t, E) = Without(Append(s, Space), E) \o b
  <2> DEFINE x == Append(s, Space)
  <2>1. x \in Seq(Char)
    BY <1>2
  <2> HIDE DEF x
  <2>2. Without(x \o t, E) = Without(x, E) \o Without(t, E)
    BY <1>2, <2>1, WithoutConcat
  <2>3. QED
    BY <2>2 DEF x, b
<1>4. Without(Append(s, Space), E) = a \o <<Space>>
  BY <1>1, <1>2, WithoutAppend DEF a, Left
<1>5. a \in Text /\ b \in Text
  <2>1. a \in Seq(S) /\ b \in Seq(S) /\ S \subseteq Char
    BY <1>2, WithoutType DEF a, b
  <2>2. QED
    BY <2>1, SeqMonotonic DEF Text
<1>6. a \o <<Space>> = Append(a, Space)
  BY <1>1, <1>5, TextConcat
<1>7. Without(Append(s, Space) \o t, E) = w
  BY <1>3, <1>4, <1>6 DEF w
<1>8. Lowered(w) = Append(Lowered(a), Space) \o Lowered(b)
  <2>1. /\ w \in Text /\ Len(a) \in Nat /\ Len(b) \in Nat /\ Len(w) = Len(a) + 1 + Len(b)
        /\ \A i \in 1..Len(a) : w[i] = a[i]
        /\ w[Len(a) + 1] = Space
        /\ \A i \in 1..Len(b) : w[Len(a) + 1 + i] = b[i]
    BY <1>5, SpacedElements DEF w
  <2> DEFINE la == Lowered(a)
             lb == Lowered(b)
             lw == Lowered(w)
             z  == Append(la, Space) \o lb
             L(c) == IF c = "A" THEN "a" ELSE c
  <2>2. L(Space) = Space
    BY DEF Space
  <2>3. \A x \in Text : /\ Lowered(x) \in Text /\ Len(Lowered(x)) = Len(x)
                        /\ \A i \in 1..Len(x) : Lowered(x)[i] = L(x[i])
    <3> TAKE x \in Text
    <3>1. Lowered(x) \in Text /\ DOMAIN x = 1..Len(x) /\ Len(x) \in Nat
      BY LoweredType, TextLength
    <3>2. \A i \in 1..Len(x) : Lowered(x)[i] = L(x[i])
      BY <3>1 DEF Lowered
    <3>3. DOMAIN Lowered(x) = 1..Len(x)
      BY <3>1 DEF Lowered
    <3>4. DOMAIN Lowered(x) = 1..Len(Lowered(x)) /\ Len(Lowered(x)) \in Nat
      BY <3>1, TextLength
    <3>5. QED
      BY <3>1, <3>2, <3>3, <3>4
  <2> HIDE DEF L
  <2>4. /\ la \in Text /\ Len(la) = Len(a) /\ lb \in Text /\ Len(lb) = Len(b)
        /\ lw \in Text /\ Len(lw) = Len(w)
        /\ \A i \in 1..Len(a) : la[i] = L(a[i])
        /\ \A i \in 1..Len(b) : lb[i] = L(b[i])
        /\ \A i \in 1..Len(w) : lw[i] = L(w[i])
    BY <1>5, <2>1, <2>3
  <2> HIDE DEF la, lb, lw
  <2>5. /\ z \in Text /\ Len(z) = Len(la) + 1 + Len(lb)
        /\ \A i \in 1..Len(la) : z[i] = la[i]
        /\ z[Len(la) + 1] = Space
        /\ \A i \in 1..Len(lb) : z[Len(la) + 1 + i] = lb[i]
    BY <2>4, SpacedElements
  <2> HIDE DEF z
  <2>6. ASSUME NEW i \in 1..Len(lw) PROVE lw[i] = z[i]
    <3>1. i \in 1..Len(w)
      BY <2>4
    <3>2. CASE i \in 1..Len(a)
      BY <2>1, <2>4, <2>5, <3>1, <3>2
    <3>3. CASE i = Len(a) + 1
      BY <2>1, <2>2, <2>4, <2>5, <3>1, <3>3
    <3>4. CASE i > Len(a) + 1
      <4> DEFINE k == i - (Len(a) + 1)
      <4>1. k \in 1..Len(b) /\ Len(a) + 1 + k = i
        BY <2>1, <3>1, <3>4
      <4> HIDE DEF k
      <4>2. w[i] = b[k] /\ z[i] = lb[k]
        BY <2>1, <2>4, <2>5, <4>1
      <4>3. QED
        BY <2>4, <3>1, <4>1, <4>2
    <3>5. QED
      BY <2>1, <3>1, <3>2, <3>3, <3>4
  <2>7. Len(lw) = Len(z)
    BY <2>1, <2>4, <2>5
  <2>8. lw = z
    <3>1. lw \in Seq(Char) /\ z \in Seq(Char)
      BY <2>4, <2>5 DEF Text
    <3>2. QED
      BY <2>6, <2>7, <3>1, SeqEqual
  <2>9. QED
    BY <2>8 DEF z, la, lb, lw
<1>9. QED
  BY <1>7, <1>8 DEF Normalized, a, b, E

(* The words on both sides of a space. *)
LEMMA TokenizeAtSpace ==
  ASSUME NEW s \in Text, NEW t \in Text
  PROVE  Tokenize(Append(s, Space) \o t) = Tokenize(s) \o Tokenize(t)
<1>1. Normalized(s) \in Text /\ Normalized(t) \in Text
  BY NormalizedType
<1>2. QED
  BY <1>1, NormalizedAtSpace, SplitAtSpace DEF Tokenize

LEMMA TokenizeType ==
  ASSUME NEW t \in Text
  PROVE  /\ Tokenize(t) \in Seq(Text)
         /\ <<>> \o Tokenize(t) = Tokenize(t) /\ Tokenize(t) \o <<>> = Tokenize(t)
<1>1. Tokenize(t) \in Seq(Text)
  BY NormalizedType, SplitType DEF Tokenize
<1>2. QED
  BY <1>1, ConcatEmptySeq

LEMMA TokenizeEmpty == Tokenize(<<>>) = <<>>
<1>1. Without(<<>>, LatinTerminators) = <<>>
  BY WithoutEmpty
<1>2. Lowered(<<>>) = <<>>
  BY DEF Lowered
<1>3. Words(<<>>) = <<>>
  BY DEF Words
<1>4. Split(<<>>) = FlattenSeq(Words(<<>>))
  BY DEF Split, Words, WordAt, Starts
<1>5. QED
  BY <1>1, <1>2, <1>3, <1>4, FlattenEmpty DEF Tokenize, Normalized

-----------------------------------------------------------------------------
(* Spaces. *)

LEMMA EmptyOrLonger ==
  ASSUME NEW t \in Text
  PROVE  t = <<>> \/ \E x \in Text : \E c \in Char : t = Append(x, c)
<1> DEFINE P == {y \in Text : y = <<>> \/ \E x \in Text : \E c \in Char : y = Append(x, c)}
<1>1. <<>> \in P
  BY TextConcat
<1>2. \A x \in Text : x \in P => \A c \in Char : Append(x, c) \in P
  BY AppendText
<1> HIDE DEF P
<1>3. \A y \in Text : y \in P
  BY <1>1, <1>2, TextsByLength
<1> USE DEF P
<1>4. QED
  BY <1>3

LEMMA SpacesEnd ==
  ASSUME NEW a \in Text, NonSpaces(a) = {}
  PROVE  a = <<>> \/ \E x \in Text : a = Append(x, Space) /\ NonSpaces(x) = {}
<1>1. ASSUME NEW x \in Text, NEW c \in Char, a = Append(x, c)
      PROVE  a = Append(x, Space) /\ NonSpaces(x) = {}
  <2>1. /\ Len(a) = Len(x) + 1 /\ Len(x) \in Nat /\ a[Len(x) + 1] = c
        /\ \A i \in 1..Len(x) : a[i] = x[i]
    BY <1>1, AppendText
  <2>2. \A i \in 1..Len(a) : a[i] = Space
    BY TextLength
  <2>3. c = Space
    BY <2>1, <2>2
  <2>4. \A i \in 1..Len(x) : x[i] = Space
    BY <2>1, <2>2
  <2>5. NonSpaces(x) = {}
    BY <2>4, TextLength
  <2>6. QED
    BY <1>1, <2>3, <2>5
<1>2. QED
  BY <1>1, EmptyOrLonger

(* A text that begins with a space, after another. *)
LEMMA SpaceFirst ==
  ASSUME NEW y \in Text, y # <<>>, y[1] = Space
  PROVE  /\ Tail(y) \in Text /\ Len(Tail(y)) = Len(y) - 1
         /\ \A i \in 1..Len(Tail(y)) : Tail(y)[i] = y[i + 1]
         /\ \A x \in Text : x \o y = Append(x, Space) \o Tail(y)
<1>1. /\ y \in Seq(Char) /\ Len(y) \in Nat /\ Len(y) > 0
  BY EmptySeq DEF Text
<1>2. /\ Tail(y) \in Text /\ Len(Tail(y)) = Len(y) - 1
      /\ \A i \in 1..Len(Tail(y)) : Tail(y)[i] = y[i + 1]
  BY <1>1 DEF Text
<1>3. y = <<Space>> \o Tail(y)
  <2>1. y = <<Head(y)>> \o Tail(y)
    BY <1>1
  <2>2. Head(y) = Space
    BY <1>1
  <2>3. QED
    BY <2>1, <2>2
<1>4. ASSUME NEW x \in Text PROVE x \o y = Append(x, Space) \o Tail(y)
  <2> DEFINE a == <<Space>>
             b == Tail(y)
  <2>1. a \in Text /\ Append(x, Space) = x \o a
    BY CharClasses, TextConcat
  <2>2. b \in Text /\ y = a \o b
    BY <1>2, <1>3
  <2> HIDE DEF a, b
  <2>3. (x \o a) \o b = x \o (a \o b)
    BY <2>1, <2>2, TextAssociative, ZenonT(60)
  <2>4. QED
    BY <2>1, <2>2, <2>3 DEF b
<1>5. QED
  BY <1>2, <1>4

LEMMA TokenizeSpaces == \A a \in Text : NonSpaces(a) = {} => Tokenize(a) = <<>>
<1> DEFINE P == {a \in Text : NonSpaces(a) = {} => Tokenize(a) = <<>>}
<1>1. <<>> \in P
  BY TokenizeEmpty, TextConcat
<1>2. ASSUME NEW x \in Text, x \in P, NEW c \in Char PROVE Append(x, c) \in P
  <2> SUFFICES ASSUME NonSpaces(Append(x, c)) = {} PROVE Tokenize(Append(x, c)) = <<>>
    BY AppendText
  <2>1. Append(x, c) \in Text /\ Append(x, c) # <<>>
    BY AppendText
  <2>2. PICK y \in Text : Append(x, c) = Append(y, Space) /\ NonSpaces(y) = {}
    BY <2>1, SpacesEnd
  <2>3. x = y /\ c = Space
    BY <2>2, AppendInjective DEF Text
  <2>4. Append(x, Space) \o <<>> = Append(x, Space)
    BY <2>1, <2>3, TextConcat
  <2>5. Tokenize(Append(x, Space) \o <<>>) = Tokenize(x) \o Tokenize(<<>>)
    BY TokenizeAtSpace, TextConcat
  <2>6. Tokenize(x) = <<>>
    BY <1>2, <2>2, <2>3
  <2>7. <<>> \o <<>> = <<>>
    BY TextConcat
  <2>8. QED
    BY <2>3, <2>4, <2>5, <2>6, <2>7, TokenizeEmpty
<1> HIDE DEF P
<1>3. \A a \in Text : a \in P
  BY <1>1, <1>2, TextsByLength
<1> USE DEF P
<1>4. QED
  BY <1>3

LEMMA TokenizeAround ==
  ASSUME NEW a \in Text, NEW x \in Text, NonSpaces(a) = {}
  PROVE  Tokenize(a \o x) = Tokenize(x) /\ Tokenize(x \o a) = Tokenize(x)
<1>1. Tokenize(a \o x) = Tokenize(x)
  <2>1. CASE a = <<>>
    BY <2>1, TextConcat
  <2>2. CASE a # <<>>
    <3>1. PICK y \in Text : a = Append(y, Space) /\ NonSpaces(y) = {}
      BY <2>2, SpacesEnd
    <3>2. Tokenize(Append(y, Space) \o x) = Tokenize(y) \o Tokenize(x)
      BY TokenizeAtSpace
    <3>3. QED
      BY <3>1, <3>2, TokenizeSpaces, TokenizeType
  <2>3. QED
    BY <2>1, <2>2
<1>2. Tokenize(x \o a) = Tokenize(x)
  <2>1. CASE a = <<>>
    BY <2>1, TextConcat
  <2>2. CASE a # <<>>
    <3>1. Len(a) \in Nat /\ Len(a) > 0 /\ \A i \in 1..Len(a) : a[i] = Space
      BY <2>2, TextLength, EmptySeq
    <3>2. /\ Tail(a) \in Text /\ x \o a = Append(x, Space) \o Tail(a)
          /\ Len(Tail(a)) = Len(a) - 1 /\ \A i \in 1..Len(Tail(a)) : Tail(a)[i] = a[i + 1]
      BY <2>2, <3>1, SpaceFirst
    <3>3. NonSpaces(Tail(a)) = {}
      <4>1. \A i \in 1..Len(Tail(a)) : i + 1 \in 1..Len(a)
        BY <3>1, <3>2
      <4>2. \A i \in 1..Len(Tail(a)) : Tail(a)[i] = Space
        BY <3>1, <3>2, <4>1
      <4>3. NonSpaces(Tail(a)) = {i \in 1..Len(Tail(a)) : Tail(a)[i] # Space}
        BY <3>2, TextLength
      <4>4. QED
        BY <4>2, <4>3
    <3>4. Tokenize(Append(x, Space) \o Tail(a)) = Tokenize(x) \o Tokenize(Tail(a))
      BY <3>2, TokenizeAtSpace
    <3>5. QED
      BY <3>2, <3>3, <3>4, TokenizeSpaces, TokenizeType
  <2>3. QED
    BY <2>1, <2>2
<1>3. QED
  BY <1>1, <1>2

(* What stripping takes. *)
LEMMA LStripParts ==
  ASSUME NEW t \in Text
  PROVE  \E a \in Text : NonSpaces(a) = {} /\ t = a \o LStrip(t)
<1>1. CASE NonSpaces(t) = {}
  BY <1>1, TextConcat DEF LStrip
<1>2. CASE NonSpaces(t) # {}
  <2> DEFINE n == Min(NonSpaces(t)) - 1
             s == SubSeq(t, 1, n)
             u == SubSeq(t, n + 1, Len(t))
  <2>1. Len(t) \in Nat
    BY TextLength
  <2>2. /\ Min(NonSpaces(t)) \in 1..Len(t)
        /\ \A i \in 1..Len(t) : t[i] # Space => Min(NonSpaces(t)) <= i
    BY <1>2, NonSpacesType
  <2>3. n \in 0..Len(t) /\ n + 1 = Min(NonSpaces(t)) /\ \A i \in 1..n : t[i] = Space
    BY <2>1, <2>2
  <2>4. LStrip(t) = u
    BY <1>2, <2>3 DEF LStrip
  <2> HIDE DEF n
  <2>5. s \in Text /\ Len(s) = n /\ \A i \in 1..n : s[i] = t[i]
    BY <2>3, TwoParts
  <2>6. s \o u = t
    <3>1. 1 \in 1..(Len(t) + 1) /\ n \in (1 - 1)..Len(t) /\ Len(t) \in n..Len(t)
      BY <2>1, <2>3
    <3>2. s \o u = SubSeq(t, 1, Len(t))
      BY <2>1, <3>1, ConcatAdjacentSubSeq DEF Text
    <3>3. QED
      BY <3>2, SubSeqFull DEF Text
  <2> HIDE DEF s, u
  <2>7. NonSpaces(s) = {}
    BY <2>3, <2>5, TextLength
  <2>8. QED
    BY <2>4, <2>5, <2>6, <2>7
<1>3. QED
  BY <1>1, <1>2

LEMMA StripParts ==
  ASSUME NEW t \in Text
  PROVE  \E u \in Text : \E b \in Text : NonSpaces(b) = {} /\ t = u \o b /\ Strip(t) = LStrip(u)
<1>1. CASE NonSpaces(t) = {}
  <2>1. <<>> \in Text /\ t \o <<>> = t /\ NonSpaces(<<>>) = {}
    BY TextConcat DEF NonSpaces
  <2>2. Strip(t) = LStrip(t)
    BY <1>1 DEF Strip, LStrip
  <2>3. QED
    BY <2>1, <2>2
<1>2. CASE NonSpaces(t) # {}
  <2> DEFINE m == Max(NonSpaces(t))
             u == SubSeq(t, 1, m)
             v == SubSeq(t, m + 1, Len(t))
  <2>1. Len(t) \in Nat
    BY TextLength
  <2>2. /\ m \in 1..Len(t) /\ Min(NonSpaces(t)) \in 1..Len(t) /\ Min(NonSpaces(t)) <= m
        /\ \A i \in 1..Len(t) : t[i] # Space => i <= m
    BY <1>2, NonSpacesType
  <2>3. m \in 0..Len(t) /\ \A i \in 1..(Len(t) - m) : t[m + i] = Space
    BY <2>1, <2>2
  <2> HIDE DEF m
  <2>4. /\ u \in Text /\ Len(u) = m /\ v \in Text /\ Len(v) = Len(t) - m
        /\ \A i \in 1..m : u[i] = t[i]
        /\ \A i \in 1..(Len(t) - m) : v[i] = t[m + i]
    BY <2>3, TwoParts
  <2>5. u \o v = t
    <3>1. 1 \in 1..(Len(t) + 1) /\ m \in (1 - 1)..Len(t) /\ Len(t) \in m..Len(t)
      BY <2>1, <2>3
    <3>2. u \o v = SubSeq(t, 1, Len(t))
      BY <2>1, <3>1, ConcatAdjacentSubSeq DEF Text
    <3>3. QED
      BY <3>2, SubSeqFull DEF Text
  <2>6. NonSpaces(v) = {}
    BY <2>3, <2>4, TextLength
  <2>7. NonSpaces(u) = NonSpaces(t)
    <3>1. NonSpaces(u) = {i \in 1..m : u[i] # Space}
          /\ NonSpaces(t) = {i \in 1..Len(t) : t[i] # Space}
      BY <2>4, TextLength
    <3>2. \A i \in 1..m : i \in 1..Len(t) /\ u[i] = t[i]
      BY <2>1, <2>2, <2>4
    <3>3. \A i \in 1..Len(t) : t[i] # Space => i \in 1..m
      BY <2>2
    <3>4. QED
      BY <3>1, <3>2, <3>3
  <2>8. LStrip(u) = SubSeq(u, Min(NonSpaces(t)), m)
    BY <1>2, <2>4, <2>7 DEF LStrip
  <2>9. Strip(t) = SubSeq(t, Min(NonSpaces(t)), m)
    BY <1>2 DEF Strip, m
  <2>10. SubSeq(u, Min(NonSpaces(t)), m) = SubSeq(t, Min(NonSpaces(t)), m)
    <3> DEFINE k == Min(NonSpaces(t))
    <3>1. k \in 1..m /\ m \in Nat
      BY <2>2
    <3> HIDE DEF k, u
    <3>2. \A i \in k..m : u[i] = t[i]
      BY <2>4, <3>1
    <3>3. SubSeq(u, k, m) = SubSeq(t, k, m)
      BY <3>1, <3>2
    <3>4. QED
      BY <3>3 DEF k
  <2> HIDE DEF u, v
  <2>11. QED
    BY <2>4, <2>5, <2>6, <2>8, <2>9, <2>10
<1>3. QED
  BY <1>1, <1>2

(* Stripping keeps the words. *)
LEMMA TokenizeStrip ==
  ASSUME NEW t \in Text
  PROVE  Tokenize(Strip(t)) = Tokenize(t)
<1>1. PICK u \in Text, b \in Text : NonSpaces(b) = {} /\ t = u \o b /\ Strip(t) = LStrip(u)
  BY StripParts
<1>2. PICK a \in Text : NonSpaces(a) = {} /\ u = a \o LStrip(u)
  BY LStripParts
<1>3. LStrip(u) \in Text
  BY LStripKeeps
<1>4. Tokenize(u \o b) = Tokenize(u)
  BY <1>1, TokenizeAround
<1>5. Tokenize(a \o LStrip(u)) = Tokenize(LStrip(u))
  BY <1>2, <1>3, TokenizeAround
<1>6. QED
  BY <1>1, <1>2, <1>4, <1>5

(* Spaces in front of what is unglued. *)
LEMMA UngluedAfterSpaces ==
  ASSUME NEW a \in Text, NonSpaces(a) = {}, NEW x \in Text
  PROVE  Tokenize(Unglued(a \o x)) = Tokenize(Unglued(x))
<1>1. CASE a = <<>>
  BY <1>1, TextConcat
<1>2. CASE a # <<>>
  <2>1. PICK y \in Text : a = Append(y, Space) /\ NonSpaces(y) = {}
    BY <1>2, SpacesEnd
  <2>2. Unglued(a \o x) = Append(Unglued(y), Space) \o Unglued(x)
    BY <2>1, UngluedAtSpace
  <2>3. Unglued(y) \in Text /\ Unglued(x) \in Text
    BY UngluedType
  <2>4. Tokenize(Unglued(a \o x)) = Tokenize(Unglued(y)) \o Tokenize(Unglued(x))
    BY <2>2, <2>3, TokenizeAtSpace
  <2>5. Unglued(y) = y
    <3>1. NoGlue(y)
      <4>1. \A i \in 1..Len(y) : y[i] = Space
        BY <2>1, TextLength
      <4>2. QED
        BY <4>1, CharClasses DEF NoGlue, IsGlued
    <3>2. QED
      BY <3>1, NothingToUnglue
  <2>6. Tokenize(y) = <<>>
    BY <2>1, TokenizeSpaces
  <2>7. QED
    BY <2>3, <2>4, <2>5, <2>6, TokenizeType
<1>3. QED
  BY <1>1, <1>2

-----------------------------------------------------------------------------
(* Texts without CJK, and texts with enough spaces. *)

(* A space in every stretch as long as the chunker's limit. *)
ShortRuns(t) ==
  \A i \in 1..Len(t) :
    i + MaxChars - 1 <= Len(t) => \E k \in i..(i + MaxChars - 1) : t[k] = Space

(* No character of it is CJK. *)
Latin(t) == \A i \in 1..Len(t) : t[i] \notin Cjk

LEMMA ConcatText ==
  ASSUME NEW s \in Text, NEW t \in Text
  PROVE  /\ s \o t \in Text /\ Len(s) \in Nat /\ Len(t) \in Nat
         /\ Len(s \o t) = Len(s) + Len(t)
         /\ \A i \in 1..Len(s) : (s \o t)[i] = s[i]
         /\ \A i \in 1..Len(t) : (s \o t)[Len(s) + i] = t[i]
BY DEF Text

LEMMA LatinConcat ==
  ASSUME NEW s \in Text, NEW t \in Text
  PROVE  Latin(s \o t) <=> Latin(s) /\ Latin(t)
<1> DEFINE w == s \o t
<1>1. /\ w \in Text /\ Len(s) \in Nat /\ Len(t) \in Nat
      /\ Len(w) = Len(s) + Len(t)
      /\ \A i \in 1..Len(s) : w[i] = s[i]
      /\ \A i \in 1..Len(t) : w[Len(s) + i] = t[i]
  BY ConcatText
<1> HIDE DEF w
<1>2. ASSUME Latin(w) PROVE Latin(s) /\ Latin(t)
  <2>1. \A i \in 1..Len(s) : i \in 1..Len(w)
    BY <1>1
  <2>2. \A i \in 1..Len(t) : Len(s) + i \in 1..Len(w)
    BY <1>1
  <2>3. QED
    BY <1>1, <1>2, <2>1, <2>2 DEF Latin
<1>3. ASSUME Latin(s), Latin(t) PROVE Latin(w)
  <2>1. ASSUME NEW i \in 1..Len(w) PROVE w[i] \notin Cjk
    <3>1. CASE i <= Len(s)
      BY <1>1, <1>3, <3>1 DEF Latin
    <3>2. CASE i > Len(s)
      <4>1. i - Len(s) \in 1..Len(t) /\ Len(s) + (i - Len(s)) = i
        BY <1>1, <3>2
      <4>2. w[Len(s) + (i - Len(s))] = t[i - Len(s)]
        BY <1>1, <4>1
      <4>3. QED
        BY <1>3, <4>1, <4>2 DEF Latin
    <3>3. QED
      BY <1>1, <3>1, <3>2
  <2>2. QED
    BY <2>1 DEF Latin
<1>4. QED
  BY <1>2, <1>3 DEF w

LEMMA LatinOne ==
  ASSUME NEW x \in Text, NEW c \in Char
  PROVE  Latin(Append(x, c)) <=> Latin(x) /\ c \notin Cjk
<1>1. <<c>> \in Text /\ Append(x, c) = x \o <<c>>
  BY TextConcat
<1>2. Latin(<<c>>) <=> c \notin Cjk
  BY DEF Latin
<1>3. QED
  BY <1>1, <1>2, LatinConcat

LEMMA LatinUnglued == \A x \in Text : Latin(x) => Latin(Unglued(x))
<1> DEFINE P == {x \in Text : Latin(x) => Latin(Unglued(x))}
<1>1. <<>> \in P
  BY UngluedEmpty, TextConcat
<1>2. ASSUME NEW x \in Text, x \in P, NEW c \in Char PROVE Append(x, c) \in P
  <2> SUFFICES ASSUME Latin(Append(x, c)) PROVE Latin(Unglued(Append(x, c)))
    BY AppendText
  <2> DEFINE y == Unglued(x)
  <2>1. Latin(x) /\ c \notin Cjk
    BY LatinOne
  <2>2. y \in Text /\ Latin(y)
    BY <1>2, <2>1, UngluedType
  <2>3. Unglued(Append(x, c)) = y \o Glue(x, c)
    BY UngluedAppend
  <2>4. Space \in Char /\ Space \notin Cjk
    BY CharClasses DEF Space, Cjk
  <2> HIDE DEF y
  <2>5. CASE y \o Glue(x, c) = Append(y, c)
    BY <2>1, <2>2, <2>3, <2>5, LatinOne
  <2>6. CASE y \o Glue(x, c) = Append(Append(y, Space), c)
    <3> DEFINE z == Append(y, Space)
    <3>1. z \in Text /\ Latin(z)
      BY <2>2, <2>4, LatinOne, AppendText
    <3> HIDE DEF z
    <3>2. Latin(Append(z, c))
      BY <2>1, <3>1, LatinOne
    <3>3. QED
      BY <2>3, <2>6, <3>2 DEF z
  <2>7. QED
    BY <2>2, <2>5, <2>6, GlueAppends
<1> HIDE DEF P
<1>3. \A x \in Text : x \in P
  BY <1>1, <1>2, TextsByLength
<1> USE DEF P
<1>4. QED
  BY <1>3

-----------------------------------------------------------------------------
(* The spaces stay where a part is dropped, cut off or unglued. *)

LEMMA Limit == MaxChars \in Nat /\ MaxChars > 0
BY ChunkerAssumption DEF ChunkerAssumption

LEMMA ShortRunsAfter ==
  ASSUME NEW s \in Text, NEW t \in Text, ShortRuns(s \o t)
  PROVE  ShortRuns(t)
<1> DEFINE w == s \o t
           M == MaxChars
<1>1. /\ w \in Text /\ Len(s) \in Nat /\ Len(t) \in Nat /\ M \in Nat /\ M > 0
      /\ Len(w) = Len(s) + Len(t)
      /\ \A i \in 1..Len(t) : w[Len(s) + i] = t[i]
  BY ConcatText, Limit
<1>2. ShortRuns(w)
  OBVIOUS
<1> HIDE DEF w, M
<1>3. ASSUME NEW i \in 1..Len(t), i + M - 1 <= Len(t)
      PROVE  \E k \in i..(i + M - 1) : t[k] = Space
  <2>1. Len(s) + i \in 1..Len(w) /\ (Len(s) + i) + M - 1 <= Len(w)
    BY <1>1, <1>3
  <2>2. PICK k \in (Len(s) + i)..((Len(s) + i) + M - 1) : w[k] = Space
    BY <1>2, <2>1 DEF ShortRuns, M
  <2>3. k - Len(s) \in i..(i + M - 1) /\ k - Len(s) \in 1..Len(t) /\ Len(s) + (k - Len(s)) = k
    BY <1>1, <1>3, <2>2
  <2>4. t[k - Len(s)] = Space
    BY <1>1, <2>2, <2>3
  <2>5. QED
    BY <2>3, <2>4
<1>4. QED
  BY <1>3 DEF ShortRuns, M

LEMMA ShortRunsSpaced ==
  ASSUME NEW s \in Text, NEW t \in Text, ShortRuns(s \o t)
  PROVE  ShortRuns(Append(s, Space) \o t)
<1> DEFINE w == s \o t
           z == Append(s, Space) \o t
           M == MaxChars
           m == Len(s)
<1>1. /\ w \in Text /\ m \in Nat /\ Len(t) \in Nat /\ M \in Nat /\ M > 0
      /\ Len(w) = m + Len(t)
      /\ \A i \in 1..m : w[i] = s[i]
      /\ \A i \in 1..Len(t) : w[m + i] = t[i]
  BY ConcatText, Limit
<1>2. /\ Len(z) = m + 1 + Len(t)
      /\ \A i \in 1..m : z[i] = s[i]
      /\ z[m + 1] = Space
      /\ \A i \in 1..Len(t) : z[m + 1 + i] = t[i]
  BY SpacedElements
<1>3. ShortRuns(w)
  OBVIOUS
<1> HIDE DEF w, z, M, m
<1>4. ASSUME NEW i \in 1..Len(z), i + M - 1 <= Len(z)
      PROVE  \E k \in i..(i + M - 1) : z[k] = Space
  <2>1. CASE i + M - 1 <= m
    <3>1. i \in 1..Len(w) /\ i + M - 1 <= Len(w)
      BY <1>1, <2>1
    <3>2. PICK k \in i..(i + M - 1) : w[k] = Space
      BY <1>3, <3>1 DEF ShortRuns, M
    <3>3. k \in 1..m
      BY <1>1, <2>1, <3>2
    <3>4. z[k] = Space
      BY <1>1, <1>2, <3>2, <3>3
    <3>5. QED
      BY <3>4
  <2>2. CASE i <= m + 1 /\ i + M - 1 > m
    <3>1. m + 1 \in i..(i + M - 1)
      BY <1>1, <2>2
    <3>2. QED
      BY <1>2, <3>1
  <2>3. CASE i > m + 1
    <3>1. i - 1 \in 1..Len(w) /\ (i - 1) + M - 1 <= Len(w)
      BY <1>1, <1>2, <1>4, <2>3
    <3>2. PICK k \in (i - 1)..((i - 1) + M - 1) : w[k] = Space
      BY <1>3, <3>1 DEF ShortRuns, M
    <3>3. k - m \in 1..Len(t) /\ m + (k - m) = k /\ m + 1 + (k - m) = k + 1
          /\ k + 1 \in i..(i + M - 1)
      BY <1>1, <2>3, <3>1, <3>2
    <3>4. w[m + (k - m)] = t[k - m] /\ z[m + 1 + (k - m)] = t[k - m]
      BY <1>1, <1>2, <3>3
    <3>5. z[k + 1] = Space
      BY <3>2, <3>3, <3>4
    <3>6. QED
      BY <3>3, <3>5
  <2>4. QED
    BY <1>1, <2>1, <2>2, <2>3
<1>5. QED
  BY <1>4 DEF ShortRuns, M, z

LEMMA AppendThenConcat ==
  ASSUME NEW x \in Text, NEW c \in Char, NEW v \in Text
  PROVE  <<c>> \o v \in Text /\ Append(x, c) \o v = x \o (<<c>> \o v)
<1> DEFINE a == <<c>>
<1>1. a \in Text /\ Append(x, c) = x \o a
  BY TextConcat
<1> HIDE DEF a
<1>2. (x \o a) \o v = x \o (a \o v)
  BY <1>1, TextAssociative, ZenonT(60)
<1>3. a \o v \in Text
  BY <1>1, TextConcat
<1>4. QED
  BY <1>1, <1>2, <1>3 DEF a

LEMMA ShortRunsUnglued ==
  \A x \in Text : \A v \in Text : ShortRuns(x \o v) => ShortRuns(Unglued(x) \o v)
<1> DEFINE P == {x \in Text : \A v \in Text : ShortRuns(x \o v) => ShortRuns(Unglued(x) \o v)}
<1>1. <<>> \in P
  BY UngluedEmpty, TextConcat
<1>2. ASSUME NEW x \in Text, x \in P, NEW c \in Char PROVE Append(x, c) \in P
  <2>1. ASSUME NEW v \in Text, ShortRuns(Append(x, c) \o v)
        PROVE  ShortRuns(Unglued(Append(x, c)) \o v)
    <3> DEFINE y == Unglued(x)
               q == <<c>> \o v
    <3>1. q \in Text /\ Append(x, c) \o v = x \o q
      BY AppendThenConcat
    <3>2. y \in Text
      BY UngluedType
    <3> HIDE DEF q
    <3>3. ShortRuns(y \o q)
      BY <1>2, <2>1, <3>1
    <3>4. Unglued(Append(x, c)) = y \o Glue(x, c)
      BY UngluedAppend
    <3> HIDE DEF y, P
    <3>5. CASE y \o Glue(x, c) = Append(y, c)
      <4>1. Append(y, c) \o v = y \o q
        BY <3>2, AppendThenConcat DEF q
      <4>2. QED
        BY <3>3, <3>4, <3>5, <4>1
    <3>6. CASE y \o Glue(x, c) = Append(Append(y, Space), c)
      <4> DEFINE z == Append(y, Space)
      <4>1. z \in Text
        BY <3>2, CharClasses, AppendText
      <4>2. ShortRuns(z \o q)
        BY <3>1, <3>2, <3>3, ShortRunsSpaced
      <4> HIDE DEF z
      <4>3. Append(z, c) \o v = z \o q
        BY <4>1, AppendThenConcat DEF q
      <4>4. QED
        BY <3>4, <3>6, <4>2, <4>3 DEF z
    <3>7. QED
      BY <3>2, <3>5, <3>6, GlueAppends
  <2>2. QED
    BY <2>1, AppendText
<1> HIDE DEF P
<1>3. \A x \in Text : x \in P
  BY <1>1, <1>2, TextsByLength
<1> USE DEF P
<1>4. QED
  BY <1>3

(* Words shorter than the limit leave a space in every such stretch. *)
LEMMA ShortWordsShortRuns ==
  ASSUME NEW t \in Text, \A w \in ToSet(Split(t)) : Len(w) < MaxChars
  PROVE  ShortRuns(t)
<1> DEFINE M == MaxChars
<1>1. M \in Nat /\ M > 0 /\ Len(t) \in Nat /\ DOMAIN t = 1..Len(t)
  BY Limit, TextLength
<1>2. NonSpaces(t) = {k \in 1..Len(t) : t[k] # Space}
  BY TextLength
<1> HIDE DEF M
<1> SUFFICES ASSUME NEW i \in 1..Len(t), i + M - 1 <= Len(t),
                    \A k \in i..(i + M - 1) : t[k] # Space
             PROVE  FALSE
  BY DEF ShortRuns, M
<1> DEFINE B == {0} \cup {k \in 1..(i - 1) : t[k] = Space}
           b == Max(B)
           s == b + 1
           n == i + M - 1
<1>3. B \in SUBSET (0..(i - 1)) /\ B # {} /\ i - 1 \in Nat
  OBVIOUS
<1>4. b \in B /\ \A k \in B : k <= b
  <2> HIDE DEF B
  <2>1. QED
    BY <1>3, MaxIsGreatest
<1>5. b \in 0..(i - 1) /\ (b = 0 \/ t[b] = Space)
  BY <1>3, <1>4
<1>6. \A k \in 1..(i - 1) : k > b => t[k] # Space
  <2> TAKE k \in 1..(i - 1)
  <2>1. t[k] = Space => k \in B
    OBVIOUS
  <2> HIDE DEF B
  <2>2. QED
    BY <1>4, <1>5, <2>1
<1> HIDE DEF B, b
<1>7. ASSUME NEW k \in s..n PROVE k \in NonSpaces(t)
  <2>1. k \in 1..Len(t)
    BY <1>1, <1>5
  <2>2. t[k] # Space
    <3>1. CASE k < i
      BY <1>5, <1>6, <2>1, <3>1
    <3>2. CASE k >= i
      BY <1>1, <1>5, <2>1, <3>2
    <3>3. QED
      BY <2>1, <3>1, <3>2
  <2>3. QED
    BY <1>2, <2>1, <2>2
<1>8. s \in 1..i /\ n \in s..Len(t)
  BY <1>1, <1>5
<1>9. s \in NonSpaces(t) /\ (s = 1 \/ t[s - 1] = Space)
  <2>1. s \in s..n
    BY <1>8
  <2>2. s - 1 = b
    BY <1>5
  <2>3. QED
    BY <1>5, <1>7, <2>1, <2>2
<1>10. s \in Starts(t)
  BY <1>9 DEF Starts
<1>11. n \in Ends(t, s)
  BY <1>7, <1>8 DEF Ends
<1> DEFINE e == WordEnd(t, s)
           w == WordAt(t, s)
<1>12. n <= e /\ e \in s..Len(t)
  BY <1>9, <1>11, WordEndIs
<1>13. w = SubSeq(t, s, e)
  BY DEF WordAt, WordEnd, Ends
<1> HIDE DEF e
<1>14. Len(w) = e - s + 1
  <2>1. \A k \in s..e : t[k] \in Char
    BY <1>1, <1>8, <1>12 DEF Text
  <2>2. s \in Int /\ e \in Int /\ s <= e
    BY <1>8, <1>12
  <2> HIDE DEF s, w
  <2>3. Len(SubSeq(t, s, e)) = e - s + 1
    BY <2>1, <2>2, SubSeqProperties
  <2>4. QED
    BY <1>13, <2>3
<1>15. w \in ToSet(Split(t))
  <2>1. Words(t) \in Seq(Seq(Text)) /\ Len(Words(t)) = Len(t)
    BY WordsType
  <2>2. s \in 1..Len(t)
    BY <1>1, <1>8
  <2>3. Words(t)[s] = <<w>>
    BY <1>1, <1>10, <2>2 DEF Words
  <2> HIDE DEF w, s
  <2>4. ToSet(Words(t)[s]) \subseteq ToSet(FlattenSeq(Words(t)))
    BY <2>1, <2>2, FlattenHolds
  <2>5. w \in ToSet(<<w>>)
    BY DEF ToSet
  <2>6. Split(t) = FlattenSeq(Words(t))
    BY DEF Split, Words, WordAt, Starts
  <2>7. QED
    BY <2>3, <2>4, <2>5, <2>6
<1>16. Len(w) < M
  BY <1>15 DEF M
<1> HIDE DEF w
<1>17. QED
  BY <1>1, <1>8, <1>12, <1>14, <1>16

-----------------------------------------------------------------------------
(* Where a clause of Latin text ends, a word does. *)

LEMMA BreakAfter ==
  ASSUME NEW t \in Text, NEW r \in Text, Latin(t), ShortRuns(t \o r),
         NEW n, n = ClauseLength(t), n # 0
  PROVE  \/ n = Len(t) /\ (r = <<>> \/ r[1] = Space)
         \/ n < Len(t) /\ t[n + 1] = Space
<1> DEFINE M == MaxChars
           w == t \o r
<1>1. /\ M \in Nat /\ M > 0 /\ Len(t) \in Nat /\ DOMAIN t = 1..Len(t) /\ n \in 0..Len(t)
      /\ Len(r) \in Nat /\ Len(w) = Len(t) + Len(r)
      /\ \A i \in 1..Len(t) : w[i] = t[i]
      /\ \A i \in 1..Len(r) : w[Len(t) + i] = r[i]
  BY Limit, ClauseLengthBounds, ConcatText, TextLength
<1>2. ShortRuns(w)
  OBVIOUS
<1> HIDE DEF M, w
<1>3. CASE Boundaries(t) # {}
  <2>1. Boundaries(t) \in SUBSET Nat
    BY <1>1 DEF Boundaries
  <2>2. Min(Boundaries(t)) \in Boundaries(t)
    BY <1>3, <2>1, MinIsLeast
  <2>3. n \in Boundaries(t)
    BY <1>3, <2>2 DEF ClauseLength
  <2>4. n \in DOMAIN t /\ EndsSentence(t, n)
    BY <2>3 DEF Boundaries
  <2>5. CjkTerminators \subseteq Cjk
    BY DEF CjkTerminators, Cjk
  <2>6. t[n] \notin CjkTerminators
    BY <1>1, <2>4, <2>5 DEF Latin
  <2>7. n < Len(t) /\ t[n + 1] = Space
    BY <2>4, <2>6 DEF EndsSentence
  <2>8. QED
    BY <2>7
<1>4. CASE Boundaries(t) = {}
  <2> DEFINE T == {0} \cup {i - 1 : i \in {j \in 1..M : t[j] = Space}}
             cut == Max(T)
  <2>1. Len(t) >= M /\ n = WordBreak(t)
    BY <1>1, <1>4 DEF ClauseLength, M
  <2>2. WordBreak(t) = IF cut = 0 THEN M ELSE cut
    BY DEF WordBreak, M
  <2>3. T \in SUBSET (0..M) /\ T # {}
    BY <1>1
  <2>4. cut \in T /\ \A x \in T : x <= cut
    <3> HIDE DEF T
    <3>1. QED
      BY <1>1, <2>3, MaxIsGreatest
  <2>5. CASE cut # 0
    <3>1. PICK i \in 1..M : t[i] = Space /\ cut = i - 1
      BY <2>4, <2>5
    <3> HIDE DEF cut
    <3>2. n = cut
      BY <2>1, <2>2, <2>5
    <3>3. n < Len(t) /\ n + 1 = i
      BY <1>1, <2>1, <3>1, <3>2
    <3>4. QED
      BY <3>1, <3>3
  <2>6. CASE cut = 0
    <3>1. \A i \in 2..M : t[i] # Space
      <4> SUFFICES ASSUME NEW i \in 2..M, t[i] = Space PROVE FALSE
        OBVIOUS
      <4>1. i \in 1..M
        BY <1>1
      <4>2. i - 1 \in T
        BY <4>1
      <4>3. i - 1 <= cut
        BY <2>4, <4>2
      <4> HIDE DEF cut, T
      <4>4. QED
        BY <2>6, <4>3
    <3>2. n = M
      BY <2>1, <2>2, <2>6
    <3> HIDE DEF cut, T
    <3>3. M + 1 <= Len(w) => w[M + 1] = Space
      <4> SUFFICES ASSUME M + 1 <= Len(w) PROVE w[M + 1] = Space
        OBVIOUS
      <4>1. 2 \in 1..Len(w) /\ 2 + M - 1 <= Len(w)
        BY <1>1
      <4>2. PICK k \in 2..(2 + M - 1) : w[k] = Space
        BY <1>2, <4>1 DEF ShortRuns, M
      <4>3. k \notin 2..M
        <5> SUFFICES ASSUME k \in 2..M PROVE FALSE
          OBVIOUS
        <5>1. k \in 1..Len(t)
          BY <1>1, <2>1
        <5>2. QED
          BY <1>1, <3>1, <4>2, <5>1
      <4>4. k = M + 1
        BY <1>1, <4>2, <4>3
      <4>5. QED
        BY <4>2, <4>4
    <3>4. CASE n < Len(t)
      <4>1. M + 1 \in 1..Len(t) /\ M + 1 <= Len(w)
        BY <1>1, <3>2, <3>4
      <4>2. t[n + 1] = Space
        BY <1>1, <3>2, <3>3, <4>1
      <4>3. QED
        BY <3>4, <4>2
    <3>5. CASE n = Len(t) /\ r # <<>>
      <4>1. Len(r) > 0
        BY <3>5, EmptySeq DEF Text
      <4>2. M + 1 <= Len(w) /\ Len(t) + 1 = M + 1 /\ 1 \in 1..Len(r)
        BY <1>1, <3>2, <3>5, <4>1
      <4>3. w[Len(t) + 1] = r[1]
        BY <1>1, <4>2
      <4>4. r[1] = Space
        BY <3>3, <4>2, <4>3
      <4>5. QED
        BY <3>5, <4>4
    <3>6. CASE n = Len(t) /\ r = <<>>
      BY <3>6
    <3>7. QED
      BY <1>1, <3>4, <3>5, <3>6
  <2> HIDE DEF cut
  <2>7. QED
    BY <2>5, <2>6
<1>5. QED
  BY <1>3, <1>4

-----------------------------------------------------------------------------
(* The words of one text, and of several one after the other. *)

WordsIn == [t \in Text |-> Tokenize(t)]

Spoken(cs) == Picked(cs, WordsIn)

LEMMA SpokenFacts ==
  /\ \A cs \in Seq(Text) : Spoken(cs) \in Seq(Text)
  /\ Spoken(<<>>) = <<>>
  /\ \A t \in Text : Spoken(<<t>>) = Tokenize(t)
  /\ \A cs, ds \in Seq(Text) : Spoken(cs \o ds) = Spoken(cs) \o Spoken(ds)
  /\ \A cs \in Seq(Text) : \A t \in Text : Spoken(Append(cs, t)) = Spoken(cs) \o Tokenize(t)
<1>1. Picker(WordsIn, Text, Text)
  BY TokenizeType DEF Picker, WordsIn
<1>2. \A cs \in Seq(Text) : Spoken(cs) \in Seq(Text)
  BY <1>1, PickedType DEF Spoken
<1>3. Spoken(<<>>) = <<>>
  BY PickedEmpty DEF Spoken
<1>4. \A t \in Text : Spoken(<<t>>) = Tokenize(t)
  <2> TAKE t \in Text
  <2>1. WordsIn[t] = Tokenize(t)
    BY DEF WordsIn
  <2>2. Picked(<<t>>, WordsIn) = WordsIn[t]
    BY <1>1, PickedOne
  <2>3. QED
    BY <2>1, <2>2 DEF Spoken
<1>5. \A cs, ds \in Seq(Text) : Spoken(cs \o ds) = Spoken(cs) \o Spoken(ds)
  BY <1>1, PickedConcat DEF Spoken
<1>6. \A cs \in Seq(Text) : \A t \in Text : Spoken(Append(cs, t)) = Spoken(cs) \o Tokenize(t)
  <2> SUFFICES ASSUME NEW cs \in Seq(Text), NEW t \in Text
               PROVE  Spoken(Append(cs, t)) = Spoken(cs) \o Tokenize(t)
    OBVIOUS
  <2>1. WordsIn[t] = Tokenize(t)
    BY DEF WordsIn
  <2>2. Picked(Append(cs, t), WordsIn) = Picked(cs, WordsIn) \o WordsIn[t]
    BY <1>1, PickedAppend
  <2>3. QED
    BY <2>1, <2>2 DEF Spoken
<1>7. QED
  BY <1>2, <1>3, <1>4, <1>5, <1>6

LEMMA WordsAssociative ==
  \A a, b, c \in Seq(Text) : (a \o b) \o c = a \o (b \o c)
BY ConcatIsAssociative DEF Associative

(* What a text comes to, once all of it is there. *)
Whole(t) == Tokenize(Unglued(t))

LEMMA WholeType == \A t \in Text : Whole(t) \in Seq(Text)
BY UngluedType, TokenizeType DEF Whole

(* One clause of Latin text: its words come first. *)
LEMMA OneClauseWords ==
  ASSUME NEW t \in Text, NEW r \in Text, NoGlue(t), Latin(t), ShortRuns(t \o r),
         NEW n, n = ClauseLength(t), n # 0,
         NEW c, c = Strip(SubSeq(t, 1, n)), NEW u, u = Rest(t, n)
  PROVE  /\ c \in Text /\ Latin(c)
         /\ u \in Text /\ NoGlue(u) /\ Latin(u) /\ ShortRuns(u \o r)
         /\ Tokenize(c) \o Whole(u \o r) = Whole(t \o r)
<1> DEFINE p == SubSeq(t, 1, n)
           q == SubSeq(t, n + 1, Len(t))
<1>1. n \in 0..Len(t) /\ Len(t) \in Nat
  BY ClauseLengthBounds, TextLength
<1>2. /\ p \in Text /\ Len(p) = n /\ q \in Text /\ Len(q) = Len(t) - n
      /\ \A i \in 1..(Len(t) - n) : q[i] = t[n + i]
  BY <1>1, TwoParts
<1>3. p \o q = t
  <2>1. 1 \in 1..(Len(t) + 1) /\ n \in (1 - 1)..Len(t) /\ Len(t) \in n..Len(t)
    BY <1>1
  <2>2. p \o q = SubSeq(t, 1, Len(t))
    BY <1>1, <2>1, ConcatAdjacentSubSeq DEF Text
  <2>3. QED
    BY <2>2, SubSeqFull DEF Text
<1>4. u = LStrip(q) /\ c = Strip(p)
  BY DEF Rest
<1> HIDE DEF p, q
<1>5. c \in Text /\ u \in Text
  BY <1>2, <1>4, StripKeeps, LStripKeeps
<1>6. PICK a \in Text : NonSpaces(a) = {} /\ q = a \o u
  BY <1>2, <1>4, LStripParts
<1>7. Latin(p) /\ Latin(q) /\ Latin(u)
  <2>1. Latin(p \o q)
    BY <1>3
  <2>2. Latin(p) /\ Latin(q)
    BY <1>2, <2>1, LatinConcat
  <2>3. Latin(a \o u)
    BY <1>6, <2>2
  <2>4. Latin(u)
    BY <1>5, <2>3, LatinConcat
  <2>5. QED
    BY <2>2, <2>4
<1>8. Latin(c)
  <2>1. PICK x \in Text, b \in Text : NonSpaces(b) = {} /\ p = x \o b /\ Strip(p) = LStrip(x)
    BY <1>2, StripParts
  <2>2. PICK d \in Text : NonSpaces(d) = {} /\ x = d \o LStrip(x)
    BY LStripParts
  <2>3. Latin(x \o b)
    BY <1>7, <2>1
  <2>4. Latin(x)
    BY <2>3, LatinConcat
  <2>5. LStrip(x) = c
    BY <1>4, <2>1
  <2>6. Latin(d \o c)
    BY <2>2, <2>4, <2>5
  <2>7. QED
    BY <1>5, <2>6, LatinConcat
<1>9. NoGlue(p) /\ NoGlue(q) /\ NoGlue(u)
  BY <1>2, <1>3, <1>5, <1>6, NoGlueParts
<1> DEFINE z == q \o r
           y == u \o r
<1>10. z \in Text /\ y \in Text /\ t \o r = p \o z /\ z = a \o y
  <2>1. z \in Text /\ y \in Text
    BY <1>2, <1>5, TextConcat
  <2>2. (p \o q) \o r = p \o (q \o r)
    BY <1>2, TextAssociative, ZenonT(60)
  <2>3. (a \o u) \o r = a \o (u \o r)
    BY <1>5, TextAssociative, ZenonT(60)
  <2>4. QED
    BY <1>3, <1>6, <2>1, <2>2, <2>3
<1>11. z = <<>> \/ z[1] = Space
  <2>1. \/ n = Len(t) /\ (r = <<>> \/ r[1] = Space)
        \/ n < Len(t) /\ t[n + 1] = Space
    BY BreakAfter
  <2>2. CASE n = Len(t)
    <3>1. q = <<>>
      BY <1>1, <1>2, <2>2, EmptySeq DEF Text
    <3>2. z = r
      BY <3>1, TextConcat
    <3>3. QED
      BY <1>1, <2>1, <2>2, <3>2
  <2>3. CASE n < Len(t)
    <3>1. 1 \in 1..Len(q) /\ q[1] = t[n + 1]
      BY <1>1, <1>2, <2>3
    <3>2. z[1] = q[1]
      BY <1>2, <3>1, ConcatText
    <3>3. QED
      BY <1>1, <2>1, <2>3, <3>1, <3>2
  <2>4. QED
    BY <1>1, <2>2, <2>3
<1> HIDE DEF z, y
<1>12. ShortRuns(y)
  <2>1. ShortRuns(p \o z)
    BY <1>10
  <2>2. ShortRuns(z)
    BY <1>2, <1>10, <2>1, ShortRunsAfter
  <2>3. ShortRuns(a \o y)
    BY <1>10, <2>2
  <2>4. QED
    BY <1>10, <2>3, ShortRunsAfter
<1>13. Tokenize(c) = Tokenize(p) /\ Unglued(p) = p
  BY <1>2, <1>4, <1>9, TokenizeStrip, NothingToUnglue
<1>14. Whole(y) = Whole(z)
  BY <1>6, <1>10, UngluedAfterSpaces DEF Whole
<1>15. Tokenize(p) \o Whole(z) = Whole(p \o z)
  <2>1. CASE z = <<>>
    <3>1. Whole(z) = <<>>
      BY <2>1, UngluedEmpty, TokenizeEmpty DEF Whole
    <3>2. Tokenize(p) \o <<>> = Tokenize(p)
      BY <1>2, TokenizeType
    <3>3. p \o z = p
      BY <1>2, <2>1, TextConcat
    <3>4. QED
      BY <1>13, <3>1, <3>2, <3>3 DEF Whole
  <2>2. CASE z # <<>> /\ z[1] = Space
    <3> DEFINE v == Tail(z)
    <3>1. v \in Text /\ p \o z = Append(p, Space) \o v
      BY <1>2, <1>10, <2>2, SpaceFirst
    <3>2. <<>> \in Text /\ <<>> \o z = Append(<<>>, Space) \o v
      BY <1>10, <2>2, SpaceFirst, TextConcat
    <3> HIDE DEF v
    <3>3. z = Append(<<>>, Space) \o v
      BY <1>10, <3>2, TextConcat
    <3>4. Unglued(p \o z) = Append(p, Space) \o Unglued(v)
      BY <1>2, <1>13, <3>1, UngluedAtSpace
    <3>5. Unglued(z) = Append(<<>>, Space) \o Unglued(v)
      BY <3>1, <3>2, <3>3, UngluedAtSpace, UngluedEmpty
    <3>6. Unglued(v) \in Text
      BY <3>1, UngluedType
    <3>7. Whole(p \o z) = Tokenize(p) \o Tokenize(Unglued(v))
      BY <1>2, <3>4, <3>6, TokenizeAtSpace DEF Whole
    <3>8. Whole(z) = Tokenize(<<>>) \o Tokenize(Unglued(v))
      BY <3>2, <3>5, <3>6, TokenizeAtSpace DEF Whole
    <3>9. Whole(z) = Tokenize(Unglued(v))
      BY <3>6, <3>8, TokenizeEmpty, TokenizeType
    <3>10. QED
      BY <3>7, <3>9
  <2>3. QED
    BY <1>11, <2>1, <2>2
<1>16. Tokenize(c) \o Whole(y) = Whole(t \o r)
  BY <1>10, <1>13, <1>14, <1>15
<1>17. QED
  BY <1>5, <1>7, <1>8, <1>9, <1>12, <1>16 DEF y

(* The loop: the words of the clauses, then those of what is left and of   *)
(* what is to come, are the words of all of it.                            *)
WordsGoOn(k, t, r) ==
  /\ \A i \in 1..Len(k.clauses) : Latin(k.clauses[i])
  /\ NoGlue(k.buffer) /\ Latin(k.buffer) /\ ShortRuns(k.buffer \o r)
  /\ Spoken(k.clauses) \o Whole(k.buffer \o r) = Whole(t \o r)

(* By induction on the length of the buffer. *)
LEMMA TakeWords ==
  ASSUME NEW r \in Text
  PROVE  \A t \in Text : NoGlue(t) /\ Latin(t) /\ ShortRuns(t \o r) => WordsGoOn(Take[t], t, r)
<1> DEFINE Right(t) == NoGlue(t) /\ Latin(t) /\ ShortRuns(t \o r) => WordsGoOn(Take[t], t, r)
           T == {m \in Nat : \E t \in Text : Len(t) = m /\ ~Right(t)}
<1> SUFFICES ASSUME T # {} PROVE FALSE
  <2>1. T = {} => \A t \in Text : Right(t)
    BY TextLength
  <2>2. QED
    BY <2>1
<1>1. PICK m \in T : \A j \in T : m <= j
  <2>1. T \in SUBSET Nat
    OBVIOUS
  <2> HIDE DEF T
  <2>2. QED
    BY <2>1, LeastNumber
<1>2. PICK t \in Text : Len(t) = m /\ ~Right(t)
  BY <1>1
<1>3. NoGlue(t) /\ Latin(t) /\ ShortRuns(t \o r) /\ ~WordsGoOn(Take[t], t, r)
  BY <1>2
<1> DEFINE n == ClauseLength(t)
<1>4. Take[t] = TakeBody(Take, t)
  BY TakeIsTheLoop
<1>5. CASE n = 0
  <2>1. Take[t] = [clauses |-> <<>>, buffer |-> t]
    BY <1>4, <1>5 DEF TakeBody
  <2>2. <<>> \o Whole(t \o r) = Whole(t \o r)
    <3>1. t \o r \in Text
      BY TextConcat
    <3>2. Whole(t \o r) \in Seq(Text)
      BY <3>1, WholeType
    <3>3. QED
      BY <3>2, ConcatEmptySeq
  <2>3. WordsGoOn([clauses |-> <<>>, buffer |-> t], t, r)
    <3>1. Spoken(<<>>) = <<>> /\ Len(<<>>) = 0
      BY SpokenFacts
    <3>2. \A i \in 1..Len(<<>>) : Latin((<<>>)[i])
      BY <3>1
    <3>3. QED
      BY <1>3, <2>2, <3>1, <3>2 DEF WordsGoOn
  <2>4. QED
    BY <1>3, <2>1, <2>3
<1>6. CASE n # 0
  <2> DEFINE c == Strip(SubSeq(t, 1, n))
             u == Rest(t, n)
             k == Take[u]
  <2>1. /\ c \in Text /\ Latin(c)
        /\ u \in Text /\ NoGlue(u) /\ Latin(u) /\ ShortRuns(u \o r)
        /\ Tokenize(c) \o Whole(u \o r) = Whole(t \o r)
    BY <1>3, <1>6, OneClauseWords
  <2>2. Len(u) \in Nat /\ Len(u) < Len(t)
    BY <1>6, RestIsShort
  <2>3. Take[t] = [clauses |-> <<c>> \o k.clauses, buffer |-> k.buffer]
    BY <1>4, <1>6 DEF TakeBody
  <2> HIDE DEF c, u
  <2>4. WordsGoOn(k, u, r)
    <3>1. ~(m <= Len(u))
      BY <1>1, <1>2, <2>2
    <3>2. Right(u)
      BY <1>1, <2>1, <2>2, <3>1
    <3>3. QED
      BY <2>1, <3>2
  <2>5. k.clauses \in Seq(Text) /\ k.buffer \in Text
    BY <2>1, TakeConserves DEF Conserves
  <2> HIDE DEF k
  <2> DEFINE x == k.clauses
             b == k.buffer
             s == Spoken(x)
             w == Whole(b \o r)
             d == Tokenize(c)
  <2>6. x \in Seq(Text) /\ b \in Text
    BY <2>5
  <2>7. s \in Seq(Text) /\ w \in Seq(Text) /\ d \in Seq(Text)
    BY <2>1, <2>6, SpokenFacts, WholeType, TextConcat, TokenizeType
  <2>8. s \o w = Whole(u \o r)
    BY <2>4 DEF WordsGoOn
  <2>9. Spoken(<<c>> \o x) = d \o s
    <3>1. <<c>> \in Seq(Text)
      BY <2>1
    <3>2. Spoken(<<c>> \o x) = Spoken(<<c>>) \o Spoken(x)
      BY <2>6, <3>1, SpokenFacts
    <3>3. Spoken(<<c>>) = Tokenize(c)
      BY <2>1, SpokenFacts
    <3>4. QED
      BY <3>2, <3>3
  <2>10. \A i \in 1..Len(<<c>> \o x) : Latin((<<c>> \o x)[i])
    <3>1. /\ Len(<<c>> \o x) = 1 + Len(x) /\ Len(x) \in Nat /\ (<<c>> \o x)[1] = c
          /\ \A i \in 1..Len(<<c>> \o x) : i > 1 => (<<c>> \o x)[i] = x[i - 1]
      BY <2>1, <2>6
    <3>2. \A i \in 1..Len(x) : Latin(x[i])
      BY <2>4 DEF WordsGoOn
    <3> DEFINE y == <<c>> \o x
    <3> HIDE DEF x, y
    <3>3. ASSUME NEW i \in 1..Len(y) PROVE Latin(y[i])
      <4>1. CASE i = 1
        BY <2>1, <3>1, <4>1 DEF y
      <4>2. CASE i > 1
        <5>1. i - 1 \in 1..Len(x) /\ y[i] = x[i - 1]
          BY <3>1, <4>2 DEF y
        <5>2. QED
          BY <3>2, <5>1
      <4>3. QED
        BY <3>1, <4>1, <4>2 DEF y
    <3>4. QED
      BY <3>3 DEF y
  <2> HIDE DEF s, w, d
  <2>11. (d \o s) \o w = d \o (s \o w)
    BY <2>7, WordsAssociative, Zenon
  <2>12. Spoken(<<c>> \o x) \o Whole(b \o r) = Whole(t \o r)
    BY <2>1, <2>8, <2>9, <2>11 DEF d, w
  <2>13. NoGlue(b) /\ Latin(b) /\ ShortRuns(b \o r)
    BY <2>4 DEF WordsGoOn
  <2>14. WordsGoOn([clauses |-> <<c>> \o x, buffer |-> b], t, r)
    BY <2>10, <2>12, <2>13 DEF WordsGoOn
  <2>15. QED
    BY <1>3, <2>3, <2>14
<1>7. QED
  BY <1>5, <1>6

-----------------------------------------------------------------------------
(* join_clauses puts back the spaces between the clauses. *)

(* What join_clauses puts for the clause at k. *)
Joined(cs, k) == IF IsSeam(cs, k) THEN <<Space>> \o cs[k] ELSE cs[k]

Seams(cs) == [k \in DOMAIN cs |-> Joined(cs, k)]

LEMMA SeamsType ==
  ASSUME NEW cs \in Seq(Text)
  PROVE  Seams(cs) \in Seq(Text) /\ Len(Seams(cs)) = Len(cs)
<1>1. DOMAIN cs = 1..Len(cs) /\ Len(cs) \in Nat
  BY LenProperties
<1>2. ASSUME NEW k \in 1..Len(cs) PROVE Seams(cs)[k] \in Text
  <2>1. cs[k] \in Text
    BY ElementOfSeq
  <2>2. <<Space>> \in Text
    BY CharClasses, TextConcat
  <2>3. <<Space>> \o cs[k] \in Text
    BY <2>1, <2>2, TextConcat
  <2>4. Seams(cs)[k] \in {cs[k], <<Space>> \o cs[k]}
    BY <1>1 DEF Seams, Joined
  <2>5. QED
    BY <2>1, <2>3, <2>4
<1>3. Seams(cs) = [k \in 1..Len(cs) |-> Seams(cs)[k]]
  BY <1>1 DEF Seams
<1>4. QED
  BY <1>1, <1>2, <1>3, FunctionIsSeq

LEMMA SeamsAppend ==
  ASSUME NEW cs \in Seq(Text), NEW c \in Text,
         NEW n, n = Len(cs), NEW t, t = Append(cs, c)
  PROVE  Seams(t) = Append(Seams(cs), Joined(t, n + 1))
<1>1. /\ t \in Seq(Text) /\ n \in Nat /\ Len(t) = n + 1
      /\ t[n + 1] = c /\ \A k \in 1..n : t[k] = cs[k]
  BY AppendProperties
<1>2. ASSUME NEW k \in 1..n PROVE Joined(t, k) = Joined(cs, k)
  <2>1. SubSeq(t, 1, k - 1) = SubSeq(cs, 1, k - 1)
    <3>1. k - 1 \in Int /\ \A i \in 1..(k - 1) : t[1 + i - 1] = cs[1 + i - 1]
      BY <1>1
    <3>2. QED
      BY <1>1, <3>1
  <2>2. t[k] = cs[k]
    BY <1>1
  <2>3. QED
    BY <2>1, <2>2 DEF Joined, IsSeam
<1>3. DOMAIN t = 1..(n + 1) /\ DOMAIN cs = 1..n
  BY <1>1, LenProperties
<1>4. Seams(cs) \in Seq(Text) /\ Len(Seams(cs)) = n /\ Seams(t) \in Seq(Text) /\ Len(Seams(t)) = n + 1
  BY <1>1, SeamsType
<1>5. \A k \in 1..n : Seams(t)[k] = Seams(cs)[k]
  BY <1>1, <1>2, <1>3 DEF Seams
<1>6. Seams(t)[n + 1] = Joined(t, n + 1)
  BY <1>1, <1>3 DEF Seams
<1> DEFINE a == Seams(t)
           b == Seams(cs)
           j == Joined(t, n + 1)
<1>7. j \in Text
  <2>1. n + 1 \in 1..Len(a)
    BY <1>1, <1>4
  <2>2. a[n + 1] \in Text
    BY <1>4, <2>1, ElementOfSeq
  <2>3. QED
    BY <1>6, <2>2
<1>8. a \in Seq(Text) /\ b \in Seq(Text) /\ Len(a) = n + 1 /\ Len(b) = n
      /\ (\A k \in 1..n : a[k] = b[k]) /\ a[n + 1] = j
  BY <1>4, <1>5, <1>6
<1> HIDE DEF a, b, j
<1>9. /\ Append(b, j) \in Seq(Text) /\ Len(Append(b, j)) = n + 1
      /\ \A k \in 1..n : Append(b, j)[k] = b[k]
      /\ Append(b, j)[n + 1] = j
  BY <1>7, <1>8, AppendProperties
<1>10. \A k \in 1..(n + 1) : k \in 1..n \/ k = n + 1
  BY <1>1
<1>11. \A k \in 1..Len(a) : a[k] = Append(b, j)[k]
  BY <1>8, <1>9, <1>10
<1>12. a = Append(b, j)
  BY <1>8, <1>9, <1>11, SeqEqual
<1>13. QED
  BY <1>12 DEF a, b, j

(* One clause more: a space at the seam between Latin characters. *)
LEMMA JoinAppend ==
  ASSUME NEW cs \in Seq(Text), NEW c \in Text,
         NEW out, out = FlattenSeq(cs)
  PROVE  /\ (/\ out # <<>> /\ c # <<>> /\ Last(out) \notin Cjk /\ Head(c) \notin Cjk)
               => JoinClauses(Append(cs, c)) = JoinClauses(cs) \o (<<Space>> \o c)
         /\ out = <<>> => JoinClauses(Append(cs, c)) = JoinClauses(cs) \o c
<1> DEFINE t == Append(cs, c)
           n == Len(cs)
           j == Joined(t, n + 1)
<1>1. /\ t \in Seq(Text) /\ n \in Nat /\ Len(t) = n + 1 /\ t[n + 1] = c
  BY AppendProperties
<1>2. SubSeq(t, 1, (n + 1) - 1) = cs
  <2>1. (n + 1) - 1 = n /\ \A k \in 1..n : t[k] = cs[k]
    BY AppendProperties
  <2>2. SubSeq(t, 1, n) \in Seq(Text) /\ Len(SubSeq(t, 1, n)) = n
        /\ \A k \in 1..n : SubSeq(t, 1, n)[k] = t[k]
    BY <1>1
  <2>3. SubSeq(t, 1, n) = cs
    BY <2>1, <2>2, SeqEqual
  <2>4. QED
    BY <2>1, <2>3
<1>3. Seams(t) = Append(Seams(cs), j)
  BY SeamsAppend
<1>4. j = IF out # <<>> /\ c # <<>> /\ Last(out) \notin Cjk /\ Head(c) \notin Cjk
          THEN <<Space>> \o c ELSE c
  BY <1>1, <1>2 DEF Joined, IsSeam
<1>5. j \in Text
  <2>1. <<Space>> \o c \in Text
    BY CharClasses, TextConcat
  <2>2. QED
    BY <1>4, <2>1
<1>6. Seams(cs) \in Seq(Seq(Char)) /\ j \in Seq(Char)
  BY <1>5, SeamsType DEF Text
<1> HIDE DEF j
<1>7. FlattenSeq(Append(Seams(cs), j)) = FlattenSeq(Seams(cs)) \o j
  BY <1>6, FlattenAppend
<1>8. JoinClauses(t) = FlattenSeq(Seams(t)) /\ JoinClauses(cs) = FlattenSeq(Seams(cs))
  BY DEF JoinClauses, Seams, Joined
<1>9. JoinClauses(t) = JoinClauses(cs) \o j
  BY <1>3, <1>7, <1>8
<1>10. QED
  BY <1>4, <1>9

(* Clauses that are spoken, of a text without CJK. *)
LatinClauses == {t \in Text : t # <<>> /\ Latin(t)}

LEMMA LatinFlatten ==
  \A cs \in Seq(LatinClauses) :
    /\ FlattenSeq(cs) \in Text /\ Latin(FlattenSeq(cs))
    /\ cs # <<>> => FlattenSeq(cs) # <<>>
<1> DEFINE P == {cs \in Seq(LatinClauses) :
                   /\ FlattenSeq(cs) \in Text /\ Latin(FlattenSeq(cs))
                   /\ cs # <<>> => FlattenSeq(cs) # <<>>}
<1>1. <<>> \in P
  <2>1. Latin(<<>>) /\ <<>> \in Seq(LatinClauses)
    BY DEF Latin
  <2>2. QED
    BY <2>1, EmptyText
<1>2. ASSUME NEW cs \in Seq(LatinClauses), cs \in P, NEW c \in LatinClauses PROVE Append(cs, c) \in P
  <2>1. c \in Text /\ c # <<>> /\ Latin(c) /\ LatinClauses \subseteq Text
    BY DEF LatinClauses
  <2>2. cs \in Seq(Text) /\ Append(cs, c) \in Seq(LatinClauses)
    BY <2>1, SeqMonotonic, AppendProperties
  <2> DEFINE f == FlattenSeq(cs)
  <2>3. FlattenSeq(Append(cs, c)) = f \o c
    BY <2>1, <2>2, FlattenAppend DEF Text
  <2>4. f \in Text /\ Latin(f)
    BY <1>2
  <2> HIDE DEF f
  <2>5. f \o c \in Text /\ Latin(f \o c)
    BY <2>1, <2>4, LatinConcat, TextConcat
  <2>6. f \o c # <<>>
    <3>1. Len(f \o c) = Len(f) + Len(c) /\ Len(f) \in Nat /\ Len(c) \in Nat
      BY <2>1, <2>4, ConcatText
    <3>2. Len(c) # 0
      BY <2>1, EmptySeq DEF Text
    <3>3. Len(f \o c) # 0
      BY <3>1, <3>2
    <3>4. QED
      BY <3>3, EmptySeq
  <2>7. QED
    BY <2>2, <2>3, <2>5, <2>6
<1> HIDE DEF P
<1>3. \A cs \in Seq(LatinClauses) : cs \in P
  BY <1>1, <1>2, SequencesByLength
<1> USE DEF P
<1>4. QED
  BY <1>3

(* The words of clauses that were put together are the words of each. *)
LEMMA JoinWords == \A cs \in Seq(LatinClauses) : Tokenize(JoinClauses(cs)) = Spoken(cs)
<1> DEFINE P == {cs \in Seq(LatinClauses) : Tokenize(JoinClauses(cs)) = Spoken(cs)}
<1>1. <<>> \in P
  <2>1. JoinClauses(<<>>) = <<>> /\ <<>> \in Seq(LatinClauses)
    BY FlattenEmpty DEF JoinClauses
  <2>2. QED
    BY <2>1, TokenizeEmpty, SpokenFacts
<1>2. ASSUME NEW cs \in Seq(LatinClauses), cs \in P, NEW c \in LatinClauses PROVE Append(cs, c) \in P
  <2>1. c \in Text /\ c # <<>> /\ Latin(c) /\ LatinClauses \subseteq Text
    BY DEF LatinClauses
  <2>2. cs \in Seq(Text) /\ Append(cs, c) \in Seq(LatinClauses)
    BY <2>1, SeqMonotonic, AppendProperties
  <2>3. Spoken(Append(cs, c)) = Tokenize(JoinClauses(cs)) \o Tokenize(c)
    BY <1>2, <2>1, <2>2, SpokenFacts
  <2> DEFINE out == FlattenSeq(cs)
             x   == JoinClauses(cs)
  <2>4. out \in Text /\ Latin(out) /\ (cs # <<>> => out # <<>>)
    BY LatinFlatten
  <2>5. x \in Text
    BY <2>2, JoinKeeps
  <2>6. CASE cs = <<>>
    <3>1. out = <<>> /\ x = <<>>
      BY <2>6, FlattenEmpty DEF JoinClauses
    <3>2. JoinClauses(Append(cs, c)) = x \o c
      BY <2>1, <2>2, <3>1, JoinAppend
    <3>3. x \o c = c
      BY <2>1, <3>1, TextConcat
    <3>4. Tokenize(x) \o Tokenize(c) = Tokenize(c)
      BY <2>1, <3>1, TokenizeEmpty, TokenizeType
    <3>5. QED
      BY <2>2, <2>3, <3>2, <3>3, <3>4
  <2>7. CASE cs # <<>>
    <3>1. Last(out) \notin Cjk
      <4>1. Len(out) \in 1..Len(out)
        BY <2>4, <2>7, TextLength, EmptySeq
      <4>2. QED
        BY <2>4, <4>1 DEF Last, Latin
    <3>2. Head(c) \notin Cjk
      <4>1. 1 \in 1..Len(c) /\ Head(c) = c[1]
        BY <2>1, TextLength, EmptySeq
      <4>2. QED
        BY <2>1, <4>1 DEF Latin
    <3>3. JoinClauses(Append(cs, c)) = x \o (<<Space>> \o c)
      BY <2>1, <2>2, <2>4, <2>7, <3>1, <3>2, JoinAppend
    <3> HIDE DEF x, out
    <3>4. x \o (<<Space>> \o c) = Append(x, Space) \o c
      BY <2>1, <2>5, CharClasses, AppendThenConcat
    <3>5. Tokenize(Append(x, Space) \o c) = Tokenize(x) \o Tokenize(c)
      BY <2>1, <2>5, TokenizeAtSpace
    <3>6. QED
      BY <2>2, <2>3, <3>3, <3>4, <3>5 DEF x
  <2>8. QED
    BY <2>6, <2>7
<1> HIDE DEF P
<1>3. \A cs \in Seq(LatinClauses) : cs \in P
  BY <1>1, <1>2, SequencesByLength
<1> USE DEF P
<1>4. QED
  BY <1>3

-----------------------------------------------------------------------------
(* The words that are on the way, step by step. *)

LEMMA LatinStrip ==
  ASSUME NEW t \in Text, Latin(t)
  PROVE  Latin(Strip(t))
<1> DEFINE c == Strip(t)
<1>1. PICK x \in Text, b \in Text : NonSpaces(b) = {} /\ t = x \o b /\ c = LStrip(x)
  BY StripParts
<1>2. PICK d \in Text : NonSpaces(d) = {} /\ x = d \o c
  BY <1>1, LStripParts
<1>3. c \in Text
  BY StripKeeps
<1> HIDE DEF c
<1>4. Latin(x \o b)
  BY <1>1
<1>5. Latin(x)
  BY <1>4, LatinConcat
<1>6. Latin(d \o c)
  BY <1>2, <1>5
<1>7. Latin(c)
  BY <1>3, <1>6, LatinConcat
<1>8. QED
  BY <1>7 DEF c

(* What WordsKept asks of a text that was written. *)
Orderly(t) == ToSet(t) \cap Cjk = {} /\ \A w \in ToSet(Split(t)) : Len(w) < MaxChars

LEMMA OrderlyText ==
  ASSUME NEW t \in Text, Orderly(t)
  PROVE  Latin(t) /\ ShortRuns(t)
<1>1. Latin(t)
  <2>1. \A i \in 1..Len(t) : t[i] \in ToSet(t)
    BY TextLength DEF ToSet
  <2>2. QED
    BY <2>1 DEF Orderly, Latin
<1>2. QED
  BY <1>1, ShortWordsShortRuns DEF Orderly

AllLatin(cs) == \A i \in 1..Len(cs) : Latin(cs[i])

(* The words that were spoken, that are released and that are to come are  *)
(* those of the reply.                                                     *)
WordsOnTheWay(p, c, b, v, r) ==
  /\ p \in Seq(LatinClauses) /\ AllLatin(c)
  /\ NoGlue(b) /\ Latin(b) /\ Latin(v) /\ ShortRuns(b \o v)
  /\ (Spoken(p) \o Spoken(c)) \o Whole(b \o v) = Whole(r)

LEMMA LatinClausesAreTexts == \A p \in Seq(LatinClauses) : p \in Seq(Text)
<1>1. LatinClauses \subseteq Text
  BY DEF LatinClauses
<1>2. QED
  BY <1>1, SeqMonotonic

(* Ask: all of the reply is to come. *)
LEMMA AskWords ==
  ASSUME NEW r \in Text, Orderly(r)
  PROVE  WordsOnTheWay(<<>>, <<>>, <<>>, r, r)
<1>1. Latin(r) /\ ShortRuns(r) /\ <<>> \o r = r
  BY OrderlyText, TextConcat
<1>2. /\ <<>> \in Seq(LatinClauses) /\ AllLatin(<<>>) /\ NoGlue(<<>>) /\ Latin(<<>>)
  BY DEF AllLatin, NoGlue, Latin
<1>3. Spoken(<<>>) = <<>> /\ Whole(r) \in Seq(Text)
  BY SpokenFacts, WholeType
<1>4. (<<>> \o <<>>) \o Whole(r) = Whole(r)
  BY <1>3, ConcatEmptySeq
<1>5. QED
  BY <1>1, <1>2, <1>3, <1>4 DEF WordsOnTheWay

LEMMA LatinMore ==
  ASSUME NEW c \in Seq(Text), NEW x \in Seq(Text), AllLatin(c), AllLatin(x)
  PROVE  c \o x \in Seq(Text) /\ AllLatin(c \o x)
<1> DEFINE y == c \o x
<1>1. /\ y \in Seq(Text) /\ Len(y) = Len(c) + Len(x) /\ Len(c) \in Nat /\ Len(x) \in Nat
      /\ \A i \in 1..Len(y) : y[i] = IF i <= Len(c) THEN c[i] ELSE x[i - Len(c)]
  BY ConcatProperties, LenProperties
<1> HIDE DEF y
<1>2. ASSUME NEW i \in 1..Len(y) PROVE Latin(y[i])
  <2>1. CASE i <= Len(c)
    <3>1. i \in 1..Len(c) /\ y[i] = c[i]
      BY <1>1, <2>1
    <3>2. QED
      BY <3>1 DEF AllLatin
  <2>2. CASE ~(i <= Len(c))
    <3>1. i - Len(c) \in 1..Len(x) /\ y[i] = x[i - Len(c)]
      BY <1>1, <2>2
    <3>2. QED
      BY <3>1 DEF AllLatin
  <2>3. QED
    BY <2>1, <2>2
<1>3. QED
  BY <1>1, <1>2 DEF AllLatin, y

LEMMA FourAssociative ==
  \A a, b, c, d \in Seq(Text) : (a \o (b \o c)) \o d = (a \o b) \o (c \o d)
<1> SUFFICES ASSUME NEW a \in Seq(Text), NEW b \in Seq(Text), NEW c \in Seq(Text), NEW d \in Seq(Text)
             PROVE  (a \o (b \o c)) \o d = (a \o b) \o (c \o d)
  OBVIOUS
<1>1. (a \o b) \o c = a \o (b \o c)
  BY WordsAssociative, Zenon
<1> DEFINE q == a \o b
<1>2. q \in Seq(Text)
  OBVIOUS
<1> HIDE DEF q
<1>3. (q \o c) \o d = q \o (c \o d)
  BY <1>2, WordsAssociative, Zenon
<1>4. QED
  BY <1>1, <1>3 DEF q

(* More clauses, and what is left: the words stay the same. *)
LEMMA MoreClauses ==
  \A p, c, x, new \in Seq(Text) :
    (Spoken(p) \o Spoken(c \o x)) \o new = (Spoken(p) \o Spoken(c)) \o (Spoken(x) \o new)
<1> SUFFICES ASSUME NEW p \in Seq(Text), NEW c \in Seq(Text), NEW x \in Seq(Text), NEW new \in Seq(Text)
             PROVE  (Spoken(p) \o Spoken(c \o x)) \o new = (Spoken(p) \o Spoken(c)) \o (Spoken(x) \o new)
  OBVIOUS
<1> DEFINE P == Spoken(p)
           C == Spoken(c)
           X == Spoken(x)
<1>1. P \in Seq(Text) /\ C \in Seq(Text) /\ X \in Seq(Text)
  BY SpokenFacts
<1>2. Spoken(c \o x) = C \o X
  BY SpokenFacts
<1> HIDE DEF P, C, X
<1>3. (P \o (C \o X)) \o new = (P \o C) \o (X \o new)
  <2>1. \A b, c2, d \in Seq(Text) : (P \o (b \o c2)) \o d = (P \o b) \o (c2 \o d)
    BY <1>1, FourAssociative, Zenon
  <2>2. \A c2, d \in Seq(Text) : (P \o (C \o c2)) \o d = (P \o C) \o (c2 \o d)
    BY <1>1, <2>1, Zenon
  <2>3. \A d \in Seq(Text) : (P \o (C \o X)) \o d = (P \o C) \o (X \o d)
    BY <1>1, <2>2, Zenon
  <2>4. QED
    BY <2>3
<1>4. QED
  BY <1>2, <1>3 DEF P, C, X

(* Write: a delta is fed to the chunker. *)
LEMMA WriteWords ==
  ASSUME NEW p, NEW c \in Seq(Text), NEW b \in Text, NEW d \in Text, NEW v \in Text,
         NEW r \in Text, WordsOnTheWay(p, c, b, d \o v, r),
         NEW k, k = Feed(b, d)
  PROVE  WordsOnTheWay(p, c \o k.clauses, k.buffer, v, r)
<1> DEFINE x == b \o d
           t == Unglued(x)
<1>1. /\ p \in Seq(LatinClauses) /\ p \in Seq(Text) /\ AllLatin(c)
      /\ Latin(b) /\ Latin(d \o v) /\ ShortRuns(b \o (d \o v))
      /\ (Spoken(p) \o Spoken(c)) \o Whole(b \o (d \o v)) = Whole(r)
  BY LatinClausesAreTexts DEF WordsOnTheWay
<1>2. Latin(d) /\ Latin(v)
  BY <1>1, LatinConcat
<1>3. x \in Text /\ Latin(x) /\ b \o (d \o v) = x \o v
  <2>1. Latin(b \o d)
    BY <1>1, <1>2, LatinConcat
  <2>2. (b \o d) \o v = b \o (d \o v)
    BY TextAssociative, ZenonT(60)
  <2>3. QED
    BY <2>1, <2>2, TextConcat
<1> HIDE DEF x
<1>4. t \in Text /\ NoGlue(t) /\ Latin(t)
  BY <1>3, UngluedType, UngluedHasNone, LatinUnglued
<1>5. ShortRuns(t \o v)
  BY <1>1, <1>3, ShortRunsUnglued
<1>6. Whole(t \o v) = Whole(x \o v)
  BY <1>3, UngluedTwice DEF Whole
<1>7. k = Take[t]
  BY DEF Feed, x
<1> HIDE DEF t
<1>8. k.clauses \in Seq(Text) /\ k.buffer \in Text
  BY <1>4, <1>7, TakeConserves DEF Conserves
<1>9. WordsGoOn(k, t, v)
  BY <1>4, <1>5, <1>7, TakeWords
<1> DEFINE a == k.clauses
           u == k.buffer
<1>10. a \in Seq(Text) /\ u \in Text
  BY <1>8
<1>11. /\ AllLatin(a) /\ NoGlue(u) /\ Latin(u) /\ ShortRuns(u \o v)
       /\ Spoken(a) \o Whole(u \o v) = Whole(t \o v)
  BY <1>9 DEF WordsGoOn, AllLatin
<1> HIDE DEF a, u
<1>12. AllLatin(c \o a)
  BY <1>1, <1>10, <1>11, LatinMore
<1>13. Whole(u \o v) \in Seq(Text) /\ Whole(t \o v) \in Seq(Text)
  BY <1>4, <1>10, WholeType, TextConcat
<1>14. (Spoken(p) \o Spoken(c \o a)) \o Whole(u \o v) = (Spoken(p) \o Spoken(c)) \o Whole(t \o v)
  <2> DEFINE w == Whole(u \o v)
  <2>1. w \in Seq(Text) /\ Spoken(a) \o w = Whole(t \o v)
    BY <1>11, <1>13
  <2> HIDE DEF w
  <2>2. (Spoken(p) \o Spoken(c \o a)) \o w = (Spoken(p) \o Spoken(c)) \o (Spoken(a) \o w)
    <3>1. \A y, z, e \in Seq(Text) :
            (Spoken(p) \o Spoken(y \o z)) \o e = (Spoken(p) \o Spoken(y)) \o (Spoken(z) \o e)
      BY <1>1, MoreClauses, Zenon
    <3>2. \A z, e \in Seq(Text) :
            (Spoken(p) \o Spoken(c \o z)) \o e = (Spoken(p) \o Spoken(c)) \o (Spoken(z) \o e)
      BY <3>1, Zenon
    <3>3. QED
      BY <1>10, <2>1, <3>2, Zenon
  <2>3. QED
    BY <2>1, <2>2 DEF w
<1>15. WordsOnTheWay(p, c \o a, u, v, r)
  BY <1>1, <1>2, <1>3, <1>6, <1>11, <1>12, <1>14 DEF WordsOnTheWay
<1>16. QED
  BY <1>15 DEF a, u

(* FinishWriting: what is left is the last clause. *)
LEMMA FlushWords ==
  ASSUME NEW p, NEW c \in Seq(Text), NEW b \in Text, NEW r \in Text,
         WordsOnTheWay(p, c, b, <<>>, r)
  PROVE  WordsOnTheWay(p, c \o Flush(b), <<>>, <<>>, r)
<1> DEFINE x == Flush(b)
           s == Strip(b)
<1>1. /\ p \in Seq(LatinClauses) /\ p \in Seq(Text) /\ AllLatin(c)
      /\ Latin(b) /\ NoGlue(b) /\ Latin(<<>>)
      /\ (Spoken(p) \o Spoken(c)) \o Whole(b \o <<>>) = Whole(r)
  BY LatinClausesAreTexts DEF WordsOnTheWay
<1>2. b \o <<>> = b /\ <<>> \in Text /\ <<>> \o <<>> = <<>>
  BY TextConcat
<1>3. Whole(b) = Tokenize(s) /\ Whole(b) \in Seq(Text)
  <2>1. Unglued(b) = b
    BY <1>1, NothingToUnglue
  <2>2. QED
    BY <2>1, TokenizeStrip, WholeType DEF Whole
<1>4. s \in Text /\ Latin(s)
  BY <1>1, StripKeeps, LatinStrip
<1>5. x \in Seq(Text)
  BY FlushKeeps
<1>6. Spoken(x) = Tokenize(s) /\ AllLatin(x)
  <2>1. CASE s = <<>>
    <3>1. x = <<>>
      BY <2>1 DEF Flush
    <3>2. AllLatin(<<>>)
      BY DEF AllLatin
    <3>3. QED
      BY <2>1, <3>1, <3>2, SpokenFacts, TokenizeEmpty
  <2>2. CASE s # <<>>
    <3>1. x = <<s>>
      BY <2>2 DEF Flush
    <3> HIDE DEF x, s
    <3>2. AllLatin(<<s>>)
      BY <1>4 DEF AllLatin
    <3>3. QED
      BY <1>4, <3>1, <3>2, SpokenFacts
  <2>3. QED
    BY <2>1, <2>2
<1> HIDE DEF x, s
<1>7. Whole(<<>>) = <<>>
  BY UngluedEmpty, TokenizeEmpty DEF Whole
<1>8. Spoken(x) \o <<>> = Whole(b)
  BY <1>3, <1>4, <1>6, TokenizeType
<1>9. (Spoken(p) \o Spoken(c \o x)) \o <<>> = (Spoken(p) \o Spoken(c)) \o Whole(b)
  <2>1. <<>> \in Seq(Text)
    BY EmptyText
  <2>2. (Spoken(p) \o Spoken(c \o x)) \o <<>> = (Spoken(p) \o Spoken(c)) \o (Spoken(x) \o <<>>)
    <3>1. \A y, z, e \in Seq(Text) :
            (Spoken(p) \o Spoken(y \o z)) \o e = (Spoken(p) \o Spoken(y)) \o (Spoken(z) \o e)
      BY <1>1, MoreClauses, Zenon
    <3>2. \A z, e \in Seq(Text) :
            (Spoken(p) \o Spoken(c \o z)) \o e = (Spoken(p) \o Spoken(c)) \o (Spoken(z) \o e)
      BY <3>1, Zenon
    <3>3. QED
      BY <1>5, <2>1, <3>2, Zenon
  <2>3. QED
    BY <1>8, <2>2
<1>10. AllLatin(c \o x)
  BY <1>1, <1>5, <1>6, LatinMore
<1>11. NoGlue(<<>>) /\ ShortRuns(<<>>)
  BY DEF NoGlue, ShortRuns
<1>12. WordsOnTheWay(p, c \o x, <<>>, <<>>, r)
  BY <1>1, <1>2, <1>7, <1>9, <1>10, <1>11 DEF WordsOnTheWay
<1>13. QED
  BY <1>12 DEF x

(* Speak: a clause has been heard. *)
LEMMA SpeakWords ==
  ASSUME NEW p, NEW c \in Seq(Text), NEW b \in Text, NEW v \in Text, NEW r \in Text, c # <<>>,
         WordsOnTheWay(p, c, b, v, r)
  PROVE  WordsOnTheWay(Heard(p, Head(c)), Tail(c), b, v, r)
<1> DEFINE h == Head(c)
           t == Tail(c)
<1>1. p \in Seq(LatinClauses) /\ p \in Seq(Text) /\ AllLatin(c)
  BY LatinClausesAreTexts DEF WordsOnTheWay
<1>2. h \in Text /\ t \in Seq(Text) /\ c = <<h>> \o t
  BY HeadTailProperties, ConcatProperties
<1>3. Latin(h) /\ AllLatin(t)
  <2>1. /\ Len(c) \in Nat /\ 1 \in 1..Len(c) /\ h = c[1] /\ Len(t) = Len(c) - 1
        /\ \A i \in 1..Len(t) : t[i] = c[i + 1]
    BY HeadTailProperties, LenProperties
  <2>2. \A i \in 1..Len(t) : i + 1 \in 1..Len(c)
    BY <2>1
  <2> HIDE DEF h, t
  <2>3. QED
    BY <1>1, <2>1, <2>2 DEF AllLatin
<1> HIDE DEF h, t
<1>4. Spoken(c) = Tokenize(h) \o Spoken(t)
  <2>1. <<h>> \in Seq(Text)
    BY <1>2
  <2>2. Spoken(<<h>> \o t) = Spoken(<<h>>) \o Spoken(t)
    BY <1>2, <2>1, SpokenFacts
  <2>3. QED
    BY <1>2, <2>2, SpokenFacts
<1> DEFINE q == Heard(p, h)
<1>5. q \in Seq(LatinClauses) /\ Spoken(q) = Spoken(p) \o Tokenize(h)
  <2>1. CASE h = <<>>
    <3>1. q = p /\ Spoken(p) \in Seq(Text)
      BY <1>1, <2>1, SpokenFacts DEF Heard
    <3>2. Spoken(p) \o <<>> = Spoken(p)
      BY <3>1, ConcatEmptySeq
    <3>3. QED
      BY <1>1, <2>1, <3>1, <3>2, TokenizeEmpty
  <2>2. CASE h # <<>>
    <3>1. q = Append(p, h) /\ h \in LatinClauses
      BY <1>2, <1>3, <2>2 DEF Heard, LatinClauses
    <3> HIDE DEF q
    <3>2. Append(p, h) \in Seq(LatinClauses)
      BY <1>1, <3>1, AppendProperties
    <3>3. Spoken(Append(p, h)) = Spoken(p) \o Tokenize(h)
      BY <1>1, <1>2, SpokenFacts
    <3>4. QED
      BY <3>1, <3>2, <3>3
  <2>3. QED
    BY <2>1, <2>2
<1>6. Spoken(q) \o Spoken(t) = Spoken(p) \o Spoken(c)
  <2> DEFINE a == Spoken(p)
             d == Tokenize(h)
             e == Spoken(t)
  <2>1. a \in Seq(Text) /\ d \in Seq(Text) /\ e \in Seq(Text)
    BY <1>1, <1>2, SpokenFacts, TokenizeType
  <2> HIDE DEF a, d, e
  <2>2. (a \o d) \o e = a \o (d \o e)
    BY <2>1, WordsAssociative, Zenon
  <2>3. QED
    BY <1>4, <1>5, <2>2 DEF a, d, e
<1> HIDE DEF q
<1>7. WordsOnTheWay(q, t, b, v, r)
  BY <1>3, <1>5, <1>6 DEF WordsOnTheWay
<1>8. QED
  BY <1>7 DEF q, h, t

(* Complete: nothing is on its way, and the clauses are joined. *)
LEMMA CompleteWords ==
  ASSUME NEW p, NEW r \in Text, WordsOnTheWay(p, <<>>, <<>>, <<>>, r)
  PROVE  Tokenize(JoinClauses(p)) = Whole(r)
<1>1. /\ p \in Seq(LatinClauses) /\ p \in Seq(Text)
      /\ (Spoken(p) \o Spoken(<<>>)) \o Whole(<<>> \o <<>>) = Whole(r)
  BY LatinClausesAreTexts DEF WordsOnTheWay
<1>2. <<>> \o <<>> = <<>> /\ Whole(<<>>) = <<>> /\ Spoken(<<>>) = <<>>
  BY TextConcat, UngluedEmpty, TokenizeEmpty, SpokenFacts DEF Whole
<1>3. Spoken(p) \in Seq(Text)
  BY <1>1, SpokenFacts
<1>4. (Spoken(p) \o <<>>) \o <<>> = Spoken(p)
  BY <1>3, ConcatEmptySeq
<1>5. Tokenize(JoinClauses(p)) = Spoken(p)
  BY <1>1, JoinWords
<1>6. QED
  BY <1>1, <1>2, <1>4, <1>5

-----------------------------------------------------------------------------
(* 4. The text of a reply.  Messages. *)

Message == [role : {"user", "assistant"}, text : Text, written : Text]

(* A text with the characters of what was written, and with its words. *)
SaysWhatWasWritten(t, w) ==
  /\ NonSpaceText(t) = NonSpaceText(w)
  /\ Orderly(w) => Tokenize(t) = Whole(w)

KeptMessage ==
  {m \in Message : m.role = "assistant" => SaysWhatWasWritten(m.text, m.written)}

LEMMA KeptUser == ASSUME NEW t \in Text PROVE User(t) \in KeptMessage
<1>1. <<>> \in Text
  BY EmptyText
<1>2. User(t) \in Message
  BY <1>1 DEF User, Message
<1>3. QED
  BY <1>2 DEF KeptMessage, User

LEMMA KeptReply ==
  ASSUME NEW t \in Text, NEW w \in Text, SaysWhatWasWritten(t, w)
  PROVE  Assistant(t, w) \in KeptMessage
<1>1. Assistant(t, w) \in Message
  BY DEF Assistant, Message
<1>2. QED
  BY <1>1 DEF KeptMessage, Assistant

(* The messages of a role. *)
OfRole(r) == [m \in KeptMessage |-> IF m.role = r THEN <<m>> ELSE <<>>]

LEMMA OfRoleType ==
  ASSUME NEW r
  PROVE  Picker(OfRole(r), KeptMessage, {m \in KeptMessage : m.role = r})
<1> DEFINE S == {m \in KeptMessage : m.role = r}
<1>1. ASSUME NEW m \in KeptMessage PROVE OfRole(r)[m] \in Seq(S)
  <2>1. CASE m.role = r
    <3>1. m \in S
      BY <2>1
    <3> HIDE DEF S
    <3>2. <<m>> \in Seq(S)
      BY <3>1
    <3>3. QED
      BY <2>1, <3>2 DEF OfRole
  <2>2. CASE m.role # r
    BY <2>2 DEF OfRole
  <2>3. QED
    BY <2>1, <2>2
<1>2. QED
  BY <1>1 DEF Picker

LEMMA OfIsPicked ==
  ASSUME NEW msgs \in Seq(KeptMessage), NEW r
  PROVE  Of(msgs, r) = Picked(msgs, OfRole(r))
<1>1. \A i \in DOMAIN msgs : msgs[i] \in KeptMessage
  OBVIOUS
<1>2. [i \in DOMAIN msgs |-> IF msgs[i].role = r THEN <<msgs[i]>> ELSE <<>>]
        = [i \in DOMAIN msgs |-> OfRole(r)[msgs[i]]]
  BY <1>1 DEF OfRole
<1>3. QED
  BY <1>2 DEF Of, Picked, Picks

LEMMA OfType ==
  ASSUME NEW msgs \in Seq(KeptMessage), NEW r
  PROVE  /\ Of(msgs, r) \in Seq(KeptMessage)
         /\ \A i \in DOMAIN Of(msgs, r) : Of(msgs, r)[i].role = r
<1> DEFINE S == {m \in KeptMessage : m.role = r}
           o == Of(msgs, r)
<1> HIDE DEF S
<1>1. Picker(OfRole(r), KeptMessage, S)
  BY OfRoleType DEF S
<1>2. o \in Seq(S)
  <2> DEFINE f == OfRole(r)
  <2>1. o = Picked(msgs, f)
    BY OfIsPicked
  <2> HIDE DEF f, o
  <2>2. Picked(msgs, f) \in Seq(S)
    BY <1>1, PickedType DEF f
  <2>3. QED
    BY <2>1, <2>2
<1>3. S \subseteq KeptMessage /\ \A m \in S : m.role = r
  BY DEF S
<1> HIDE DEF o
<1>4. o \in Seq(KeptMessage)
  BY <1>2, <1>3, SeqMonotonic
<1>5. \A i \in DOMAIN o : o[i] \in S
  BY <1>2
<1>6. QED
  BY <1>3, <1>4, <1>5 DEF o

-----------------------------------------------------------------------------
(* The text of a turn: the inductive invariant. *)

TextTypes ==
  /\ reply \in Text /\ buffer \in Text
  /\ toWrite \in Seq(Text) /\ clauses \in Seq(Text) /\ parts \in Seq(Text)
  /\ messages \in Seq(KeptMessage) /\ learner.messages \in Seq(KeptMessage)

(* What was spoken and what is on its way is what the model is writing. *)
OnTheWay ==
  /\ phase \in {"asked", "written"} =>
       Characters(parts, clauses, buffer, toWrite) = NonSpaceText(reply)
  /\ phase = "written" => buffer = <<>> /\ toWrite = <<>>

(* And so are its words. *)
WordsInTurn ==
  phase \in {"asked", "written"} /\ Orderly(reply) =>
    WordsOnTheWay(parts, clauses, buffer, FlattenSeq(toWrite), reply)

TextInv == TextTypes /\ OnTheWay /\ WordsInTurn

LEMMA ScriptedText ==
  ASSUME NEW n \in Nat
  PROVE  UtteranceAt(n) \in Text /\ (script \in Scripts => ReplyAt(n) \in Text)
<1>1. Len(Utterances) \in Nat \ {0} /\ Utterances \in Seq(Text)
  BY LessonAssumption DEF LessonAssumption
<1> DEFINE k == (n % Len(Utterances)) + 1
<1>2. k \in 1..Len(Utterances)
  BY <1>1
<1> HIDE DEF k
<1>3. Utterances[k] \in Text
  BY <1>1, <1>2
<1>4. script \in Scripts => script[k] \in Text /\ Len(script) = Len(Utterances)
  BY <1>2, LessonAssumption DEF LessonAssumption
<1>5. QED
  BY <1>3, <1>4 DEF UtteranceAt, ReplyAt, k

(* All is on its way, or none. *)
LEMMA CharactersOfOne ==
  ASSUME NEW s \in Seq(Text)
  PROVE  /\ Characters(<<>>, <<>>, <<>>, s) = NonSpaceText(FlattenSeq(s))
         /\ Characters(s, <<>>, <<>>, <<>>) = NonSpaceText(FlattenSeq(s))
<1>1. FlattenSeq(s) \in Text /\ <<>> \in Text
  BY TextsFlatten, EmptyText
<1> DEFINE c == NonSpaceText(FlattenSeq(s))
<1>2. c \in Seq(Char) /\ <<>> \in Seq(Char)
  BY <1>1, NonSpaceType DEF Text
<1> HIDE DEF c
<1>3. <<>> \o c = c /\ c \o <<>> = c /\ <<>> \o <<>> = <<>>
  BY <1>2, ConcatEmptySeq
<1>4. QED
  BY <1>3, EmptyText DEF Characters, c

LEMMA NoTextLeft == ASSUME TurnGone PROVE
  reply' \in Text /\ buffer' \in Text
  /\ toWrite' \in Seq(Text) /\ clauses' \in Seq(Text) /\ parts' \in Seq(Text)
BY EmptyText DEF TurnGone

LEMMA TextInit == Init => TextInv
<1> SUFFICES ASSUME Init PROVE TextInv
  OBVIOUS
<1>1. learner.messages = <<>>
  <2>1. IsProfile(NewLearner) /\ NewLearner.messages = <<>>
    BY DEF IsProfile, NewLearner
  <2>2. QED
    BY <2>1, ProfileKept DEF Init
<1>2. QED
  BY <1>1, EmptyText DEF Init, TextInv, TextTypes, OnTheWay, WordsInTurn

LEMMA HearText == ASSUME Inv, TextInv, Hear PROVE TextInv'
<1>1. cursor \in Nat /\ messages \in Seq(KeptMessage)
  BY DEF Inv, Types, TextInv, TextTypes
<1>2. User(UtteranceAt(cursor)) \in KeptMessage
  BY <1>1, ScriptedText, KeptUser
<1> DEFINE m == User(UtteranceAt(cursor))
<1> HIDE DEF m
<1>3. Append(messages, m) \in Seq(KeptMessage)
  BY <1>1, <1>2, AppendProperties DEF m
<1>4. QED
  BY <1>3 DEF Hear, TextInv, TextTypes, OnTheWay, WordsInTurn, turnVars, m

LEMMA AskText == ASSUME Inv, TextInv, Ask PROVE TextInv'
<1> DEFINE r == ReplyAt(index)
<1>1. r \in Text
  BY ScriptedText DEF Inv, Types
<1> HIDE DEF r
<1>2. Deltas(r) \in Seq(Text) /\ FlattenSeq(Deltas(r)) = r
  BY <1>1, DeltasMakeUp
<1>3. /\ reply' = r /\ toWrite' = Deltas(r) /\ buffer' = <<>> /\ clauses' = <<>> /\ parts' = <<>>
      /\ messages' = messages /\ learner' = learner /\ phase' = "asked"
  BY DEF Ask, r
<1>4. Characters(<<>>, <<>>, <<>>, Deltas(r)) = NonSpaceText(r)
  BY <1>2, CharactersOfOne
<1>5. Orderly(r) => WordsOnTheWay(<<>>, <<>>, <<>>, FlattenSeq(Deltas(r)), r)
  BY <1>1, <1>2, AskWords
<1>6. (TextTypes /\ OnTheWay)'
  BY <1>1, <1>2, <1>3, <1>4, EmptyText DEF TextInv, TextTypes, OnTheWay
<1>7. WordsInTurn'
  BY <1>3, <1>5 DEF WordsInTurn
<1>8. QED
  BY <1>6, <1>7 DEF TextInv

LEMMA WriteText == ASSUME TextInv, Write PROVE TextInv'
<1> DEFINE fed == Feed(buffer, Head(toWrite))
<1>1. /\ clauses' = clauses \o fed.clauses /\ buffer' = fed.buffer /\ toWrite' = Tail(toWrite)
      /\ UNCHANGED <<phase, reply, parts, messages, learner>>
      /\ phase = "asked" /\ toWrite # <<>>
  BY DEF Write
<1>2. /\ clauses \o fed.clauses \in Seq(Text) /\ fed.buffer \in Text /\ Tail(toWrite) \in Seq(Text)
      /\ Characters(parts, clauses \o fed.clauses, fed.buffer, Tail(toWrite))
           = Characters(parts, clauses, buffer, toWrite)
  BY <1>1, WriteMoves DEF TextInv, TextTypes
<1>3. ASSUME Orderly(reply)
      PROVE  WordsOnTheWay(parts, clauses \o fed.clauses, fed.buffer, FlattenSeq(Tail(toWrite)), reply)
  <2> DEFINE d == Head(toWrite)
             v == FlattenSeq(Tail(toWrite))
  <2>1. toWrite \in Seq(Text) /\ clauses \in Seq(Text) /\ buffer \in Text /\ reply \in Text
    BY DEF TextInv, TextTypes
  <2>2. d \in Text /\ v \in Text
    BY <1>1, <2>1, HeadTailProperties, TextsFlatten
  <2>3. FlattenSeq(toWrite) = d \o v
    BY <1>1, <2>1, FlattenHead DEF Text
  <2>4. WordsOnTheWay(parts, clauses, buffer, d \o v, reply)
    BY <1>1, <1>3, <2>3 DEF TextInv, WordsInTurn
  <2> HIDE DEF d, v
  <2>5. WordsOnTheWay(parts, clauses \o Feed(buffer, d).clauses, Feed(buffer, d).buffer, v, reply)
    BY <2>1, <2>2, <2>4, WriteWords
  <2>6. QED
    BY <2>5 DEF d, v
<1> HIDE DEF fed
<1>4. (TextTypes /\ OnTheWay)'
  BY <1>1, <1>2 DEF TextInv, TextTypes, OnTheWay
<1>5. WordsInTurn'
  BY <1>1, <1>3 DEF WordsInTurn
<1>6. QED
  BY <1>4, <1>5 DEF TextInv

LEMMA FinishText == ASSUME TextInv, FinishWriting PROVE TextInv'
<1>1. /\ clauses' = clauses \o Flush(buffer) /\ buffer' = <<>> /\ phase' = "written"
      /\ UNCHANGED <<toWrite, reply, parts, messages, learner>>
      /\ phase = "asked" /\ toWrite = <<>>
  BY DEF FinishWriting
<1>2. /\ clauses \o Flush(buffer) \in Seq(Text)
      /\ Characters(parts, clauses \o Flush(buffer), <<>>, <<>>)
           = Characters(parts, clauses, buffer, <<>>)
  BY FlushMoves DEF TextInv, TextTypes
<1>3. ASSUME Orderly(reply)
      PROVE  WordsOnTheWay(parts, clauses \o Flush(buffer), <<>>, FlattenSeq(<<>>), reply)
  <2>1. clauses \in Seq(Text) /\ buffer \in Text /\ reply \in Text
    BY DEF TextInv, TextTypes
  <2>2. WordsOnTheWay(parts, clauses, buffer, <<>>, reply)
    BY <1>1, <1>3, EmptyText DEF TextInv, WordsInTurn
  <2>3. QED
    BY <2>1, <2>2, FlushWords, EmptyText
<1>4. (TextTypes /\ OnTheWay)'
  BY <1>1, <1>2, EmptyText DEF TextInv, TextTypes, OnTheWay
<1>5. WordsInTurn'
  BY <1>1, <1>3 DEF WordsInTurn
<1>6. QED
  BY <1>4, <1>5 DEF TextInv

LEMMA SpeakText == ASSUME TextInv, Speak PROVE TextInv'
<1>1. /\ parts' = IF Head(clauses) = <<>> THEN parts ELSE Append(parts, Head(clauses))
      /\ clauses' = Tail(clauses) /\ clauses # <<>>
      /\ UNCHANGED <<phase, buffer, toWrite, reply, messages, learner>>
  BY DEF Speak
<1>2. /\ Heard(parts, Head(clauses)) \in Seq(Text) /\ Tail(clauses) \in Seq(Text)
      /\ Characters(Heard(parts, Head(clauses)), Tail(clauses), buffer, toWrite)
           = Characters(parts, clauses, buffer, toWrite)
  BY <1>1, SpeakMoves DEF TextInv, TextTypes
<1>3. parts' = Heard(parts, Head(clauses))
  BY <1>1 DEF Heard
<1>4. ASSUME phase \in {"asked", "written"}, Orderly(reply)
      PROVE  WordsOnTheWay(Heard(parts, Head(clauses)), Tail(clauses), buffer,
                           FlattenSeq(toWrite), reply)
  <2>1. clauses \in Seq(Text) /\ buffer \in Text /\ reply \in Text /\ toWrite \in Seq(Text)
    BY DEF TextInv, TextTypes
  <2>2. FlattenSeq(toWrite) \in Text
    BY <2>1, TextsFlatten
  <2>3. WordsOnTheWay(parts, clauses, buffer, FlattenSeq(toWrite), reply)
    BY <1>4 DEF TextInv, WordsInTurn
  <2>4. QED
    BY <1>1, <2>1, <2>2, <2>3, SpeakWords
<1>5. (TextTypes /\ OnTheWay)'
  BY <1>1, <1>2, <1>3 DEF TextInv, TextTypes, OnTheWay
<1>6. WordsInTurn'
  BY <1>1, <1>3, <1>4 DEF WordsInTurn
<1>7. QED
  BY <1>5, <1>6 DEF TextInv

(* The reply that goes into the history. *)
LEMMA SpokenReply ==
  ASSUME TextInv, Complete
  PROVE  /\ JoinClauses(parts) \in Text
         /\ Assistant(JoinClauses(parts), reply) \in KeptMessage
<1>1. /\ phase = "written" /\ clauses = <<>> /\ buffer = <<>> /\ toWrite = <<>>
      /\ parts \in Seq(Text) /\ reply \in Text
      /\ Characters(parts, clauses, buffer, toWrite) = NonSpaceText(reply)
  BY DEF Complete, TextInv, TextTypes, OnTheWay
<1>2. NonSpaceText(FlattenSeq(parts)) = NonSpaceText(reply)
  BY <1>1, CharactersOfOne
<1>3. JoinClauses(parts) \in Text /\ NonSpaceText(JoinClauses(parts)) = NonSpaceText(reply)
  BY <1>1, <1>2, JoinKeeps
<1>4. ASSUME Orderly(reply) PROVE Tokenize(JoinClauses(parts)) = Whole(reply)
  <2>1. WordsOnTheWay(parts, <<>>, <<>>, <<>>, reply)
    BY <1>1, <1>4, EmptyText DEF TextInv, WordsInTurn
  <2>2. QED
    BY <1>1, <2>1, CompleteWords
<1>5. SaysWhatWasWritten(JoinClauses(parts), reply)
  BY <1>3, <1>4 DEF SaysWhatWasWritten
<1>6. QED
  BY <1>1, <1>3, <1>5, KeptReply

LEMMA CompleteText == ASSUME Inv, TextInv, Complete PROVE TextInv'
<1> DEFINE text == JoinClauses(parts)
           m    == Assistant(text, reply)
<1>1. m \in KeptMessage
  BY SpokenReply
<1>2. /\ messages' = Append(messages, m) /\ learner' = Taught(learner, text)
      /\ phase' = "listening" /\ TurnGone
  BY DEF Complete
<1> HIDE DEF text, m
<1>3. learner'.messages = learner.messages
  BY <1>2, ProfileKept DEF Inv, Types
<1>4. Append(messages, m) \in Seq(KeptMessage)
  BY <1>1, AppendProperties DEF TextInv, TextTypes
<1>5. QED
  BY <1>2, <1>3, <1>4, NoTextLeft DEF TextInv, TextTypes, OnTheWay, WordsInTurn

LEMMA BargeInText == ASSUME TextInv, BargeIn PROVE TextInv'
<1>1. TurnGone /\ phase' = "listening" /\ messages' = messages /\ learner' = learner
  BY DEF BargeIn
<1>2. QED
  BY <1>1, NoTextLeft DEF TextInv, TextTypes, OnTheWay, WordsInTurn

LEMMA EndSessionText == ASSUME Inv, TextInv, EndSession PROVE TextInv'
<1>1. TurnGone /\ phase' = "ended" /\ messages' = messages
  BY DEF EndSession, SaveHistory
<1>2. learner'.messages \in {learner.messages, messages}
  <2>1. [learner EXCEPT !.messages = messages].messages = messages
    BY ProfileChanged DEF Inv, Types
  <2>2. learner' \in {learner, [learner EXCEPT !.messages = messages]}
    BY DEF EndSession, SaveHistory
  <2>3. QED
    BY <2>1, <2>2
<1>3. QED
  BY <1>1, <1>2, NoTextLeft DEF TextInv, TextTypes, OnTheWay, WordsInTurn

LEMMA OpenSessionText == ASSUME Inv, TextInv, OpenSession PROVE TextInv'
<1>1. PICK s \in ScenarioIds : learner' = WithScenario(learner, s)
  BY DEF OpenSession
<1>2. learner'.messages = learner.messages
  BY <1>1, ProfileKept DEF Inv, Types
<1>3. messages' \in {learner.messages, <<>>} /\ phase' = "listening" /\ UNCHANGED turnVars
  BY DEF OpenSession
<1>4. messages' \in Seq(KeptMessage)
  <2>1. <<>> \in Seq(KeptMessage)
    OBVIOUS
  <2>2. learner.messages \in Seq(KeptMessage)
    BY DEF TextInv, TextTypes
  <2>3. QED
    BY <1>3, <2>1, <2>2, Zenon
<1>5. QED
  BY <1>2, <1>3, <1>4 DEF TextInv, TextTypes, OnTheWay, WordsInTurn, turnVars

LEMMA TextNext == Inv /\ TextInv /\ [Next]_vars => TextInv'
<1>1. TextInv /\ UNCHANGED vars => TextInv'
  BY DEF TextInv, TextTypes, OnTheWay, WordsInTurn, vars, turnVars
<1>2. QED
  BY <1>1, HearText, AskText, WriteText, FinishText, SpeakText, CompleteText, BargeInText,
     EndSessionText, OpenSessionText DEF Next

LEMMA TextIsWritten == TextInv => ReplyIsWhatWasWritten
<1> SUFFICES ASSUME TextInv PROVE ReplyIsWhatWasWritten
  OBVIOUS
<1>1. /\ Replies \in Seq(KeptMessage)
      /\ \A i \in DOMAIN Replies : Replies[i].role = "assistant"
  BY OfType DEF TextInv, TextTypes, Replies
<1>2. \A i \in DOMAIN Replies : Replies[i] \in KeptMessage
  BY <1>1
<1>3. \A i \in DOMAIN Replies : SaysWhatWasWritten(Replies[i].text, Replies[i].written)
  BY <1>1, <1>2 DEF KeptMessage
<1>4. CharactersKept
  BY <1>3 DEF SaysWhatWasWritten, CharactersKept
<1>5. WordsKept
  BY <1>3 DEF SaysWhatWasWritten, WordsKept, Orderly, Whole
<1>6. QED
  BY <1>4, <1>5 DEF ReplyIsWhatWasWritten

(* The chunker strips, cuts and drops, the TTS is given clauses and        *)
(* join_clauses puts them together again (chunker.py, orchestrator.py):    *)
(* whatever the deltas and the limits, every character but spaces of what  *)
(* the model wrote is in the reply of the history, once and in its place,  *)
(* and in Latin text without a word as long as the chunker's limit the     *)
(* words are those of the text, too, none cut in two and none run together *)
(* with the next.                                                          *)
THEOREM RepliesAreWhatWasWritten == Spec => []ReplyIsWhatWasWritten
BY InvInit, InvNext, TextInit, TextNext, TextIsWritten, PTL DEF Spec

-----------------------------------------------------------------------------
(* 5. The log of errors. *)

LEMMA ViolationsType == ASSUME NEW t \in Text PROVE Violations(t) \in Seq(Text)
<1> DEFINE E == {Normalized(c) : c \in Ceiling}
           s == Tokenize(t)
<1>1. s \in Seq(Text)
  BY NormalizedType, SplitType DEF Tokenize
<1> HIDE DEF s, E
<1>2. Without(s, E) \in Seq(Text \ E) /\ Text \ E \subseteq Text
  BY <1>1, WithoutType
<1>3. Without(s, E) \in Seq(Text) /\ <<>> \in Seq(Text)
  BY <1>2, SeqMonotonic, EmptyText
<1>4. QED
  BY <1>3 DEF Violations, s, E

-----------------------------------------------------------------------------
(* One message more. *)

LEMMA OfAppend ==
  ASSUME NEW msgs \in Seq(KeptMessage), NEW m \in KeptMessage, NEW r
  PROVE  /\ m.role = r => Of(Append(msgs, m), r) = Append(Of(msgs, r), m)
         /\ m.role # r => Of(Append(msgs, m), r) = Of(msgs, r)
<1> DEFINE S == {k \in KeptMessage : k.role = r}
           f == OfRole(r)
           o == Of(msgs, r)
<1>1. Append(msgs, m) \in Seq(KeptMessage)
  BY AppendProperties
<1>2. Of(Append(msgs, m), r) = Picked(Append(msgs, m), f)
  BY <1>1, OfIsPicked
<1>3. o = Picked(msgs, f)
  BY OfIsPicked
<1>4. f[m] = IF m.role = r THEN <<m>> ELSE <<>>
  BY DEF OfRole
<1> HIDE DEF f
<1>5. Picker(f, KeptMessage, S)
  BY OfRoleType DEF f
<1> HIDE DEF S
<1>6. Picked(Append(msgs, m), f) = Picked(msgs, f) \o f[m]
  BY <1>5, PickedAppend
<1>7. o \in Seq(KeptMessage)
  BY OfType
<1> HIDE DEF o
<1>8. o \o <<m>> = Append(o, m) /\ o \o <<>> = o
  BY <1>7, AppendIsConcat, ConcatEmptySeq
<1>9. QED
  BY <1>2, <1>3, <1>4, <1>6, <1>8 DEF o

FoundIn == [m \in KeptMessage |-> Violations(m.text)]

LEMMA FoundInType == Picker(FoundIn, KeptMessage, Text)
<1>1. ASSUME NEW m \in KeptMessage PROVE FoundIn[m] \in Seq(Text)
  <2>1. m.text \in Text
    BY DEF KeptMessage, Message
  <2>2. QED
    BY <2>1, ViolationsType DEF FoundIn
<1>2. QED
  BY <1>1 DEF Picker

LEMMA ViolationsOfIsPicked ==
  ASSUME NEW msgs \in Seq(KeptMessage)
  PROVE  /\ ViolationsOf(msgs) = Picked(msgs, FoundIn)
         /\ ViolationsOf(msgs) \in Seq(Text)
<1>1. \A i \in DOMAIN msgs : msgs[i] \in KeptMessage
  OBVIOUS
<1>2. [i \in DOMAIN msgs |-> Violations(msgs[i].text)] = [i \in DOMAIN msgs |-> FoundIn[msgs[i]]]
  BY <1>1 DEF FoundIn
<1>3. ViolationsOf(msgs) = Picked(msgs, FoundIn)
  BY <1>2 DEF ViolationsOf, Picked, Picks
<1>4. Picked(msgs, FoundIn) \in Seq(Text)
  BY FoundInType, PickedType
<1>5. QED
  BY <1>3, <1>4

LEMMA ViolationsOfAppend ==
  ASSUME NEW msgs \in Seq(KeptMessage), NEW m \in KeptMessage
  PROVE  /\ ViolationsOf(Append(msgs, m)) = ViolationsOf(msgs) \o Violations(m.text)
         /\ Len(ViolationsOf(Append(msgs, m)))
              = Len(ViolationsOf(msgs)) + Len(Violations(m.text))
<1>1. Append(msgs, m) \in Seq(KeptMessage)
  BY AppendProperties
<1>2. ViolationsOf(Append(msgs, m)) = Picked(Append(msgs, m), FoundIn)
  BY <1>1, ViolationsOfIsPicked
<1>3. ViolationsOf(msgs) = Picked(msgs, FoundIn) /\ ViolationsOf(msgs) \in Seq(Text)
  BY ViolationsOfIsPicked
<1>4. Picked(Append(msgs, m), FoundIn) = Picked(msgs, FoundIn) \o FoundIn[m]
  BY FoundInType, PickedAppend
<1>5. FoundIn[m] = Violations(m.text)
  BY DEF FoundIn
<1>6. Violations(m.text) \in Seq(Text)
  BY ViolationsType DEF KeptMessage, Message
<1>7. Len(ViolationsOf(msgs) \o Violations(m.text))
        = Len(ViolationsOf(msgs)) + Len(Violations(m.text))
  BY <1>3, <1>6, ConcatProperties
<1>8. QED
  BY <1>2, <1>3, <1>4, <1>5, <1>7

-----------------------------------------------------------------------------
(* What the hook writes. *)

LogEntry == [turn : Nat, detail : Text]

(* Its entries name completed turns, in order. *)
Ordered(errors, n) ==
  /\ errors \in Seq(LogEntry) /\ n \in Nat
  /\ \A e \in 1..Len(errors) :
       /\ errors[e].turn < n
       /\ e > 1 => errors[e - 1].turn <= errors[e].turn

(* Each was found in the reply of its turn. *)
InPlace(errors, replies) ==
  \A e \in 1..Len(errors) :
    errors[e].detail \in ToSet(Violations(replies[errors[e].turn + 1].text))

Entries(n, found) == [k \in DOMAIN found |-> Entry(n, found[k])]

LEMMA EntriesType ==
  ASSUME NEW n \in Nat, NEW found \in Seq(Text)
  PROVE  /\ Entries(n, found) \in Seq(LogEntry) /\ Len(Entries(n, found)) = Len(found)
         /\ \A k \in 1..Len(found) :
              Entries(n, found)[k].turn = n /\ Entries(n, found)[k].detail = found[k]
<1>1. /\ DOMAIN found = 1..Len(found) /\ Len(found) \in Nat
      /\ \A k \in 1..Len(found) : found[k] \in Text
  OBVIOUS
<1>2. \A k \in 1..Len(found) :
        /\ Entries(n, found)[k] = Entry(n, found[k])
        /\ Entry(n, found[k]) \in LogEntry
  BY <1>1 DEF Entries, Entry, LogEntry
<1>3. Entries(n, found) = [k \in 1..Len(found) |-> Entries(n, found)[k]]
  BY <1>1 DEF Entries
<1>4. Entries(n, found) \in Seq(LogEntry) /\ Len(Entries(n, found)) = Len(found)
  BY <1>1, <1>2, <1>3, FunctionIsSeq
<1>5. \A d : Entry(n, d).turn = n /\ Entry(n, d).detail = d
  BY DEF Entry
<1>6. QED
  BY <1>2, <1>4, <1>5

LEMMA EntriesNameTurns ==
  ASSUME NEW errors, NEW n, Ordered(errors, n)
  PROVE  n \in Nat /\ \A e \in 1..Len(errors) : errors[e].turn < n /\ errors[e].turn \in Nat
<1>1. \A e \in 1..Len(errors) : errors[e] \in LogEntry
  BY DEF Ordered
<1>2. \A x \in LogEntry : x.turn \in Nat
  BY DEF LogEntry
<1>3. QED
  BY <1>1, <1>2 DEF Ordered

(* The hook's append. *)
LEMMA Recorded ==
  ASSUME NEW errors, NEW n, Ordered(errors, n), NEW found \in Seq(Text)
  PROVE  LET all == errors \o Entries(n, found) IN
           /\ all \in Seq(LogEntry) /\ Len(all) = Len(errors) + Len(found)
           /\ Len(errors) \in Nat /\ Len(found) \in Nat
           /\ \A e \in 1..Len(errors) : all[e] = errors[e]
           /\ \A e \in 1..Len(all) : e > Len(errors) =>
                /\ e - Len(errors) \in 1..Len(found)
                /\ all[e].turn = n /\ all[e].detail = found[e - Len(errors)]
<1> DEFINE new == Entries(n, found)
           all == errors \o new
<1>1. errors \in Seq(LogEntry) /\ n \in Nat
  BY DEF Ordered
<1>2. /\ new \in Seq(LogEntry) /\ Len(new) = Len(found)
      /\ \A k \in 1..Len(found) : new[k].turn = n /\ new[k].detail = found[k]
  BY <1>1, EntriesType
<1> HIDE DEF new
<1>3. /\ Len(errors) \in Nat /\ Len(found) \in Nat
      /\ all \in Seq(LogEntry) /\ Len(all) = Len(errors) + Len(found)
      /\ \A e \in 1..Len(errors) : all[e] = errors[e]
      /\ \A e \in 1..Len(all) : e > Len(errors) => all[e] = new[e - Len(errors)]
  <2>1. new \in Seq(LogEntry)
    BY <1>2
  <2>2. /\ Len(errors) \in Nat /\ Len(new) \in Nat
        /\ all \in Seq(LogEntry) /\ Len(all) = Len(errors) + Len(new)
        /\ \A e \in 1..Len(errors) : all[e] = errors[e]
        /\ \A e \in 1..Len(all) : e > Len(errors) => all[e] = new[e - Len(errors)]
    BY <1>1, <2>1, ConcatElements
  <2>3. QED
    BY <1>2, <2>2
<1> HIDE DEF all
<1>4. \A e \in 1..Len(all) : e > Len(errors) => e - Len(errors) \in 1..Len(found)
  BY <1>3
<1>5. QED
  BY <1>2, <1>3, <1>4 DEF all, new

LEMMA OrderedGrows ==
  ASSUME NEW errors, NEW n, Ordered(errors, n), NEW found \in Seq(Text)
  PROVE  Ordered(errors \o Entries(n, found), n + 1)
<1> DEFINE all == errors \o Entries(n, found)
<1>1. /\ all \in Seq(LogEntry) /\ Len(all) = Len(errors) + Len(found)
      /\ Len(errors) \in Nat /\ Len(found) \in Nat
      /\ \A e \in 1..Len(errors) : all[e] = errors[e]
      /\ \A e \in 1..Len(all) : e > Len(errors) => all[e].turn = n
  BY Recorded
<1> HIDE DEF all
<1>2. n \in Nat /\ \A e \in 1..Len(errors) : errors[e].turn < n /\ errors[e].turn \in Nat
  BY EntriesNameTurns
<1>3. ASSUME NEW e \in 1..Len(all)
      PROVE  all[e].turn < n + 1 /\ (e > 1 => all[e - 1].turn <= all[e].turn)
  <2>1. CASE e <= Len(errors)
    <3>1. e \in 1..Len(errors) /\ (e > 1 => e - 1 \in 1..Len(errors))
      BY <1>1, <2>1
    <3>2. all[e] = errors[e] /\ (e > 1 => all[e - 1] = errors[e - 1])
      BY <1>1, <3>1
    <3>3. e > 1 => errors[e - 1].turn <= errors[e].turn
      BY <3>1 DEF Ordered
    <3>4. QED
      BY <1>2, <3>1, <3>2, <3>3
  <2>2. CASE e > Len(errors)
    <3>1. all[e].turn = n
      BY <1>1, <2>2
    <3>2. e > 1 => all[e - 1].turn <= n
      <4>1. CASE e - 1 > Len(errors)
        BY <1>1, <1>2, <4>1
      <4>2. CASE e - 1 <= Len(errors) /\ e > 1
        <5>1. e - 1 \in 1..Len(errors)
          BY <1>1, <4>2
        <5>2. QED
          BY <1>1, <1>2, <5>1
      <4>3. QED
        BY <1>1, <4>1, <4>2
    <3>3. QED
      BY <1>2, <3>1, <3>2
  <2>3. QED
    BY <1>1, <2>1, <2>2
<1>4. QED
  BY <1>1, <1>2, <1>3 DEF Ordered, all

LEMMA InPlaceGrows ==
  ASSUME NEW errors, NEW n, Ordered(errors, n), NEW replies \in Seq(KeptMessage),
         n = Len(replies), InPlace(errors, replies), NEW m \in KeptMessage
  PROVE  InPlace(errors \o Entries(n, Violations(m.text)), Append(replies, m))
<1> DEFINE found == Violations(m.text)
           all == errors \o Entries(n, found)
           longer == Append(replies, m)
<1>1. found \in Seq(Text)
  BY ViolationsType DEF KeptMessage, Message
<1> HIDE DEF found
<1>2. /\ Len(errors) \in Nat /\ Len(all) = Len(errors) + Len(found)
      /\ \A e \in 1..Len(errors) : all[e] = errors[e]
      /\ \A e \in 1..Len(all) : e > Len(errors) =>
                /\ e - Len(errors) \in 1..Len(found)
                /\ all[e].turn = n /\ all[e].detail = found[e - Len(errors)]
  BY <1>1, Recorded
<1>3. (\A k \in 1..n : longer[k] = replies[k]) /\ longer[n + 1] = m /\ n \in Nat
  OBVIOUS
<1> HIDE DEF all, longer
<1>4. ASSUME NEW e \in 1..Len(all)
      PROVE  all[e].detail \in ToSet(Violations(longer[all[e].turn + 1].text))
  <2>1. CASE e \in 1..Len(errors)
    <3>1. errors[e].turn + 1 \in 1..n
      BY <1>3, <2>1, EntriesNameTurns
    <3>2. all[e] = errors[e] /\ longer[errors[e].turn + 1] = replies[errors[e].turn + 1]
      BY <1>2, <1>3, <2>1, <3>1
    <3>3. errors[e].detail \in ToSet(Violations(replies[errors[e].turn + 1].text))
      BY <2>1 DEF InPlace
    <3>4. QED
      BY <3>2, <3>3
  <2>2. CASE e > Len(errors)
    <3>1. longer[all[e].turn + 1] = m /\ all[e].detail = found[e - Len(errors)]
          /\ e - Len(errors) \in 1..Len(found)
      BY <1>2, <1>3, <2>2
    <3>2. found[e - Len(errors)] \in ToSet(found)
      BY <1>1, <3>1 DEF ToSet
    <3>3. QED
      BY <3>1, <3>2 DEF found
  <2>3. QED
    BY <1>2, <2>1, <2>2
<1>5. QED
  BY <1>4 DEF InPlace, all, longer, found

-----------------------------------------------------------------------------
(* The counts. *)

RepliesOf(msgs) == Of(msgs, "assistant")
SaidIn(msgs)    == Len(Of(msgs, "user"))
Found(msgs)     == Len(ViolationsOf(RepliesOf(msgs)))

LEMMA CountTypes ==
  ASSUME NEW msgs \in Seq(KeptMessage)
  PROVE  /\ RepliesOf(msgs) \in Seq(KeptMessage) /\ Len(RepliesOf(msgs)) \in Nat
         /\ SaidIn(msgs) \in Nat /\ Found(msgs) \in Nat
<1>1. RepliesOf(msgs) \in Seq(KeptMessage) /\ Of(msgs, "user") \in Seq(KeptMessage)
  BY OfType DEF RepliesOf
<1>2. ViolationsOf(RepliesOf(msgs)) \in Seq(Text)
  BY <1>1, ViolationsOfIsPicked
<1>3. QED
  BY <1>1, <1>2, LenProperties DEF SaidIn, Found

LEMMA NothingCounted ==
  RepliesOf(<<>>) = <<>> /\ SaidIn(<<>>) = 0 /\ Found(<<>>) = 0
<1>1. <<>> \in Seq(KeptMessage)
  OBVIOUS
<1>2. Of(<<>>, "assistant") = <<>> /\ Of(<<>>, "user") = <<>> /\ ViolationsOf(<<>>) = <<>>
  BY <1>1, OfIsPicked, ViolationsOfIsPicked, PickedEmpty
<1>3. QED
  BY <1>2 DEF RepliesOf, SaidIn, Found

LEMMA UtteranceCounted ==
  ASSUME NEW msgs \in Seq(KeptMessage), NEW t \in Text
  PROVE  LET all == Append(msgs, User(t)) IN
           /\ RepliesOf(all) = RepliesOf(msgs) /\ Found(all) = Found(msgs)
           /\ SaidIn(all) = SaidIn(msgs) + 1
<1> DEFINE m == User(t)
<1>1. m \in KeptMessage /\ m.role = "user"
  BY KeptUser DEF User
<1> HIDE DEF m
<1>2. Of(Append(msgs, m), "user") = Append(Of(msgs, "user"), m)
  BY <1>1, OfAppend
<1>3. Of(Append(msgs, m), "assistant") = Of(msgs, "assistant")
  BY <1>1, OfAppend
<1>4. Of(msgs, "user") \in Seq(KeptMessage)
  BY OfType
<1>5. Len(Append(Of(msgs, "user"), m)) = Len(Of(msgs, "user")) + 1
  BY <1>1, <1>4, AppendProperties
<1>6. QED
  BY <1>2, <1>3, <1>5 DEF RepliesOf, Found, SaidIn, m

LEMMA ReplyCounted ==
  ASSUME NEW msgs \in Seq(KeptMessage), NEW m \in KeptMessage, m.role = "assistant"
  PROVE  LET all == Append(msgs, m) IN
           /\ RepliesOf(all) = Append(RepliesOf(msgs), m)
           /\ Len(RepliesOf(all)) = Len(RepliesOf(msgs)) + 1
           /\ Found(all) = Found(msgs) + Len(Violations(m.text))
           /\ SaidIn(all) = SaidIn(msgs)
<1>1. Of(Append(msgs, m), "assistant") = Append(Of(msgs, "assistant"), m)
  BY OfAppend
<1>2. Of(Append(msgs, m), "user") = Of(msgs, "user")
  BY OfAppend
<1>3. Of(msgs, "assistant") \in Seq(KeptMessage)
  BY OfType
<1> DEFINE r == Of(msgs, "assistant")
<1> HIDE DEF r
<1>4. r \in Seq(KeptMessage)
  BY <1>3 DEF r
<1>5. Len(Append(r, m)) = Len(r) + 1
  BY <1>4, AppendProperties
<1>6. Len(ViolationsOf(Append(r, m))) = Len(ViolationsOf(r)) + Len(Violations(m.text))
  BY <1>4, ViolationsOfAppend
<1>7. QED
  BY <1>1, <1>2, <1>5, <1>6 DEF RepliesOf, Found, SaidIn, r

(* What the profile's log becomes. *)
LEMMA ProfileLog ==
  ASSUME NEW p, IsProfile(p), NEW s, NEW text, NEW h
  PROVE  /\ WithScenario(p, s).errors = p.errors
         /\ WithScenario(p, s).turnsCompleted = p.turnsCompleted
         /\ Taught(p, text).errors = p.errors \o Entries(p.turnsCompleted, Violations(text))
         /\ Taught(p, text).turnsCompleted = p.turnsCompleted + 1
         /\ [p EXCEPT !.messages = h].errors = p.errors
         /\ [p EXCEPT !.messages = h].turnsCompleted = p.turnsCompleted
<1>1. PICK a, e, k, n :
        p = [scenarios |-> a, errors |-> e, messages |-> k, turnsCompleted |-> n]
  BY DEF IsProfile
<1>2. \A c : /\ [p EXCEPT !.scenarios = c].errors = p.errors
             /\ [p EXCEPT !.scenarios = c].turnsCompleted = p.turnsCompleted
  BY <1>1
<1>3. /\ [p EXCEPT !.messages = h].errors = p.errors
      /\ [p EXCEPT !.messages = h].turnsCompleted = p.turnsCompleted
  BY <1>1
<1>4. \A c, d : /\ [p EXCEPT !.errors = c, !.turnsCompleted = d].errors = c
                /\ [p EXCEPT !.errors = c, !.turnsCompleted = d].turnsCompleted = d
  BY <1>1
<1>5. /\ WithScenario(p, s).errors = p.errors
      /\ WithScenario(p, s).turnsCompleted = p.turnsCompleted
  BY <1>2 DEF WithScenario
<1> DEFINE c == p.errors \o Entries(p.turnsCompleted, Violations(text))
           d == p.turnsCompleted + 1
<1>6. Taught(p, text) = [p EXCEPT !.errors = c, !.turnsCompleted = d]
  BY DEF Taught, Entries
<1> HIDE DEF c, d
<1>7. Taught(p, text).errors = c /\ Taught(p, text).turnsCompleted = d
  BY <1>4, <1>6
<1>8. QED
  BY <1>3, <1>5, <1>7 DEF c, d

-----------------------------------------------------------------------------
(* The log: the inductive invariant. *)

(* No history holds an error the log has not. *)
Covers ==
  /\ Found(messages) <= Len(learner.errors)
  /\ Found(learner.messages) <= Len(learner.errors)

(* A reply has its utterance, and so has the turn that is on. *)
Answered ==
  /\ Len(RepliesOf(messages)) + (IF InTurn THEN 1 ELSE 0) <= SaidIn(messages)
  /\ Len(RepliesOf(learner.messages)) <= SaidIn(learner.messages)

(* While every history was saved, the history is the whole of it. *)
Balanced == ~unsaved =>
  /\ learner.turnsCompleted = Len(RepliesOf(messages))
  /\ Len(learner.errors) = Found(messages)
  /\ InPlace(learner.errors, RepliesOf(messages))
  /\ phase = "ended" => learner.messages = messages

LogInv == Ordered(learner.errors, learner.turnsCompleted) /\ Covers /\ Answered /\ Balanced

(* A step that leaves the log and the history. *)
LEMMA LogUntouched ==
  ASSUME TextInv, LogInv, UNCHANGED <<messages, unsaved>>,
         learner'.errors = learner.errors, learner'.turnsCompleted = learner.turnsCompleted,
         learner'.messages = learner.messages, InTurn' => InTurn,
         phase' = "ended" => phase = "ended"
  PROVE  LogInv'
<1>1. Ordered(learner.errors, learner.turnsCompleted)'
  BY DEF LogInv
<1>2. Covers'
  BY DEF LogInv, Covers
<1>3. Len(RepliesOf(messages)) + (IF InTurn' THEN 1 ELSE 0) <= SaidIn(messages)
  <2>1. Len(RepliesOf(messages)) + (IF InTurn THEN 1 ELSE 0) <= SaidIn(messages)
    BY DEF LogInv, Answered
  <2>2. Len(RepliesOf(messages)) \in Nat /\ SaidIn(messages) \in Nat
    BY CountTypes DEF TextInv, TextTypes
  <2>3. CASE InTurn'
    BY <2>1, <2>3
  <2>4. CASE ~InTurn'
    <3>1. Len(RepliesOf(messages)) <= SaidIn(messages)
      BY <2>1, <2>2
    <3>2. QED
      BY <2>2, <2>4, <3>1
  <2>5. QED
    BY <2>3, <2>4
<1>4. Answered'
  BY <1>3 DEF LogInv, Answered
<1>5. Balanced'
  BY DEF LogInv, Balanced
<1>6. QED
  BY <1>1, <1>2, <1>4, <1>5 DEF LogInv

LEMMA LogInit == Init => LogInv
<1> SUFFICES ASSUME Init PROVE LogInv
  OBVIOUS
<1>1. learner.messages = <<>> /\ learner.errors = <<>> /\ learner.turnsCompleted = 0
  <2>1. /\ IsProfile(NewLearner) /\ NewLearner.messages = <<>> /\ NewLearner.errors = <<>>
        /\ NewLearner.turnsCompleted = 0
    BY DEF IsProfile, NewLearner
  <2>2. PICK s \in ScenarioIds : learner = WithScenario(NewLearner, s)
    BY DEF Init
  <2>3. WithScenario(NewLearner, s).messages = NewLearner.messages
    BY <2>1, ProfileKept
  <2>4. /\ WithScenario(NewLearner, s).errors = NewLearner.errors
        /\ WithScenario(NewLearner, s).turnsCompleted = NewLearner.turnsCompleted
    BY <2>1, ProfileLog
  <2>5. QED
    BY <2>1, <2>2, <2>3, <2>4
<1>2. messages = <<>> /\ ~InTurn
  BY DEF Init, InTurn
<1>3. Ordered(<<>>, 0) /\ InPlace(<<>>, <<>>)
  <2>1. <<>> \in Seq(LogEntry) /\ Len(<<>>) = 0 /\ 1..0 = {}
    OBVIOUS
  <2>2. QED
    BY <2>1 DEF Ordered, InPlace
<1>4. Len(<<>>) = 0
  OBVIOUS
<1>5. QED
  BY <1>1, <1>2, <1>3, <1>4, NothingCounted DEF LogInv, Covers, Answered, Balanced

LEMMA HearLog == ASSUME Inv, TextInv, LogInv, Hear PROVE LogInv'
<1> DEFINE t == UtteranceAt(cursor)
           all == Append(messages, User(t))
<1>1. messages \in Seq(KeptMessage) /\ t \in Text
  BY ScriptedText DEF Inv, Types, TextInv, TextTypes
<1> HIDE DEF t
<1>2. /\ RepliesOf(all) = RepliesOf(messages) /\ Found(all) = Found(messages)
      /\ SaidIn(all) = SaidIn(messages) + 1
  BY <1>1, UtteranceCounted
<1>3. messages' = all /\ learner' = learner /\ unsaved' = unsaved /\ phase' = "created"
      /\ phase = "listening"
  BY DEF Hear, historyVars, t
<1> HIDE DEF all
<1>4. Len(RepliesOf(messages)) \in Nat /\ SaidIn(messages) \in Nat
  BY <1>1, CountTypes
<1>5. Answered'
  <2>1. Len(RepliesOf(messages)) <= SaidIn(messages)
    BY <1>3, <1>4 DEF LogInv, Answered, InTurn
  <2>2. Len(RepliesOf(all)) + 1 <= SaidIn(all)
    BY <1>2, <1>4, <2>1
  <2>3. InTurn'
    BY <1>3 DEF InTurn
  <2>4. QED
    BY <1>3, <2>2, <2>3 DEF LogInv, Answered
<1>6. Ordered(learner.errors, learner.turnsCompleted)' /\ Covers'
  BY <1>2, <1>3 DEF LogInv, Covers
<1>7. Balanced'
  BY <1>2, <1>3 DEF LogInv, Balanced
<1>8. QED
  BY <1>5, <1>6, <1>7 DEF LogInv

LEMMA CompleteLog == ASSUME Inv, TextInv, LogInv, Complete PROVE LogInv'
<1> DEFINE text  == JoinClauses(parts)
           m     == Assistant(text, reply)
           found == Violations(text)
           all   == Append(messages, m)
           log   == learner.errors \o Entries(learner.turnsCompleted, found)
<1>1. text \in Text /\ m \in KeptMessage /\ m.role = "assistant" /\ m.text = text
  BY SpokenReply DEF Assistant
<1>2. found \in Seq(Text) /\ found = Violations(m.text)
  BY <1>1, ViolationsType
<1>3. /\ messages' = all /\ learner' = Taught(learner, text) /\ unsaved' = unsaved
      /\ phase' = "listening" /\ phase = "written"
  BY DEF Complete, historyVars
<1>4. IsProfile(learner) /\ messages \in Seq(KeptMessage) /\ learner.messages \in Seq(KeptMessage)
  BY DEF Inv, Types, TextInv, TextTypes
<1> HIDE DEF text, m, found
<1>5. /\ learner'.messages = learner.messages /\ learner'.errors = log
      /\ learner'.turnsCompleted = learner.turnsCompleted + 1
  BY <1>3, <1>4, ProfileKept, ProfileLog DEF found
<1>6. /\ RepliesOf(all) = Append(RepliesOf(messages), m)
      /\ Len(RepliesOf(all)) = Len(RepliesOf(messages)) + 1
      /\ Found(all) = Found(messages) + Len(found)
      /\ SaidIn(all) = SaidIn(messages)
  BY <1>1, <1>2, <1>4, ReplyCounted
<1>7. Ordered(learner.errors, learner.turnsCompleted)
  BY DEF LogInv
<1>8. /\ Ordered(log, learner.turnsCompleted + 1)
      /\ Len(log) = Len(learner.errors) + Len(found)
      /\ Len(learner.errors) \in Nat /\ Len(found) \in Nat
  BY <1>2, <1>7, OrderedGrows, Recorded
<1> HIDE DEF log, all
<1>9. /\ Len(RepliesOf(messages)) \in Nat /\ SaidIn(messages) \in Nat
      /\ Found(messages) \in Nat /\ Found(learner.messages) \in Nat
      /\ RepliesOf(messages) \in Seq(KeptMessage)
  BY <1>4, CountTypes
<1>10. Covers'
  <2>1. Found(all) <= Len(log) /\ Found(learner.messages) <= Len(log)
    BY <1>6, <1>8, <1>9 DEF LogInv, Covers
  <2>2. QED
    BY <1>3, <1>5, <2>1 DEF Covers
<1>11. Answered'
  <2>1. Len(RepliesOf(messages)) + 1 <= SaidIn(messages)
    BY <1>3 DEF LogInv, Answered, InTurn
  <2>2. ~InTurn'
    BY <1>3 DEF InTurn
  <2>3. Len(RepliesOf(all)) + 0 <= SaidIn(all)
    BY <1>6, <1>9, <2>1
  <2>4. QED
    BY <1>3, <1>5, <2>2, <2>3 DEF LogInv, Answered
<1>12. Balanced'
  <2> SUFFICES ASSUME ~unsaved
      PROVE  /\ learner.turnsCompleted + 1 = Len(RepliesOf(all)) /\ Len(log) = Found(all)
             /\ InPlace(log, RepliesOf(all))
    BY <1>3, <1>5 DEF Balanced
  <2>1. /\ learner.turnsCompleted = Len(RepliesOf(messages))
        /\ Len(learner.errors) = Found(messages)
        /\ InPlace(learner.errors, RepliesOf(messages))
    BY DEF LogInv, Balanced
  <2>2. InPlace(learner.errors \o Entries(learner.turnsCompleted, Violations(m.text)),
                Append(RepliesOf(messages), m))
    BY <1>1, <1>7, <1>9, <2>1, InPlaceGrows
  <2>3. QED
    BY <1>2, <1>6, <1>8, <2>1, <2>2 DEF log
<1>13. Ordered(learner.errors, learner.turnsCompleted)'
  BY <1>5, <1>8
<1>14. QED
  BY <1>10, <1>11, <1>12, <1>13 DEF LogInv

LEMMA EndSessionLog == ASSUME Inv, TextInv, LogInv, EndSession PROVE LogInv'
<1>1. messages' = messages /\ phase' = "ended" /\ ~InTurn'
  BY DEF EndSession, SaveHistory, InTurn
<1>2. \/ learner' = [learner EXCEPT !.messages = messages] /\ unsaved' = unsaved
      \/ learner' = learner /\ unsaved' = TRUE
  BY DEF EndSession, SaveHistory
<1>3. IsProfile(learner) /\ messages \in Seq(KeptMessage)
  BY DEF Inv, Types, TextInv, TextTypes
<1>4. /\ learner'.errors = learner.errors /\ learner'.turnsCompleted = learner.turnsCompleted
      /\ learner'.messages \in {messages, learner.messages}
      /\ ~unsaved' => ~unsaved /\ learner'.messages = messages
  <2> DEFINE saved == [learner EXCEPT !.messages = messages]
  <2>1. saved.messages = messages
    BY <1>3, ProfileChanged
  <2>2. saved.errors = learner.errors /\ saved.turnsCompleted = learner.turnsCompleted
    BY <1>3, ProfileLog
  <2> HIDE DEF saved
  <2>3. CASE learner' = saved /\ unsaved' = unsaved
    BY <2>1, <2>2, <2>3
  <2>4. CASE learner' = learner /\ unsaved' = TRUE
    BY <2>4
  <2>5. QED
    BY <1>2, <2>3, <2>4 DEF saved
<1>5. Len(RepliesOf(messages)) \in Nat /\ SaidIn(messages) \in Nat
  BY <1>3, CountTypes
<1>6. Len(RepliesOf(messages)) <= SaidIn(messages)
  <2>1. CASE InTurn
    <3>1. Len(RepliesOf(messages)) + 1 <= SaidIn(messages)
      BY <2>1 DEF LogInv, Answered
    <3>2. QED
      BY <1>5, <3>1
  <2>2. CASE ~InTurn
    <3>1. Len(RepliesOf(messages)) + 0 <= SaidIn(messages)
      BY <2>2 DEF LogInv, Answered
    <3>2. QED
      BY <1>5, <3>1
  <2>3. QED
    BY <2>1, <2>2
<1>7. Answered'
  <2>1. Len(RepliesOf(messages)) + 0 <= SaidIn(messages)
    BY <1>5, <1>6
  <2>2. \A h \in {messages, learner.messages} : Len(RepliesOf(h)) <= SaidIn(h)
    BY <1>6 DEF LogInv, Answered
  <2>3. QED
    BY <1>1, <1>4, <2>1, <2>2 DEF Answered
<1>8. Ordered(learner.errors, learner.turnsCompleted)' /\ Covers'
  BY <1>1, <1>4 DEF LogInv, Covers
<1>9. Balanced'
  BY <1>1, <1>4 DEF LogInv, Balanced
<1>10. QED
  BY <1>7, <1>8, <1>9 DEF LogInv

LEMMA OpenSessionLog == ASSUME Inv, TextInv, LogInv, OpenSession PROVE LogInv'
<1>1. PICK s \in ScenarioIds : learner' = WithScenario(learner, s)
  BY DEF OpenSession
<1>2. /\ learner'.errors = learner.errors /\ learner'.turnsCompleted = learner.turnsCompleted
      /\ learner'.messages = learner.messages
  BY <1>1, ProfileKept, ProfileLog DEF Inv, Types
<1>3. /\ messages' = learner.messages /\ phase = "ended" /\ phase' = "listening"
      /\ unsaved' = unsaved /\ ~InTurn'
  BY DEF OpenSession, InTurn
<1>4. learner.messages \in Seq(KeptMessage)
  BY DEF TextInv, TextTypes
<1>5. Len(RepliesOf(learner.messages)) \in Nat /\ SaidIn(learner.messages) \in Nat
  BY <1>4, CountTypes
<1>6. Answered'
  <2>1. Len(RepliesOf(learner.messages)) <= SaidIn(learner.messages)
    BY DEF LogInv, Answered
  <2>2. Len(RepliesOf(learner.messages)) + 0 <= SaidIn(learner.messages)
    BY <1>5, <2>1
  <2>3. QED
    BY <1>2, <1>3, <2>1, <2>2 DEF Answered
<1>7. Ordered(learner.errors, learner.turnsCompleted)' /\ Covers'
  BY <1>2, <1>3 DEF LogInv, Covers
<1>8. Balanced'
  BY <1>2, <1>3 DEF LogInv, Balanced
<1>9. QED
  BY <1>6, <1>7, <1>8 DEF LogInv

LEMMA LogNext == Inv /\ TextInv /\ LogInv /\ [Next]_vars => LogInv'
<1> SUFFICES ASSUME Inv, TextInv, LogInv, [Next]_vars PROVE LogInv'
  OBVIOUS
<1>1. CASE Ask \/ Write \/ FinishWriting \/ Speak \/ BargeIn \/ UNCHANGED vars
  <2>1. UNCHANGED <<messages, unsaved, learner>>
    BY <1>1 DEF Ask, Write, FinishWriting, Speak, BargeIn, vars, historyVars
  <2>2. (InTurn' => InTurn) /\ (phase' = "ended" => phase = "ended")
    BY <1>1 DEF Ask, Write, FinishWriting, Speak, BargeIn, vars, historyVars, InTurn
  <2>3. QED
    BY <2>1, <2>2, LogUntouched
<1>2. QED
  BY <1>1, HearLog, CompleteLog, EndSessionLog, OpenSessionLog DEF Next

-----------------------------------------------------------------------------

(* It implies the property. *)
LEMMA LogIsRight == TextInv /\ LogInv => LogIsOfReplies
<1> SUFFICES ASSUME TextInv, LogInv PROVE LogIsOfReplies
  OBVIOUS
<1>1. /\ Replies = RepliesOf(messages) /\ Report(messages).violations = Found(messages)
      /\ Report(messages).turns = SaidIn(messages)
  BY DEF Replies, RepliesOf, Report, Found, SaidIn
<1>2. learner.errors \in Seq(LogEntry) /\ DOMAIN learner.errors = 1..Len(learner.errors)
      /\ Len(learner.errors) \in Nat
  BY DEF LogInv, Ordered
<1>3. \A e \in DOMAIN learner.errors :
        /\ learner.errors[e].turn < learner.turnsCompleted
        /\ e > 1 => learner.errors[e - 1].turn <= learner.errors[e].turn
  BY <1>2 DEF LogInv, Ordered
<1>4. ~unsaved =>
        /\ learner.turnsCompleted = Len(Replies)
        /\ Len(learner.errors) = Report(messages).violations
        /\ \A e \in DOMAIN learner.errors :
             learner.errors[e].detail
               \in ToSet(Violations(Replies[learner.errors[e].turn + 1].text))
  BY <1>1, <1>2 DEF LogInv, Balanced, InPlace
<1>5. /\ Len(RepliesOf(messages)) \in Nat /\ SaidIn(messages) \in Nat /\ Found(messages) \in Nat
  BY CountTypes DEF TextInv, TextTypes
<1>6. Len(learner.errors) >= Found(messages)
  BY <1>2, <1>5 DEF LogInv, Covers
<1>7. SaidIn(messages) >= Len(RepliesOf(messages))
  BY <1>5 DEF LogInv, Answered
<1>8. QED
  BY <1>1, <1>3, <1>4, <1>6, <1>7 DEF LogIsOfReplies

(* The hook that logs errors reply by reply and the report that counts     *)
(* them from the history agree (factory.py, report.py), and every entry    *)
(* names the completed reply it was found in, over all the sessions of the *)
(* learner.                                                                *)
THEOREM TheLogIsOfReplies == Spec => []LogIsOfReplies
BY InvInit, InvNext, TextInit, TextNext, LogInit, LogNext, LogIsRight, PTL DEF Spec

=============================================================================
