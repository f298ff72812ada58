# Formal models of the Parlons voice session

TLA+ models of Parlons, a voice conversation partner for language learners: a
FastAPI gateway, an asyncio session orchestrator and a streaming speech pipeline
(`server/app`), a browser client (`web/src`) and an offline evaluation harness
(`eval`). TLC checks the models on small instances; TLAPS proves the main results
for every value of the constants. Paths below are relative to the repository.

Contents: 1 the system, 2 the modules, 3 how model and code correspond, 4 the runs,
5 fairness, 6 the proofs, 7 findings, 8 what is not modelled, 9 the plan.

## 1. The system

One browser tab holds one WebSocket to one gateway coroutine, which owns one
orchestrator; each assistant turn is one task running the pipeline, which owns one
feed task. The demo guards are shared by all connections of the process.

    browser client --ws--> gateway endpoint --handlers--> orchestrator --task--> run_turn --task--> feed_llm
         ^                                                    |  outbox queue        |  clause queue  |
         +------------------ sender <-------------------------+                    TTS             LLM

| component | state | operations | interacts with |
|---|---|---|---|
| Session orchestrator (`session/orchestrator.py`, `events.py`) | history, `_state`, open audio stream, pre-roll buffer, turn task, timeline, turn counter | `on_audio_frame`, `on_speech_start`, `on_speech_end`, `_run_turn`, `restore_history`, `close` | awaits the STT; runs the pipeline as a task; puts events on the outbox |
| Cascaded pipeline (`pipeline/cascaded.py`) | feed task, clause queue with a `None` sentinel, chunker, timeline marks | `run_turn`, `feed_llm` | LLM, TTS, chunker |
| Clause chunker (`pipeline/chunker.py`) | text buffer | `feed`, `flush` | called by `feed_llm` |
| Telemetry (`telemetry/spans.py`) | marks of a turn | `mark`, `summary`, `percentile` | written by orchestrator and pipeline |
| Providers (`providers/*`) | an SDK session | `stream`, `synthesize`, `aclose` | called by orchestrator and pipeline |
| Gateway (`main.py`) | endpoint, sender task, outbox, turn cap | admit, receive loop, send loop, unwind | client, orchestrator, guards |
| Demo guards (`security/demo_guard.py`) | times per address, day and count, count per session | `check`, `allow`, `record_turn` | called by the gateway |
| Session factory (`session/factory.py`) | none of its own | build an orchestrator, `on_turn_complete` hook | pedagogy, learner state |
| Learner state (`state/*`) | profiles, error log, saved messages | record, store, report | written by the hook |
| Pedagogy (`pedagogy/*`) | language packs | load, tokenise, ceiling check, prompt | read by the factory |
| Browser client (`web/src`) | VAD counters, socket, scheduled audio, capture | connect, disconnect, callbacks | gateway, microphone, speaker |
| Evaluation harness (`eval/*`) | none | generate, score, gate, report | providers, pedagogy, telemetry |

**Hard behaviours and what correctness means**

- *Orchestrator.* Two coroutines write the same four fields: a handler and the turn
  task. A barge-in races the end of the turn; a task may be cancelled before its
  first line, or may have failed with nobody awaiting it; frames arrive in every
  mode. Correct: the fields agree, every turn has exactly one final outcome, the
  history is exactly what was delivered (ADR-005), no audio frame is lost or heard
  twice, and barge-in and close take effect.
- *Pipeline.* A producer task, a consumer and a queue, each of which may fail or be
  cancelled at any suspension. Correct: no text is lost, doubled or reordered, the
  consumer is never left waiting, a failure surfaces, the feed task does not
  outlive the turn, the latency marks are causal.
- *Gateway.* The sender and the endpoint share a socket; the client may vanish; the
  guards are shared, and the clock and the calendar move between their uses.
  Correct: events reach the wire whole and in order, limits hold over every window
  and day, and a connection that ends leaves nothing running.
- *Client.* Browser callbacks interleave with the awaits of `connect` and
  `startCapture`; a transport that was replaced still has callbacks. Correct: what
  the server hears is framed speech, an utterance ends for a reason, the button
  reaches the microphone and the socket in use, what plays is current.
- *A lesson.* Text passes through a chunker that strips, cuts and drops, comes back
  together in `join_clauses`, is checked against the level's ceiling by a hook and
  again by a report, and is restored in the next session; turns are cut off in
  between. Correct: the history is what was written, and the two counts agree.
- *Evaluation.* Rates are rounded, percentiles take a rank, scores are cut to
  integers, ties share ranks. Correct: a green gate lets nothing through that it is
  there to stop.

`PROJECT.json` lists each hazard at its line, with the properties that cover it or, where
none does, the reason.

## 2. The modules

| module | what it is |
|---|---|
| `SessionTypes` | messages of the history and events of the outbox |
| `TurnContract` | abstract: what a session promises to its client and to the model |
| `Orchestrator`, `MCOrchestrator` | the session; refines `TurnContract` |
| `SpokenReply` | abstract: what `run_turn` promises the orchestrator |
| `CascadedPipeline` | `run_turn` with feed, queue and sentinel; refines `SpokenReply` |
| `Gateway`, `MCGateway` | the endpoint and sender of any number of connections, with the guards |
| `ClauseChunker` | the chunker and `join_clauses`, as functions on texts |
| `Lesson`, `MCLesson` | a learner's sessions as the factory builds them on the scripted providers; uses `ClauseChunker` |
| `LanguagePack` | loading a pack: levels, cumulative ceilings, scenarios |
| `Percentile` | `percentile` and `LatencyReport`, with Python's rounding |
| `JudgeValidation` | parsing a judge's answer, ranks, rho against its target, the judge gates |
| `Evaluation`, `MCEvaluation` | a run of the harness; composes the three above |
| `VoiceClient` | the browser client with the server at the other end of its sockets |
| `TurnContractProofs`, `OrchestratorProofs`, `CascadedPipelineProofs`, `GatewayProofs`, `VoiceClientProofs`, `LessonProofs`, `EvaluationProofs` | theorems and proofs |
| `DataLemmas` | facts about numbers, sets and sequences the proofs share |

Definitions headed "Mutant:" are changed forms of the definition after them; no
specification uses them. Each breaks one property, which shows that the property
depends on that line of the code.

## 3. How model and code correspond

**The unit of interleaving.** All server code runs on one event loop, so an action is
the code from one real suspension to the next. `await queue.put` on an unbounded
queue does not suspend, and neither does `async for` over a value that is ready, so
for example everything after the loop of `_run_turn` is the one action
`TurnCompletes`. Real suspensions are the STT, the LLM and TTS streams, `queue.get`
on an empty queue, and `await task`.

**Orchestrator.** `driver` is the program counter of the caller. The gateway awaits a
handler before it receives the next message, so there is one driver in at most one
handler. The other variables are the object's fields, plus four history variables
that nothing reads: `outbox` keeps all events, and `received`, `heard` and
`overflowed` account for the frames. `BargeIn`, `TurnCancelled` and `FinishBargeIn`
are `on_speech_start` cut at `await task`. `task.cancel()` makes the task's next
resumption raise, so no step of the turn follows a cancellation request, and a task
that was never entered ends without running a line. Text is reduced to the turn it
belongs to and a reply to its sequence of clauses: ADR-005 is about which text is in
the history, not its wording. `turnCounter` is `_turn_counter` after the increment, so
it is one more than the turn id the code prints.

**Pipeline.** Text is counted in units (non-blank characters, say) and a clause is the
interval it covers, so loss, overlap and order are arithmetic. The chunker may
release any prefix of what it holds, in any number of clauses per delta; the real one
cuts at punctuation. A delta may have text, the finish reason or both, and the stream may
go on after the finish reason. A TTS may fail at a clause or before its first one, and may
skip a clause, as Azure does on a failed synthesis. The
`finally` block of `feed_llm` is `Flush`, used by every way the feed can end except
being cancelled before its first step.

**Gateway.** `at` and `sender` are the program counters of the two coroutines of a
connection. The orchestrator is reduced to its mode, whether a turn is running, and
its events; awaiting a cancelled turn is one step, since `Orchestrator` has the
detail and `BargeInTakesEffect` says it ends. The list of the rate limiter is a set
of (connection, time), because the code filters and counts it and never uses its
order. A send to a vanished client raises `WebSocketDisconnect`, the exception the
endpoint's own `except` clause expects of it. Audio frames change nothing here and
are left out.

**Client.** JavaScript is single-threaded, so an action is a callback up to its return
or to the next await that waits. A session is a call of `connect()`, with a number;
what the call creates (transport, VAD, capture) has its number, and the module-level
`transport` and `capture` hold a number or 0. `stage` is the program counter of the
call: the first one waits for the playback context (`Resume`), each one for the
microphone (`Grant`) and for the worklet (`Captured`), and either can be refused
(`Refuse`, the `catch` of the click handler). `Frame` is one frame through `onLevel` and
`onFrame`, in that order. The callbacks name the variable `transport`, not the one they
were made with, and so does `Frame`; the close callback of an old transport changes the
button of the new session, and so does `Closed`. `ServerReads` and `ServerSpeaks` are the
receive loop and the sender of the gateway as the client sees them, with an error
between the two halves of a clause where a limit is reached. `orphans` is a history
variable: sessions whose microphone no button stops any more.

**Lesson.** A text is a sequence of characters, one for each class the chunker tells
apart (lower case, capital, space, full stop, other terminator, CJK, CJK terminator);
here what happens to single characters is the point. `Take` is the loop of `feed` as a
recursive function. A turn is `Ask`, `Write` per delta of `MockLLM`, `Speak` per clause, and
`Complete`, which appends to the history and runs the factory's hook, or `BargeIn`. The
finer interleavings are those of `Orchestrator`. `EndSession` is
`close()`, and the history is saved or lost: `learner.py` 34-36 leaves saving to the owner of
the session. No owner in the repository saves it, so `SaveHistory` has no code behind it
(it is marked external); it is there because `build_pedagogy_orchestrator` restores what
such an owner would have written. `written` in a message is the model's text, kept to compare; `cutUnasked` and
`unsaved` are history variables.

**Evaluation.** `run_full_eval` is `LoadGoldenSet`, then `Generate` per turn and `EvalPack` per
pack, then `ReplayTurns` and `Report`; every step that raises ends the run. `Judge` is what
`run_judge` does with one answer of the judge model. A reply is a bag of words, since
the metrics count words; the two checks that search the text for a string, for target
vocabulary and for Latin letters in a CJK reply, are given what the text holds (`Written`).
Rates are whole ten-thousandths, ranks are doubled, and averages of marks are counted in
parts of 1/`Scale`, so all arithmetic is exact. `Scale` is any common multiple of the numbers
of marks that are averaged; there is one for any rubric and any labels, and it limits
neither. `ReachesTarget` compares rho with 0.7 without its root. A percentile takes its rank
with Python's half-to-even rounding, and is itself rounded to hundredths of a millisecond
before the gate compares it; latencies are whole thousandths. What is exact here is a float
in the code: a value that lies on a limit to the last digit (rho of 0.7, an average of 3.2)
may be an ulp to either side of it there.

## 4. The runs

| run | states | what it shows |
|---|---|---|
| `orchestrator` | 54,796 | no turn is counted without an utterance the STT answered (in `TypeOK`); the fields agree (`ModeCoherent`); the prompt is the conversation as it stands (`PromptIsHistory`); frames are neither lost nor heard twice (`FramesConserved`) and the buffer keeps the newest (`PreRollKeepsMostRecent`); one final outcome per turn (`OutcomesFinal`, `TurnsResolved`); ADR-005 (`HistoryFaithful`); `TurnContract` is implemented (`KeepsContract`); barge-in, close and utterances come to an end |
| `pipeline` | 9,662 | no clause is empty (in `TypeOK`); `SentinelComes`, `TextConserved`, `MarksAreCausal`, `SpeechFollowsText`, `SpeechIsWhole`; `SpokenReply` is implemented (`KeepsReplyPromise`); the turn ends and its feed is released |
| `gateway` | 47,578 | one connection whose client may vanish: `NothingLostOnTheWay`, `OrphansOnlyBySender`, `EventsAreSent`, `EndpointEnds` |
| `gateway_admission` | 279,080 | four attempts from two addresses: no window is overfull, no refusal undeserved |
| `gateway_budget` | 2.6 million | two sessions and a midnight: the daily ceiling holds, and its count is off by at most one per capped session |
| `lesson` | 304,308 | two sessions: the error log, the report and the history agree (`LogIsOfReplies`); no character is lost, doubled or moved between model and history, and no Latin word is changed (`ReplyIsWhatWasWritten`); the two scripts stay paired (`ScriptsInStep`) |
| `evaluation` | 60,093 | what a green gate lets through: the metrics and the packs (`GreenMeansWithinLimits`), the p95 (`LatencyGateIsHonest`), the judge (`PassingJudgeAgrees`) |
| `client` | 3.1 million | the server hears framed speech (`SpeechIsFramed`), utterances end by the hangover or the ceiling (`UtterancesAreShort`), microphone, socket and button belong together (`MicrophoneOwned`), what plays is of this session, paired with its text and not older than the last barge-in (`PlaybackIsCurrent`) |
| `interruption_flag`, `capture_order`, `pipeline_marks`, `gateway_close` | violated | the findings of section 7 |

**Bounds.** Every bound is a constant checked in a guard, so a behaviour cut by a bound
is a prefix of a real one.

- `MCOrchestrator.cfg`: two utterances, so a turn can follow a completed, failed or
  interrupted one and meet what that one left behind; four frames with a buffer of
  two, so the buffer overflows and a replay is followed by newer audio; replies of
  up to two clauses, so a turn is cut before, between and after them; new and
  restored sessions. Longer sessions repeat these situations, and the proofs have
  no bound.
- `CascadedPipeline.cfg`: replies of up to four units, enough for several clauses in one
  delta, more in later ones, a remainder at the flush, text after the finish reason, and
  for an empty reply.
- `MCGateway.cfg`: five control messages and five events, enough for a turn, a
  barge-in, a second turn and the refusal of a third by the session cap. One
  connection suffices because connections share only the guards.
- `MCGatewayAdmission.cfg`: a window of two ticks and a clock of four, so a window
  opens, fills, slides and empties; both of its ends are hit. `MCGatewayBudget.cfg`: a
  ceiling and a cap of two, three messages each and one midnight, so a session runs
  across it and every order of the two guards occurs. These two leave out what their
  properties do not depend on (turns, the other guard) by setting its bound to zero,
  and use symmetry, which is sound as they check no liveness.
- `MCLesson.cfg`: a chunker with limits of 3 and 5 characters, and first replies that
  are every text of one or two of six words (and some of three) chosen to meet each
  branch: too short, a sentence end, an abbreviation, a glued sentence, CJK, a word at
  and above the limit. Five messages let both scripts wrap; two sessions let a history
  be saved, restored and continued, or lost.
- `MCEvaluation.cfg`: two packs, one sound and one sound or faulty in one of three ways;
  a golden file of three turns in mixed order, or a faulty one; replies at 0, 5, 5.0025
  and 10 % beyond the level, with a leak, and empty; replays of up to 30 turns around
  the limit, by 4 and 6 thousandths of a millisecond as well; the six dimensions of
  `pedagogical_v1.yaml`, with labels of all, of five and of one of them; judges at each side
  of every cut, with ties. Each fault or boundary
  occurs by itself and next to sound data.
- `VoiceClient.cfg`: two sessions, so that an old one's callbacks meet a new one; a
  hangover of three frames and a ceiling of five, so that either can end an utterance
  and both can meet on one frame; seven frames, an utterance to its ceiling and the
  beginning of the next; two clauses and two messages under way, so that text and
  bytes can be separated. Ownership, speech and playback are proved without bounds.

Deadlock is not checked (`CHECK_DEADLOCK FALSE`) where the system really stops: the
connections of the gateway end, an evaluation ends or raises, a learner's last session
ends, and a browser tab with no session left does nothing. A finished session of
`Orchestrator` and a finished turn still have a step (`CloseAgain`, `Over`), so their runs
check deadlock.

## 5. Fairness

- *Event loop* (`LoopFairness`, and `LoopSpec` of the pipeline): a coroutine that is
  ready is run. asyncio's ready queue is first in, first out, and no handler blocks.
  This gives `BargeInTakesEffect`, `CloseTakesEffect`, `FeedIsReleased` and
  `EventsAreSent`. Nothing is assumed of the learner, the network or the providers:
  in these behaviours an LLM may hang for ever.
- *Providers* (`ProviderFairness`) is not part of a specification but the antecedent of
  the properties that need it: `UtterancesResolve`, `TurnEnds`, `EndpointEnds`. It
  states the contracts of `providers/protocols.py` (39-56: an STT stream ends once its
  audio has; 71-105: generation and synthesis go on to an end). Failing is an answer.

`Lesson`, `Evaluation` and `VoiceClient` state no fairness: nobody is bound to click, speak or
answer, and their properties are safety properties.

`UtterancesResolve` counts a failed turn as resolved. That is what the code does: the
session stays in "speaking" and emits nothing until the next `speech_start` or close.

## 6. The proofs

All are for arbitrary constants, under the `ASSUME`s `OrchestratorAssumption`,
`PipelineAssumption`, `GatewayAssumption`, `ClientAssumption`, `LessonAssumption`,
`ChunkerAssumption`, `DimensionsAssumption` and `EvaluationAssumption`: bounds are
naturals, the buffer holds at least one frame, restored histories are sequences of
messages of no turn, the set of connections is finite, the two scripts are equally long
and not empty; a rubric has a finite number of dimensions, at least one, and `Scale` is a
multiple of it and of the number of labels of each labelled turn; replies count words,
latencies are naturals, labels are naturals and a judge's answers are integers, in tenths.

- **TurnContract.** `OutcomesAreFinal`, `TurnsAreResolved`, `HistoryIsFaithful`. None of the
  three is inductive. The strengthening `IInv` adds that turn numbers come from the
  counter (`NumberingInv`) and that a turn being answered has no outcome, no reply, and
  exactly the delivered clauses in the log (`OpenTurnInv`).
- **Orchestrator.** `TypeCorrect` (with the turns counted against the utterances), `ModesAgree` and `PromptIsCurrent` by an inductive invariant in
  which `ModeCoherent` carries the rest; `Refinement` (every step of the session is a step of
  the contract or a stutter) uses it to know, for example, that the turn reported by
  `_cancel_current_turn` is the latest one. The three promises of the contract then
  hold of the session: `SessionOutcomesAreFinal`, `SessionTurnsAreResolved`,
  `SessionHistoryIsFaithful`. `PreRollIsMostRecent` has an
  invariant of its own: what the buffer holds or gave up has been received.
- **Orchestrator's audio.** `NoFrameIsLost`. Frames are numbered as they are received, so the
  invariant `FramesInv` counts them and names them: the lengths of what was heard, queued,
  buffered and given up add up to the frames received, and together they are those
  frames. Neither half is inductive without the other's typing.
- **SpokenReply and CascadedPipeline.** `SentinelAlwaysComes`, `NoTextIsLost`, `Refinement`, and along it
  `AudioFollowsText` and `EndedTurnsAreWhole`; `PromiseKept` proves them of the promise alone.
  The invariant says that handed-over and queued
  clauses tile the released text whatever number of them a delta releases, and that the sentinel is last in the queue and there
  exactly when the feed is done and the consumer has not seen it.
  `MarksStayCausal` rests on the same invariant: `CausalInv` ties each mark to what it is the
  mark of (text produced, text released, audio delivered), and `MarkComesLast` is the one
  fact about `TurnTimeline.mark` it needs.
- **Gateway.** `RateIsLimited` needs that the limiter's list agrees with the accepted
  connections in every window that is still open, although old entries have been
  dropped; `CeilingHolds` and `CountIsAccurate` that later days are empty and that the count
  and the turns of its day differ by the capped sessions; also `RefusalsAreDeserved` and
  `EndsCleanly`. `TheWireIsFaithful`: what the client got, what the sender holds and what waits
  concatenate to what the session emitted. The sender takes an event apart into a text
  message and bytes, so the invariant (`WireInv`) follows it through the half-sent event.

- **VoiceClient.** `Ownership`: `MicrophoneOwned` for any number of sessions. The count of
  microphones is not inductive. An orphan's capture that comes late displaces the one
  in use, so the invariant (`Paid`) counts the displaced captures against the orphans
  that have arrived, with one in hand while an orphan is the capture and the capture
  of the session in use is still to come. `Progress` and `FirstCall` say what `connect()` has
  created at each stage and that nothing can be clicked during its first wait.
  `PlaybackStaysCurrent`: `PlayInv` says what stream of messages is under way on each socket,
  text before its bytes, and that all of it is newer than what plays.
  `SpeechStaysFramed` and `UtterancesStayShort`, for every frame length, hangover and ceiling:
  `SpeakInv` relates the VAD's three counters to the tail of what was sent (`InStep`), that is to
  the last control message and the last loud frame, also when the socket opened in the
  middle of an utterance.
- **Lesson.** `ScriptsStayInStep`. The invariant (`Lockstep`) has the two cursors equal, but
  for the one line between an utterance and the question to the model, and extends the
  pairing to the saved history, which comes back in the next session.
- **Lesson's texts.** `RepliesAreWhatWasWritten` states `ReplyIsWhatWasWritten`, for any limits of
  the chunker and any abbreviations. The invariant is a balance with two accounts. `OnTheWay`:
  what was spoken, the clauses released, the chunker's buffer and the deltas to come have,
  spaces apart and in this order, the characters of the reply. Each step moves text from one
  to the next (`WriteMoves`, `FlushMoves`, `SpeakMoves`). Under it are lemmas about the
  operators: the deltas make up the reply (`DeltasMakeUp`), and cutting, stripping, ungluing
  and joining leave alone what is not space (`TakeConserves`, `StripKeeps`, `UngluedKeeps`,
  `JoinKeeps`). `Take` calls itself on a shorter text. That there is such a function is
  proved, not assumed (`TakeIsTheLoop`): functions on the texts up to each length exist and
  agree. `WordsOnTheWay`: for Latin text without a word as long as the limit, the words
  spoken, those released and those of the buffer with the rest of the reply, unglued
  together, are the words of the reply unglued. Ungluing the buffer at each delta comes to
  the same as ungluing everything once (`UngluedTwice`: what a text ends in decides what
  becomes of what follows). Every stretch of the limit's length still to come has a space
  (`ShortRuns`, kept by ungluing and by dropping what was taken), so a clause ends at a space
  or at the end of a buffer that a space follows (`BreakAfter`), where the words on both
  sides are kept apart (`TokenizeAtSpace`, `OneClauseWords`, and by induction `TakeWords`);
  and `join_clauses` puts a space back at each seam (`JoinWords`). A buffer cut at the limit
  without a space in it would end inside a word: hence the condition.
- **Lesson's log.** `TheLogIsOfReplies`, for any ceiling, number of turns and sessions. A lost
  history breaks the equality of log and report but not the inequality, so `LogInv` has
  both: `Balanced` while every history was saved, `Covers` always and for the saved history
  too, which is the one that comes back. `Answered` counts the utterance of a turn that is on.
- **Evaluation.** `RankIsNearestOrNext`: for every sample size and percentage the rank is
  within the sample, and is nearest-rank or the one above. With `RankHasSample` (an order
  statistic exists, by counting) it gives `TheLatencyGateIsHonest` for every replay; rounding
  keeps the order of the percentiles (`HundredthsKeepOrder`) and moves the limit by half a
  hundredth (`HundredthsOfLimit`).
- **Evaluation's gates.** `GreenIsWithinLimits`, for any packs, levels, golden sets and replies.
  The invariant (`EvalInv`) has the replies of each pack be to the first of its turns in their
  order, each to a scenario and a level the pack has, and a reported pack settled: all of its
  turns answered, so that later replies do not touch what its metrics were computed from. The
  first level's words are in every ceiling, so the violations counted are those of `Beyond`.
  The rest is arithmetic on sums (`TotalOfNaturals`, `TotalScales`) and on a rate that is
  rounded before it is compared. That a sum over a set of any size is what its partial sums
  say is proved first (`SumExists`, `TotalIs`).
- **Evaluation's judge.** `TheJudgeIsJudgedFairly` states `PassingJudgeAgrees`, for a rubric of any
  number of dimensions, full or partial labels, any number of labelled turns and any ties
  among them. `CompositeIsTheAverage`: what is ranked is the average of the marks. Agreement passes: judges with the same order have
  the same ranks, so that the covariance is both variances. Order is immaterial: a sum may
  begin at any index (`AnyFirst`), so ranks, deviations and covariances of the reversed file
  are the reversed ones. That passing means agreement is an inequality between two
  coefficients of rank correlation (`TwoOrders`): twice the covariance of the ranks is at most
  the variance of either series, plus a multiple of the pairs agreed on less the pairs that are
  not. It comes from one about three items (`ThreeInTwoOrders`, by cases), added up over all
  triples and their turns (`TurnedSum`, from the exchange of rows and columns in
  `SumByColumns`). If the judge had no more pairs right than wrong, rho would be at most one
  half. The target of 0.7 is above that.

Induction is used in two first-order forms (`DataLemmas`): the least-number principle
(`LeastNumber`), which refutes a claim about sequences of every length at its least
counterexample, and induction stated of a set of numbers or sequences in place of a
predicate (`NumbersBySuccessor`, `SequencesByLength`), the set being the instances for
which a claim holds. `FlattenSeq`, and the maps over messages and characters built on it, are
reasoned about in this way (`FlattenAppend`, `PickedAppend`, `WithoutConcat`).

Only model-checked: all liveness, as TLAPS does not reason about ENABLED here. Every other
property of a passing run is a theorem.

## 7. Findings

1. `interruption_flag`: `events.py` 38-39 says an interrupted turn's summary has
   `barged_in=True`. Only `run_turn`'s `CancelledError` handler sets the flag, so a turn
   cancelled before its task first ran, or one that had failed before the barge-in,
   is reported with `False`.
2. `capture_order`: the pre-roll buffer is for audio captured "while the agent was still
   speaking" (ADR-005 38-41). A turn that completes does not clear it, so its frames
   are replayed into a later interruption, out of capture order.
3. `pipeline_marks`: `spans.py` 19 lists marks "ordered as they occur", `TURN_COMPLETE`
   last. On a cancellation the dying feed flushes the chunker after that mark and
   marks `FIRST_CLAUSE` for text no TTS will get.
4. `gateway_close`: `close()` "release[s] the current turn task" (`orchestrator.py` 253), but
   when the sender has failed on a vanished client, awaiting it in the endpoint's
   `finally` block raises and `orch.close()` is not reached: the turn runs on.

Smaller. The properties state these as exceptions or as exact slack, so that the runs
show nothing worse happens:

- The daily ceiling counts a turn that the session cap then refuses (`main.py` 260-265;
  `CountMatchesServed`). `DailySpendCeiling` resets at the host's local midnight although its
  text says UTC.
- `main.py` 110-116 has the two demo scripts walked in lockstep. A turn cancelled before
  its task asks the model moves one of them only (`cutUnasked` in `ScriptsInStep`).
- `learner.py` 34-36 has the history saved by the owner of the session. The gateway, its
  only owner outside the tests, saves nothing (`unsaved` in `LogIsOfReplies`).
- `spans.py` 94 calls the percentile nearest-rank. One half is added before a rounding
  that rounds halves to even, so for some sizes (n = 20, p = 95 is one) it is the rank above; a
  red latency gate may be one sample too strict (`LatencyGateIsHonest`). The p95 is rounded to
  two decimals (`spans.py` 122) before `report.py` 108 has it compared, so 1400.004 ms passes a
  gate of 1400 ms; the property has this half hundredth in it.
- `load_pack` raises `ValueError` for a bad tokenizer or turn budget, not `PackLoadError`. Two
  level files with one code are one level, the later (`LastWith`).
- A rate is rounded before it is compared, so 5.005 % passes a 5 % gate; an empty reply
  passes all deterministic gates (`GreenMeansWithinLimits`).
- A judge's -0.5 is cut to a valid 0 (`Truncated`).
- `main.ts`: disconnecting while `startCapture` is pending leaves a microphone that later
  takes the place of the one in use, and a worklet that fails to load leaves its tracks
  on (`orphans` in `MicrophoneOwned`). Speech that begins while the socket connects reaches
  the server without its start (`SpeechIsFramed`). A clause still on its way at a local
  barge-in is played, as the `turn_interrupted` handler does not flush (`PlaybackIsCurrent`).
  The close callback of a replaced transport relabels the button of the new session.

## 8. What is not modelled

- Vendor SDK calls, the socket and HTTP layers, `/health`, the choice of providers at
  start-up: I/O and configuration.
- Cancellation of the endpoint itself by a server shutdown; a provider that raises
  something else while being cancelled; `aclose` failing. The contracts of
  `protocols.py` exclude the second.
- Clock values and durations, prompt and report wording, Markdown, the DOM and the HUD,
  configuration files and CI.
- The realtime and pronunciation protocols, `MockPronunciation` and `echo_level_check`:
  nothing calls them.
- jieba: how a CJK reply is cut into words is decided outside the repository. `Lesson` has
  a pack that is tokenized at white space, `Evaluation` takes the words as given.
- Per-dimension rhos, which are reported and put to no gate; rho itself is compared with
  its target and not computed.
- In the client: the conversion of samples, and frames the worklet had posted before
  `stop()` took effect.

## 9. The plan

Done, most important first: `Orchestrator` with `TurnContract`; `CascadedPipeline` with
`SpokenReply`; `Gateway`; `VoiceClient` with the lifecycle of its connections; `ClauseChunker` and
`Lesson` (the factory's hook, the learner's profile, the report); `LanguagePack`, `Percentile`,
`JudgeValidation` and `Evaluation`; the proofs of section 6. What is left:

- `VoiceClient` against `Gateway` itself in place of the server the client sees. The product is
  beyond TLC at the present bounds and would need smaller ones on both sides.

## Running

    tlc -config MCOrchestrator.cfg MCOrchestrator      # and likewise the other .cfg files
    tlapm OrchestratorProofs.tla                       # and likewise the other proofs
