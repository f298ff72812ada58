-------------------------- MODULE CascadedPipeline --------------------------
(***************************************************************************)
(* run_turn (server/app/pipeline/cascaded.py): one assistant turn, with    *)
(* generation pipelined into synthesis.                                    *)
(*                                                                         *)
(* Two coroutines and a queue.  feed_llm, a task of its own, reads the     *)
(* LLM's deltas, runs them through the ClauseChunker and puts clauses on   *)
(* an unbounded queue, then None.  The consumer, the body of run_turn with *)
(* the TTS provider inside it, takes clauses and yields audio.  The feed   *)
(* suspends only in llm.stream, the consumer only on the queue and inside  *)
(* the TTS; each action below runs from one suspension to the next.        *)
(*                                                                         *)
(* Text is counted in units, a clause is the interval <<from, to>> of      *)
(* positions it covers.  The chunker is its buffer: a delta may make it    *)
(* release any prefix of what it holds, as any number of clauses.          *)
(***************************************************************************)
EXTENDS Naturals, Sequences

CONSTANT MaxText   \* bound: units of text per reply

ASSUME PipelineAssumption == MaxText \in Nat

None == <<0, 0>>   \* the sentinel; a clause is never empty

VARIABLES
  feed,        \* the feed task
  feedCancel,  \* its cancellation has been requested
  emitted,     \* units of text the LLM has produced
  released,    \* units of text that left the chunker's buffer
  queue,       \* the clause queue
  consumer,    \* the body of run_turn
  inHand,      \* the clause the TTS is working on, or None
  handed,      \* every clause the TTS was given
  delivered,   \* every clause whose audio was yielded
  marks,       \* the timeline's marks, in the order they were first made
  bargedIn     \* the timeline's barged_in

feedVars     == <<feed, feedCancel, emitted, released>>
consumerVars == <<consumer, inHand, handed, delivered, bargedIn>>
vars         == <<feedVars, consumerVars, queue, marks>>

FeedDone     == feed \in {"finished", "failed", "cancelled"}
ConsumerDone == consumer \in {"ended", "failed", "cancelled"}

Marked(m) == \E i \in DOMAIN marks : marks[i] = m

(* TurnTimeline.mark: only the first mark of a boundary counts. *)
Mark(ms, m) == IF \E i \in DOMAIN ms : ms[i] = m THEN ms ELSE Append(ms, m)

Init ==
  /\ feed = "created"
  /\ feedCancel = FALSE
  /\ emitted = 0
  /\ released = 0
  /\ queue = <<>>
  /\ consumer = "waiting"
  /\ inHand = None
  /\ handed = <<>>
  /\ delivered = <<>>
  /\ marks = <<>>
  /\ bargedIn = FALSE

-----------------------------------------------------------------------------
(* The feed task. *)

Streaming == feed = "streaming" /\ ~feedCancel

FeedStarts ==
  /\ feed = "created" /\ ~feedCancel
  /\ feed' = "streaming"
  /\ UNCHANGED <<feedCancel, emitted, released, queue, marks, consumerVars>>

(* Cancelled before its first step: not even its finally block runs. *)
FeedNeverStarts ==
  /\ feed = "created" /\ feedCancel
  /\ feed' = "cancelled"
  /\ UNCHANGED <<feedCancel, emitted, released, queue, marks, consumerVars>>

(* s cuts the text from a to b into adjacent, non-empty clauses. *)
Tiles(s, a, b) ==
  /\ \A i \in DOMAIN s : s[i][1] < s[i][2]
  /\ \A i \in DOMAIN s : s[i][1] = IF i = 1 THEN a ELSE s[i - 1][2]
  /\ b = IF s = <<>> THEN a ELSE s[Len(s)][2]

(* The ways the chunker may release the text from a to c: no clause when   *)
(* it keeps everything, else as many as the text has room for.             *)
Cuts(a, c) ==
  LET Pieces == {p \in (a..c) \X (a..c) : p[1] < p[2]} IN
  {s \in UNION {[1..k -> Pieces] : k \in 0..(c - a)} : Tiles(s, a, c)}

(* A delta has text, or the finish reason, or both; some providers go on   *)
(* after the finish reason, and the loop reads what they send.             *)
LlmDelta ==
  /\ Streaming
  /\ \E n \in emitted..MaxText, final \in BOOLEAN :
       /\ n > emitted \/ final
       /\ emitted' = n
       /\ \E c \in released..n : \E clauses \in Cuts(released, c) :
            /\ n = emitted => c = released
            /\ released' = c
            /\ queue' = queue \o clauses
            /\ marks' = LET ms == IF n > emitted THEN Mark(marks, "llm_first_token") ELSE marks
                            fs == IF c > released THEN Mark(ms, "first_clause") ELSE ms
                        IN  IF final THEN Mark(fs, "llm_complete") ELSE fs
  /\ UNCHANGED <<feed, feedCancel, consumerVars>>

(* Mutant: the sentinel is put, but the chunker is not flushed. *)
FlushSentinelOnly ==
  /\ queue' = Append(queue, None)
  /\ UNCHANGED <<released, marks, feedCancel, emitted, consumerVars>>

(* Mutant: flush returns the whole text, not what is left of it. *)
FlushWholeText ==
  /\ released' = emitted
  /\ IF released < emitted
     THEN /\ queue' = queue \o << <<0, emitted>>, None >>
          /\ marks' = Mark(marks, "first_clause")
     ELSE /\ queue' = Append(queue, None)
          /\ UNCHANGED marks
  /\ UNCHANGED <<feedCancel, emitted, consumerVars>>

(* Mutant: the remainder is put without asking whether there is one. *)
FlushEvenNothing ==
  /\ released' = emitted
  /\ queue' = queue \o << <<released, emitted>>, None >>
  /\ marks' = Mark(marks, "first_clause")
  /\ UNCHANGED <<feedCancel, emitted, consumerVars>>

(* The finally block of feed_llm: flush the chunker, then the sentinel. *)
Flush ==
  /\ released' = emitted
  /\ IF released < emitted
     THEN /\ queue' = queue \o << <<released, emitted>>, None >>
          /\ marks' = Mark(marks, "first_clause")
     ELSE /\ queue' = Append(queue, None)
          /\ UNCHANGED marks
  /\ UNCHANGED <<feedCancel, emitted, consumerVars>>

(* Mutant: the sentinel is put after the loop, not in a finally block. *)
LlmRaisesNoSentinel ==
  /\ Streaming /\ feed' = "failed"
  /\ UNCHANGED <<feedCancel, emitted, released, queue, marks, consumerVars>>

(* The LLM's stream is exhausted, with or without a finish reason. *)
FeedEnds      == Streaming /\ feed' = "finished" /\ Flush
LlmRaises     == Streaming /\ feed' = "failed" /\ Flush
FeedCancelled == feed = "streaming" /\ feedCancel /\ feed' = "cancelled" /\ Flush

-----------------------------------------------------------------------------
(* The consumer. *)

TtsTakes ==
  /\ consumer = "waiting"
  /\ queue # <<>> /\ Head(queue) # None
  /\ consumer' = "synthesizing"
  /\ inHand' = Head(queue)
  /\ handed' = Append(handed, Head(queue))
  /\ queue' = Tail(queue)
  /\ UNCHANGED <<delivered, bargedIn, marks, feedVars>>

(* Mutant: the two audio marks in the wrong order. *)
TtsYieldsMarksSwapped ==
  /\ consumer = "synthesizing"
  /\ consumer' = "waiting"
  /\ inHand' = None
  /\ delivered' = Append(delivered, inHand)
  /\ marks' = Mark(Mark(marks, "first_audio_out"), "tts_first_chunk")
  /\ UNCHANGED <<handed, bargedIn, queue, feedVars>>

(* The audio of the clause goes out, and the TTS asks for the next one. *)
TtsYields ==
  /\ consumer = "synthesizing"
  /\ consumer' = "waiting"
  /\ inHand' = None
  /\ delivered' = Append(delivered, inHand)
  /\ marks' = Mark(Mark(marks, "tts_first_chunk"), "first_audio_out")
  /\ UNCHANGED <<handed, bargedIn, queue, feedVars>>

(* Azure reports a failed synthesis: a warning, and on to the next clause. *)
TtsSkips ==
  /\ consumer = "synthesizing"
  /\ consumer' = "waiting"
  /\ inHand' = None
  /\ UNCHANGED <<handed, delivered, bargedIn, queue, marks, feedVars>>

(* Mutant: the feed task is not cancelled. *)
LeaveFeedRunning(how) ==
  /\ consumer' = how
  /\ marks' = Mark(marks, "turn_complete")
  /\ UNCHANGED <<feedVars, inHand, handed, delivered>>

(* How run_turn is left: the finally block. *)
Leave(how) ==
  /\ consumer' = how
  /\ feedCancel' = (feedCancel \/ ~FeedDone)
  /\ marks' = Mark(marks, "turn_complete")
  /\ UNCHANGED <<feed, emitted, released, inHand, handed, delivered>>

(* The TTS raises, over a clause or while it is set up: before it waits    *)
(* for the first one, so before the feed has started.                      *)
TtsRaises ==
  /\ consumer = "synthesizing" \/ (consumer = "waiting" /\ feed = "created")
  /\ Leave("failed")
  /\ UNCHANGED <<bargedIn, queue>>

(* Mutant: an empty queue is taken for the end of the clauses. *)
SentinelSeenOnEmptyQueue ==
  /\ consumer = "waiting"
  /\ queue = <<>>
  /\ Leave("ended")
  /\ UNCHANGED <<bargedIn, queue>>

(* Mutant: a feed that has failed is not awaited. *)
SentinelSeenNotAwaited ==
  /\ consumer = "waiting"
  /\ queue # <<>> /\ Head(queue) = None
  /\ Leave("ended")
  /\ queue' = Tail(queue)
  /\ UNCHANGED bargedIn

(* The sentinel ends the synthesis; `await feed_task` then returns or      *)
(* raises what the LLM raised.                                             *)
SentinelSeen ==
  /\ consumer = "waiting"
  /\ queue # <<>> /\ Head(queue) = None
  /\ FeedDone
  /\ Leave(IF feed = "failed" THEN "failed" ELSE "ended")
  /\ queue' = Tail(queue)
  /\ UNCHANGED bargedIn

(* The orchestrator cancels the turn task, in whichever await it is. *)
Cancelled ==
  /\ ~ConsumerDone
  /\ Leave("cancelled")
  /\ bargedIn' = TRUE
  /\ UNCHANGED queue

Over == ConsumerDone /\ FeedDone /\ UNCHANGED vars

-----------------------------------------------------------------------------

FeedStep     == FeedStarts \/ FeedNeverStarts \/ LlmDelta
                \/ FeedEnds \/ LlmRaises \/ FeedCancelled
ConsumerStep == TtsTakes \/ TtsYields \/ TtsSkips \/ TtsRaises \/ SentinelSeen

Next == FeedStep \/ ConsumerStep \/ Cancelled \/ Over

Spec == Init /\ [][Next]_vars

(* The providers go on to an end: a bounded reply, each clause synthesised *)
(* or refused.                                                             *)
ProviderFairness == WF_vars(FeedStep) /\ WF_vars(ConsumerStep)

(* The event loop throws CancelledError into a task whose cancellation was *)
(* requested.  Nothing is assumed of the providers.                        *)
LoopSpec == Spec /\ WF_vars(FeedNeverStarts) /\ WF_vars(FeedCancelled)

-----------------------------------------------------------------------------
(* Properties. *)

MarkNames == {"llm_first_token", "first_clause", "llm_complete", "tts_first_chunk",
              "first_audio_out", "turn_complete"}

(* The TTS is never given a clause without text. *)
ClausesHaveText ==
  /\ \A i \in DOMAIN queue : queue[i] # None => queue[i][1] < queue[i][2]
  /\ consumer = "synthesizing" => inHand[1] < inHand[2]
  /\ \A i \in DOMAIN handed : handed[i][1] < handed[i][2]
  /\ \A i \in DOMAIN delivered : delivered[i][1] < delivered[i][2]

(* The fields hold what they should; what is queued, handed over and       *)
(* spoken are clauses with text, the sentinel apart.                       *)
TypeOK ==
  /\ feed \in {"created", "streaming", "finished", "failed", "cancelled"}
  /\ feedCancel \in BOOLEAN
  /\ emitted \in Nat
  /\ released \in Nat
  /\ queue \in Seq(Nat \X Nat)
  /\ consumer \in {"waiting", "synthesizing", "ended", "failed", "cancelled"}
  /\ inHand \in Nat \X Nat
  /\ handed \in Seq(Nat \X Nat)
  /\ delivered \in Seq(Nat \X Nat)
  /\ marks \in Seq(MarkNames)
  /\ bargedIn \in BOOLEAN
  /\ ClausesHaveText

(* The sentinel always comes: a TTS waiting for a clause finds one, or the *)
(* sentinel, or a feed that is still at work.  A failing LLM must not      *)
(* leave the turn waiting on a queue nobody feeds.                         *)
SentinelComes == consumer = "waiting" /\ FeedDone => queue # <<>>

(* The clauses in the queue, and where those handed over end. *)
WithoutSentinel(q) == IF q # <<>> /\ q[Len(q)] = None
                      THEN SubSeq(q, 1, Len(q) - 1) ELSE q
Queued    == WithoutSentinel(queue)
HandedEnd == IF handed = <<>> THEN 0 ELSE handed[Len(handed)][2]

(* No word is dropped, doubled or reordered between the LLM and the TTS:   *)
(* the clauses handed over and those still queued cut the released text,   *)
(* and a feed that has run to its finally block holds nothing back.        *)
TextConserved ==
  /\ Tiles(handed, 0, HandedEnd)
  /\ Tiles(Queued, HandedEnd, released)
  /\ released <= emitted
  /\ FeedDone => released = emitted

(* The latency stages of a turn are causally ordered: no boundary is       *)
(* marked without the one it follows having been marked before             *)
(* (test_cascaded_pipeline.py 43-60).                                      *)
MarkedBefore(a, b) ==
  \A j \in DOMAIN marks : marks[j] = b => \E i \in 1..(j - 1) : marks[i] = a

MarksAreCausal ==
  /\ MarkedBefore("llm_first_token", "first_clause")
  /\ MarkedBefore("first_clause", "tts_first_chunk")
  /\ MarkedBefore("tts_first_chunk", "first_audio_out")
  /\ consumer = "ended" /\ delivered # <<>> => MarkedBefore("first_audio_out", "turn_complete")

(* A turn whose providers go on comes to an end... *)
TurnEnds == ProviderFairness => <>ConsumerDone

(* ... and once it has, by whatever way, its generation is released: the   *)
(* feed task is not left running for a reply nobody will hear, even when   *)
(* the LLM would never have answered.                                      *)
FeedIsReleased == ConsumerDone ~> FeedDone

(* run_turn keeps the promise of SpokenReply. *)
Reply == INSTANCE SpokenReply WITH
  text      <- emitted,
  writing   <- ~FeedDone,
  spoken    <- IF inHand # None THEN inHand[1] ELSE HandedEnd,
  delivered <- delivered,
  status    <- IF ConsumerDone THEN consumer ELSE "running"

KeepsReplyPromise == Reply!Spec

(* The learner hears the model's text in its order, nothing twice and      *)
(* never ahead of it, however feed and synthesis overlap...                *)
SpeechFollowsText == Reply!AudioInOrder

(* ... and a turn that ends without an exception was spoken to the end:    *)
(* neither an empty queue nor a feed that failed is taken for the end.     *)
SpeechIsWhole == Reply!EndedInFull /\ (consumer = "ended" => feed = "finished")

-----------------------------------------------------------------------------
(* A statement of the repository the code does not keep. *)

(* spans.py 18-19: "Stage boundaries in one turn. Ordered as they occur.", *)
(* with TURN_COMPLETE the last, and 26: FIRST_CLAUSE is "chunker released  *)
(* clause 1 to TTS".                                                       *)
TurnCompleteIsLast ==
  \A i \in DOMAIN marks : marks[i] = "turn_complete" => i = Len(marks)

=============================================================================
