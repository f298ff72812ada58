----------------------------- MODULE Evaluation -----------------------------
(***************************************************************************)
(* The evaluation harness (eval/): a golden set of situations is loaded,   *)
(* the model under test answers each of them, and the answers are measured *)
(* pack by pack and put to the quality gates; the pipeline is replayed for *)
(* its latency; a judge's scores are validated against human labels.       *)
(*                                                                         *)
(* run_full_eval does the first two in one run (phases "generating",       *)
(* "replayed", "reported").  Judging has no caller in the repository but   *)
(* the tests; it is a run of its own here (phase "judging").  A step that  *)
(* raises ends its run (phase "raised").                                   *)
(*                                                                         *)
(* A reply is a function from words to how often it has them: the checks   *)
(* count words and look for them, and their order does not matter.  Two    *)
(* checks search the text instead, which may find a string inside a word   *)
(* or across two: Written says what is in it.  What counts as a word of a  *)
(* CJK reply is decided by jieba, outside the repository.  Rates are       *)
(* rounded to 1/10000 in the code and are numbers of ten-thousandths here. *)
(***************************************************************************)
EXTENDS LanguagePack, JudgeValidation

CONSTANTS
  Inputs,        \* what langpacks/ (a function from names to directories) and
                 \* golden_turns.jsonl (a sequence of lines) may hold
  Replies,       \* what the model under test may answer
  Written,       \* reply -> the strings that occur in its text, words or not
  Foreign,       \* tokenizer -> the words (jieba: strings) taken for the
                 \* source language
  Timings,       \* TTFAs a replay may measure, in thousandths of a ms;
                 \* 0 is no audio
  JudgeAnswers   \* raw judge answers: functions from dimensions to tenths

(* Pack names are numbers, in the order of the names.  A line is a record  *)
(* with its kind: "blank" (or a comment), "broken" or "turn".              *)
ASSUME EvaluationAssumption ==
  /\ \A in \in Inputs :
       /\ \A p \in DOMAIN in.langpacks :
            in.langpacks[p].levels \in Seq(ToSet(in.langpacks[p].levels))
       /\ in.golden \in Seq(ToSet(in.golden))
       /\ \A l \in ToSet(in.golden) : l.kind = "turn" =>
            /\ l.pack \in Nat
            /\ IsFiniteSet(DOMAIN l.labels) /\ \A d \in DOMAIN l.labels : l.labels[d] \in Nat
            /\ DOMAIN l.labels # {} => Scales(Cardinality(DOMAIN l.labels))
  /\ \A r \in Replies : IsFiniteSet(DOMAIN r) /\ \A w \in DOMAIN r : r[w] \in Nat
  /\ \A t \in Timings : t \in Seq(Nat)
  /\ \A raw \in JudgeAnswers : \A d \in DOMAIN raw : raw[d] \in Int

VARIABLES
  phase,
  langpacks,   \* the pack directories
  golden,      \* the lines of the golden set's file
  turns,       \* all_turns
  generated,   \* <<turn, reply>> in the order they were generated
  packs,       \* pack_results
  ttfas,       \* what the turns of the replay measured
  latency,     \* latency_stats and latency_gate_passed
  answers,     \* turn id -> the raw answer of the judge, where it parsed
  judged       \* turn id -> the scores

vars == <<phase, langpacks, golden, turns, generated, packs, ttfas, latency,
          answers, judged>>

None == [n |-> 0, p50 |-> 0, p95 |-> 0, max |-> 0, passed |-> FALSE]

Init ==
  /\ phase = "started"
  /\ \E in \in Inputs : langpacks = in.langpacks /\ golden = in.golden
  /\ turns = <<>> /\ generated = <<>> /\ packs = <<>>
  /\ ttfas = <<>> /\ latency = None
  /\ answers = <<>> /\ judged = <<>>

-----------------------------------------------------------------------------
(* The golden set. *)

Lines(kind) == Where(golden, LAMBDA l : l.kind = kind)

Loadable ==
  /\ Lines("broken") = <<>> /\ Lines("turn") # <<>>
  /\ IsInjective([i \in DOMAIN Lines("turn") |-> Lines("turn")[i].id])

(* load_golden_set, by run_full_eval or by whoever judges. *)
LoadGoldenSet ==
  /\ phase = "started"
  /\ IF Loadable
     THEN /\ turns' = Lines("turn")
          /\ phase' \in {"generating", "judging"}
     ELSE /\ phase' = "raised"
          /\ UNCHANGED turns
  /\ UNCHANGED <<langpacks, golden, generated, packs, ttfas, latency, answers, judged>>

-----------------------------------------------------------------------------
(* Generation, pack by pack in the order of their names. *)

TurnsOf(p) == Where(turns, LAMBDA t : t.pack = p)
PacksLeft  == {turns[i].pack : i \in DOMAIN turns} \ {packs[i].pack : i \in DOMAIN packs}
CurrentPack == Min(PacksLeft)
Pack == IF CurrentPack \in DOMAIN langpacks
        THEN LoadPack(langpacks[CurrentPack]) ELSE NoPack

RepliesOf(p) == Where(generated, LAMBDA g : g.turn.pack = p)

(* generate_reply: LanguagePack.level and .scenario raise KeyError; so may *)
(* the model, with an error of its own.                                    *)
Generate ==
  /\ phase = "generating" /\ PacksLeft # {}
  /\ LET done == RepliesOf(CurrentPack)
         todo == TurnsOf(CurrentPack) IN
       /\ Len(done) < Len(todo)
       /\ LET turn == todo[Len(done) + 1] IN
            \/ /\ Pack # NoPack
               /\ turn.level \in DOMAIN Pack.levels
               /\ turn.scenario \in DOMAIN Pack.scenarios
               /\ \E r \in Replies :
                    generated' = Append(generated, [turn |-> turn, reply |-> r])
               /\ UNCHANGED phase
            \/ phase' = "raised" /\ UNCHANGED generated
  /\ UNCHANGED <<langpacks, golden, turns, packs, ttfas, latency, answers, judged>>

-----------------------------------------------------------------------------
(* compute_deterministic_metrics. *)

Tokens(reply) == Total(reply)

Has(reply, words) == \E w \in DOMAIN reply \cap words : reply[w] > 0

(* check_ceiling. *)
ViolationCount(reply, level) ==
  IF level.vocabularyCeiling = {} THEN 0
  ELSE Total([w \in DOMAIN reply \ level.vocabularyCeiling |-> reply[w]])

Sum(gens, Of(_)) == Total([k \in DOMAIN gens |-> Of(gens[k])])
Count(gens, Is(_)) == Cardinality({k \in DOMAIN gens : Is(gens[k])})
Rate(num, den)   == IF den = 0 THEN 0 ELSE RoundHalfEven(10000 * num, den)

LevelOf(pack, g) == pack.levels[g.turn.level]

(* Of a CJK reply the text is searched, of another its words. *)
Leaked(pack, g) ==
  /\ ~LevelOf(pack, g).l1
  /\ IF pack.tokenizer = "jieba" THEN Written[g.reply] \cap Foreign["jieba"] # {}
     ELSE Has(g.reply, Foreign[pack.tokenizer])

(* Mutant: the mean over the turns of each turn's rate. *)
MetricsPerTurn(gens, pack) ==
  [n          |-> Len(gens),
   violations |-> Sum(gens, LAMBDA g : Rate(ViolationCount(g.reply, LevelOf(pack, g)),
                                            Tokens(g.reply))) \div Len(gens),
   words      |-> 0, referenced |-> 0,
   leakage    |-> Rate(Count(gens, LAMBDA g : Leaked(pack, g)), Len(gens))]

Metrics(gens, pack) ==
  LET n         == Len(gens)
      tokens    == Sum(gens, LAMBDA g : Tokens(g.reply))
      violated  == Sum(gens, LAMBDA g : ViolationCount(g.reply, LevelOf(pack, g)))
      refers(g) == Written[g.reply] \cap pack.scenarios[g.turn.scenario].target # {}
  IN  [n          |-> n,
       violations |-> Rate(violated, tokens),
       words      |-> RoundHalfEven(100 * tokens, n),
       referenced |-> Rate(Count(gens, refers), n),
       leakage    |-> Rate(Count(gens, LAMBDA g : Leaked(pack, g)), n)]

(* check_deterministic_gates: 5 % and 2 %. *)
GatePasses(m) == m.violations <= 500 /\ m.leakage <= 200

(* The rest of _eval_pack, once the last reply of the pack is there. *)
EvalPack ==
  /\ phase = "generating" /\ PacksLeft # {}
  /\ Len(RepliesOf(CurrentPack)) = Len(TurnsOf(CurrentPack))
  /\ LET m == Metrics(RepliesOf(CurrentPack), Pack) IN
       packs' = Append(packs, [pack |-> CurrentPack, nTurns |-> Len(TurnsOf(CurrentPack)),
                               metrics |-> m, gatePassed |-> GatePasses(m)])
  /\ UNCHANGED <<phase, langpacks, golden, turns, generated, ttfas, latency,
                 answers, judged>>

-----------------------------------------------------------------------------
(* The latency replay and the report. *)

(* replay_turns: turns of the pipeline with mock providers, each of which  *)
(* reaches its first audio at some time or not at all.                     *)
ReplayTurns ==
  /\ phase = "generating" /\ PacksLeft = {}
  /\ phase' = "replayed"
  /\ ttfas' \in Timings
  /\ UNCHANGED <<langpacks, golden, turns, generated, packs, latency, answers, judged>>

(* ttfa_p95_cascaded_replay_max_ms. *)
MaxTtfa == 1400

(* stats and check_latency_gate, which compares hundredths; with no sample *)
(* the gate is closed.                                                     *)
Report ==
  /\ phase = "replayed"
  /\ phase' = "reported"
  /\ LET stats == Stats(Samples(ttfas)) IN
       latency' = [n |-> stats.n, p50 |-> stats.p50, p95 |-> stats.p95, max |-> stats.max,
                   passed |-> stats.n # 0 /\ stats.p95 <= 100 * MaxTtfa]
  /\ UNCHANGED <<langpacks, golden, turns, generated, packs, ttfas, answers, judged>>

-----------------------------------------------------------------------------
(* Judging. *)

(* A dict with one more key. *)
With(dict, key, value) ==
  [k \in DOMAIN dict \cup {key} |-> IF k = key THEN value ELSE dict[k]]

(* run_judge: an answer that does not parse raises JudgeParseError. *)
Judge ==
  /\ phase = "judging"
  /\ \E i \in DOMAIN turns, raw \in JudgeAnswers :
       /\ turns[i].id \notin DOMAIN judged
       /\ IF Parsable(raw)
          THEN /\ answers' = With(answers, turns[i].id, raw)
               /\ judged' = With(judged, turns[i].id, Scores(raw))
               /\ UNCHANGED phase
          ELSE phase' = "raised" /\ UNCHANGED <<answers, judged>>
  /\ UNCHANGED <<langpacks, golden, turns, generated, packs, ttfas, latency>>

Next ==
  \/ LoadGoldenSet \/ Generate \/ EvalPack \/ ReplayTurns \/ Report \/ Judge

Spec == Init /\ [][Next]_vars

-----------------------------------------------------------------------------
(* Properties. *)

(* What a green gate lets through.  The golden turns that were answered    *)
(* are exactly the turns of the packs reported so far and of the one being *)
(* generated, each once.  A pack passes only if the words beyond the level *)
(* each turn was set at are within 5 % of all the words the model used,    *)
(* and the turns that leak within 2 %: up to the rounding of the rate      *)
(* before the comparison, which lets 5.005 % through.  Words that the      *)
(* pack's first level teaches are a violation at no level.                 *)
Beyond(g) ==
  LET first == langpacks[g.turn.pack].levels[1].words
      level == LoadPack(langpacks[g.turn.pack]).levels[g.turn.level]
  IN  ViolationCount([w \in DOMAIN g.reply \ first |-> g.reply[w]], level)

WithinLimits(r) ==
  LET gens   == RepliesOf(r.pack)
      tokens == Sum(gens, LAMBDA g : Tokens(g.reply))
      beyond == Sum(gens, Beyond)
      leaks  == Count(gens, LAMBDA g : Leaked(LoadPack(langpacks[r.pack]), g))
  IN  /\ [k \in DOMAIN gens |-> gens[k].turn] = TurnsOf(r.pack)
      /\ r.gatePassed => /\ 20000 * beyond <= 1001 * tokens
                         /\ 20000 * leaks <= 401 * Len(gens)
      /\ (beyond * 20 <= tokens /\ leaks * 50 <= Len(gens)) => r.gatePassed

GreenMeansWithinLimits ==
  IsInjective(generated) /\ \A i \in DOMAIN packs : WithinLimits(packs[i])

(* A green latency gate means that 95 % of the turns that spoke were in    *)
(* time, and a red one that fewer than one turn more than 95 % were: the   *)
(* gate is never looser than the nearest rank and at most one sample       *)
(* stricter.  "In time" is 1400 ms up to the rounding of the p95 before    *)
(* the comparison, half a hundredth: 1400.004 ms is green, 1400.006 ms is  *)
(* red, and at 1400.005 ms the promise holds whichever it is.  No audio at *)
(* all is red.                                                             *)
LatencyGateIsHonest ==
  phase = "reported" =>
    LET spoken == Samples(ttfas)
        n      == Len(spoken)
    IN  /\ latency.passed => n > 0 /\ 100 * AtMost(spoken, 1000 * MaxTtfa + 5) >= 95 * n
        /\ ~latency.passed =>
             n = 0 \/ AtMost(spoken, 1000 * MaxTtfa + 4) <= NearestRank(n, 95)
        /\ latency.p50 <= latency.p95 /\ latency.p95 <= latency.max

(* A judge that passes validation orders the labelled turns as the humans  *)
(* do: of the pairs the humans tell apart it has more their way round than *)
(* the other way.  The order of the file makes no difference.              *)
Labelled == ToSet(Paired(turns, judged))
Human(t) == Composite(t.labels)
Judged(t) == Composite(judged[t.id])
Apart    == {x \in Labelled \X Labelled : Human(x[1]) < Human(x[2])}
Alike    == {x \in Apart : Judged(x[1]) < Judged(x[2])}

PassMeansAgreement ==
  Validate(turns, judged).passed =>
    Cardinality(Alike) > Cardinality({x \in Apart : Judged(x[1]) > Judged(x[2])})

OrderIsImmaterial == Validate(Reverse(turns), judged) = Validate(turns, judged)

(* A judge that orders all of them as the humans do, and has a tie where   *)
(* they have one, passes: the mean of a run of ranks is the same on both   *)
(* sides, whatever the scales.                                             *)
AgreementPasses ==
  /\ Alike = Apart /\ Apart # {}
  /\ \A t, u \in Labelled : Human(t) = Human(u) => Judged(t) = Judged(u)
  => Validate(turns, judged).passed

(* If the judge gates pass, every raw answer was at least 3 before its     *)
(* fraction was cut off, and their average at least 3.2.                   *)
HighMarksAreEarned ==
  JudgeGatesPass(judged) =>
    /\ \A t \in DOMAIN answers : \A d \in Dimensions : answers[t][d] >= 30
    /\ Total([t \in DOMAIN answers |-> Total([d \in Dimensions |-> answers[t][d]])])
         >= 32 * Cardinality(Dimensions) * Cardinality(DOMAIN answers)

(* The verdicts on the judge mean what they say. *)
PassingJudgeAgrees ==
  PassMeansAgreement /\ OrderIsImmaterial /\ AgreementPasses /\ HighMarksAreEarned

=============================================================================
