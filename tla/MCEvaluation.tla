---------------------------- MODULE MCEvaluation ----------------------------
(* Two packs, of which the second may be sound, have a code twice, an      *)
(* empty first wordlist, or a broken file; golden files of every kind;     *)
(* replies at 0, 5, 5.0025 and 10 % beyond the first level, one that       *)
(* leaks, one with no words.  The timings are of 0 to 30 turns with up to  *)
(* two late ones, by 4 or 6 thousandths of a millisecond.  Labels are of   *)
(* the six dimensions of pedagogical_v1.yaml, of five of them or of one.   *)
EXTENDS Evaluation

Level(c, ws, l1) == [code |-> c, words |-> ws, l1 |-> l1]
Meal == [id |-> "meal", target |-> {"as"}]
Dir(t, files) == [language |-> "ok", tokenizer |-> t, levels |-> files, scenarios |-> <<Meal>>]
Sound  == Dir("whitespace", <<Level("A", {"easy"}, TRUE), Level("B", {"hard"}, FALSE)>>)
Twice  == Dir("jieba", <<Level("A", {"easy"}, FALSE), Level("B", {}, TRUE), Level("A", {"hard"}, FALSE)>>)
Unset  == Dir("jieba", <<Level("A", {}, FALSE), Level("B", {"hard"}, FALSE)>>)
Cracked == Dir("jieba", <<Level("A", {"easy"}, FALSE), Broken>>)
Packs(d) == 1 :> Sound @@ 2 :> d

Unlabelled == <<>>
Rubric == {"level_appropriateness", "corrective_feedback_quality", "task_progression",
           "conversational_naturalness", "language_persona_fidelity", "groundedness_safety"}
Marks(x, y) == [d \in Rubric |-> IF d = "level_appropriateness" THEN x ELSE y]
Raw(x, y) == Marks(x, y)
Partly(x, y) == [d \in Rubric \ {"task_progression"} |-> Marks(x, y)[d]]
Turn(i, p, l, h) == [kind |-> "turn", id |-> i, pack |-> p, level |-> l,
                     scenario |-> "meal", labels |-> h]
Blank == [kind |-> "blank"]
Bad   == [kind |-> "broken"]

Mixed == <<Turn("t1", 2, "A", Unlabelled), Blank, Turn("t2", 1, "A", Unlabelled),
           Turn("t3", 2, "B", Unlabelled)>>
Faulty == { <<Turn("t1", 1, "C", Unlabelled)>>,
            <<Turn("t1", 1, "A", Unlabelled), Turn("t1", 2, "A", Unlabelled)>>,
            <<Blank, Bad>>, <<Blank>> }
(* To be judged: of a pack that is not there to be generated from. *)
Labels == { <<Turn("t1", 3, "A", Marks(0, 0)), Turn("t2", 3, "B", h),
              Turn("t3", 3, "B", Unlabelled), Turn("t4", 3, "A", Partly(4, 3)),
              Turn("t5", 3, "A", Marks(4, 4))>>
            : h \in {Marks(3, 4), "task_progression" :> 3} }

MCInputs == {[langpacks |-> Packs(d), golden |-> Mixed] : d \in {Sound, Twice, Unset, Cracked}}
            \cup {[langpacks |-> Packs(Sound), golden |-> g] : g \in Faulty \cup Labels}

Reply(easy, hard, english) == ("easy" :> easy) @@ ("hard" :> hard) @@ ("english" :> english)
MCReplies == {Reply(20, 0, 0), Reply(19, 1, 0), Reply(1899, 100, 0), Reply(18, 2, 0),
              Reply(0, 19, 1), <<>>}
(* The target word "as" is nowhere a word, and inside "easy". *)
MCWritten == [r \in MCReplies |->
                {w \in DOMAIN r : r[w] > 0}
                \cup (IF Has(r, {"easy"}) THEN {"as"} ELSE {})]
MCForeign == "whitespace" :> {"english"} @@ "jieba" :> {"english", "latin"}

MCTimings == {[i \in 1..n |-> IF i <= silent THEN 0
                             ELSE IF i <= silent + slow THEN late ELSE 1400000 - i]
                : n \in {0, 1, 20, 30}, slow \in 0..2, silent \in {0, 1},
                  late \in {1400004, 1400006}}

MCJudgeAnswers == {Raw(0, -5), Raw(29, 40), Raw(30, 30), Raw(39, 40), Raw(40, 40),
                   Raw(41, 50), "level_appropriateness" :> 20}
=============================================================================
