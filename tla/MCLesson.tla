------------------------------ MODULE MCLesson ------------------------------
(* Scripts whose first reply is every text of up to two words, and some of *)
(* three.  With MinChars = 3 and MaxChars = 5 the words meet every branch  *)
(* of the chunker: too short to cut, a sentence end, an abbreviation, a    *)
(* glued sentence, CJK text, a word at and above the limit.                *)
EXTENDS Lesson

W1 == <<"a", "d", ".">>
W2 == <<"d", ".">>
W3 == <<"a", "!", "A">>
W4 == <<"zh", "zh", "zh.">>
W5 == <<"a", "a", "a", "a", "A", "a">>
W6 == <<"A", "a", "a">>
Words == {W1, W2, W3, W4, W5, W6}
Spaced(s, t) == s \o <<" ">> \o t
Phrases == Words \cup {Spaced(s, t) : s \in Words, t \in Words}
Sentences == Phrases \cup {Spaced(W2, Spaced(s, t)) : s \in {W5, W6}, t \in {W1, W3}}

MCUtterances       == <<<<"a">>, <<"A", "a">>>>
MCScripts          == {<<t, <<"a", "a", " ", "d">>>> : t \in Sentences}
MCCeiling          == {<<"A">>, <<"a", "a">>, <<"d", ".">>}
MCTargetVocabulary == <<<<"A">>, <<"d">>>>
MCAbbreviations    == {<<"d">>}
=============================================================================
