--------------------------- MODULE ClauseChunker ---------------------------
(***************************************************************************)
(* ClauseChunker (server/app/pipeline/chunker.py): the text a model        *)
(* generates is cut into the clauses the TTS is given.  join_clauses       *)
(* (session/orchestrator.py) is its counterpart: it rebuilds the reply     *)
(* from the clauses that were spoken.                                      *)
(*                                                                         *)
(* A text is a sequence of characters and there is one character for each  *)
(* class the code tells apart: a lower-case letter ("a", "d"), a capital   *)
(* ("A"), a space, the full stop that an abbreviation may precede, the     *)
(* other Latin terminators ("!"), a CJK character ("zh") and a CJK         *)
(* terminator ("zh.").  Positions are one more than the code's indices.    *)
(***************************************************************************)
EXTENDS Naturals, Sequences, SequencesExt

CONSTANTS MinChars,       \* min_chars
          MaxChars,       \* max_chars
          Abbreviations   \* _ABBREVIATIONS, as texts of lower-case letters

Space            == " "
Lower            == {"a", "d"}
Upper            == {"A"}
LatinTerminators == {".", "!"}
CjkTerminators   == {"zh."}
Cjk              == {"zh", "zh."}   \* at or above _CJK_START
Letters          == Lower \cup Upper \cup {"zh"}
Char             == Letters \cup LatinTerminators \cup CjkTerminators \cup {Space}
Text             == Seq(Char)

ASSUME ChunkerAssumption ==
  /\ MinChars \in Nat /\ MaxChars \in Nat \ {0}
  /\ \A w \in Abbreviations : w \in Seq(Lower)

-----------------------------------------------------------------------------
(* Texts. *)

(* What of a sequence is not in E. *)
Without(s, E) == FlattenSeq([i \in DOMAIN s |-> IF s[i] \in E THEN <<>> ELSE <<s[i]>>])

NonSpaces(t) == {i \in DOMAIN t : t[i] # Space}

LStrip(t) == IF NonSpaces(t) = {} THEN <<>> ELSE SubSeq(t, Min(NonSpaces(t)), Len(t))

Strip(t) == IF NonSpaces(t) = {} THEN <<>>
            ELSE SubSeq(t, Min(NonSpaces(t)), Max(NonSpaces(t)))

Lowered(t) == [i \in DOMAIN t |-> IF t[i] = "A" THEN "a" ELSE t[i]]

(* _GLUED_SENTENCE: between a terminator that follows a lower-case letter  *)
(* and a capital, which is at position i, a space is put.                  *)
IsGlued(t, i) ==
  /\ i > 2 /\ t[i] \in Upper
  /\ t[i - 1] \in LatinTerminators /\ t[i - 2] \in Lower

Unglued(t) ==
  FlattenSeq([i \in DOMAIN t |-> IF IsGlued(t, i) THEN <<Space, t[i]>> ELSE <<t[i]>>])

-----------------------------------------------------------------------------
(* Where a clause ends. *)

(* _preceding_word_is_abbreviation: the letters just before position i. *)
AfterAbbreviation(t, i) ==
  LET start == Max({0} \cup {j \in 1..(i - 1) : t[j] \notin Letters})
  IN  Lowered(SubSeq(t, start + 1, i - 1)) \in Abbreviations

(* A Latin terminator at the very end of the buffer may be mid-token: the  *)
(* code waits for more.                                                    *)
EndsSentence(t, i) ==
  \/ t[i] \in CjkTerminators
  \/ /\ t[i] \in LatinTerminators
     /\ i < Len(t) /\ t[i + 1] = Space
     /\ ~(t[i] = "." /\ AfterAbbreviation(t, i))

Boundaries(t) == {i \in DOMAIN t : i >= MinChars /\ EndsSentence(t, i)}

(* _take_at_word_break: the last space among the first MaxChars            *)
(* characters, unless it is the very first one.                            *)
WordBreak(t) ==
  LET cut == Max({0} \cup {i - 1 : i \in {j \in 1..MaxChars : t[j] = Space}})
  IN  IF cut = 0 THEN MaxChars ELSE cut

(* How much of the buffer the next clause takes, 0 if none is ready. *)
ClauseLength(t) ==
  IF Boundaries(t) # {} THEN Min(Boundaries(t))
  ELSE IF Len(t) >= MaxChars THEN WordBreak(t) ELSE 0

Rest(t, n) == LStrip(SubSeq(t, n + 1, Len(t)))

(* The loop of feed: every clause that is ready, and the new buffer. *)
Take[t \in Text] ==
  LET n == ClauseLength(t) IN
    IF n = 0 THEN [clauses |-> <<>>, buffer |-> t]
    ELSE LET more == Take[Rest(t, n)]
         IN  [clauses |-> <<Strip(SubSeq(t, 1, n))>> \o more.clauses,
              buffer  |-> more.buffer]

(* feed: the glue is looked for in the whole buffer, since a terminator    *)
(* and the capital after it can come in two deltas.                        *)
Feed(buffer, delta) == Take[Unglued(buffer \o delta)]

(* flush: what is left, if anything. *)
Flush(buffer) == IF Strip(buffer) = <<>> THEN <<>> ELSE <<Strip(buffer)>>

-----------------------------------------------------------------------------

(* Mutant: "".join(clauses). *)
JoinBare(clauses) == FlattenSeq(clauses)

(* join_clauses: a space at each seam between two Latin characters. *)
IsSeam(clauses, k) ==
  LET out == FlattenSeq(SubSeq(clauses, 1, k - 1)) IN
    /\ out # <<>> /\ clauses[k] # <<>>
    /\ Last(out) \notin Cjk /\ Head(clauses[k]) \notin Cjk

JoinClauses(clauses) ==
  FlattenSeq([k \in DOMAIN clauses |->
                IF IsSeam(clauses, k) THEN <<Space>> \o clauses[k] ELSE clauses[k]])

=============================================================================
