---------------------------- MODULE SpokenReply -----------------------------
(***************************************************************************)
(* What run_turn promises the orchestrator: a reply that is spoken while   *)
(* it is still being written.  The text grows; clauses of it are spoken in *)
(* order, without gap or overlap; a clause the synthesiser gives up on is  *)
(* skipped as a whole; and the stream ends normally only when the text is  *)
(* complete and all of it has been spoken or skipped.  A reply may also    *)
(* break off, by a cancellation or a failure, and is silent from then on.  *)
(*                                                                         *)
(* No chunker, queue, sentinel or second task here: CascadedPipeline adds  *)
(* them.  A position in the text is the number of text units before it.    *)
(***************************************************************************)
EXTENDS Naturals, Sequences

CONSTANT MaxText   \* bound: units of text per reply

VARIABLES
  text,       \* units of text written so far
  writing,    \* more may come
  spoken,     \* the position up to which clauses were spoken or skipped
  delivered,  \* the clauses spoken, each <<from, to>>
  status      \* "running", "ended", "failed" or "cancelled"

vars == <<text, writing, spoken, delivered, status>>

Init ==
  /\ text = 0
  /\ writing = TRUE
  /\ spoken = 0
  /\ delivered = <<>>
  /\ status = "running"

Write ==
  /\ writing
  /\ \E n \in (text + 1)..MaxText : text' = n
  /\ UNCHANGED <<writing, spoken, delivered, status>>

StopWriting ==
  /\ writing
  /\ writing' = FALSE
  /\ UNCHANGED <<text, spoken, delivered, status>>

Speak ==
  /\ status = "running"
  /\ \E to \in (spoken + 1)..text :
       /\ spoken' = to
       /\ delivered' = Append(delivered, <<spoken, to>>)
  /\ UNCHANGED <<text, writing, status>>

Skip ==
  /\ status = "running"
  /\ \E to \in (spoken + 1)..text : spoken' = to
  /\ UNCHANGED <<text, writing, delivered, status>>

End ==
  /\ status = "running"
  /\ ~writing /\ spoken = text
  /\ status' = "ended"
  /\ UNCHANGED <<text, writing, spoken, delivered>>

BreakOff ==
  /\ status = "running"
  /\ status' \in {"failed", "cancelled"}
  /\ UNCHANGED <<text, writing, spoken, delivered>>

Next == Write \/ StopWriting \/ Speak \/ Skip \/ End \/ BreakOff

Spec == Init /\ [][Next]_vars

-----------------------------------------------------------------------------
(* Properties. *)

TypeOK ==
  /\ text \in Nat
  /\ writing \in BOOLEAN
  /\ spoken \in Nat
  /\ delivered \in Seq(Nat \X Nat)
  /\ status \in {"running", "ended", "failed", "cancelled"}

(* The learner hears the text in its order, no part of it twice, and never *)
(* ahead of what the model has written.                                    *)
AudioInOrder ==
  /\ spoken <= text
  /\ \A i \in DOMAIN delivered :
       delivered[i][1] < delivered[i][2] /\ delivered[i][2] <= spoken
  /\ \A i, j \in DOMAIN delivered : i < j => delivered[i][2] <= delivered[j][1]

(* A reply that ended normally is whole: nothing more is written, and all  *)
(* that was written has been through the synthesiser.                      *)
EndedInFull == status = "ended" => ~writing /\ spoken = text

=============================================================================
