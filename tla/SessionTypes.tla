---------------------------- MODULE SessionTypes ----------------------------
(***************************************************************************)
(* The values a session exchanges: the messages of the conversation       *)
(* history (app/providers/types.py) and the events the orchestrator emits  *)
(* (app/session/events.py).                                                *)
(*                                                                         *)
(* Text is abstracted to the turn it belongs to.  A learner utterance is   *)
(* identified by the number of the turn it starts, a synthesised clause by *)
(* its position in the reply, and the text of a reply by the sequence of   *)
(* clauses it is joined from.  Turn numbers are _turn_counter after its    *)
(* increment, so the turn_id the code prints is one less.  Turn 0 stands   *)
(* for "restored from an earlier session" in a message and for "no turn"   *)
(* in an event.                                                            *)
(***************************************************************************)
EXTENDS Naturals, Sequences

Message == [role : {"user", "assistant"}, turn : Nat, reply : Seq(Nat)]

UserMessage(n)         == [role |-> "user", turn |-> n, reply |-> <<>>]
AssistantMessage(n, r) == [role |-> "assistant", turn |-> n, reply |-> r]

(* Histories a session may be given by restore_history. *)
RestoredHistory(h) == \A i \in DOMAIN h : h[i] \in Message /\ h[i].turn = 0

OutcomeTypes == {"complete", "interrupted"}

Event == [type : {"no_speech", "transcript", "audio"} \cup OutcomeTypes,
          turn : Nat, chunk : Nat, bargedIn : BOOLEAN]

NoSpeechEvent    == [type |-> "no_speech", turn |-> 0, chunk |-> 0,
                     bargedIn |-> FALSE]
TranscriptEvent(n) == [type |-> "transcript", turn |-> n, chunk |-> 0,
                       bargedIn |-> FALSE]
AssistantAudioEvent(n, c) == [type |-> "audio", turn |-> n, chunk |-> c,
                              bargedIn |-> FALSE]

(* b is the barged_in flag of the summary the event carries. *)
TurnCompleteEvent(n, b)    == [type |-> "complete", turn |-> n, chunk |-> 0,
                               bargedIn |-> b]
TurnInterruptedEvent(n, b) == [type |-> "interrupted", turn |-> n, chunk |-> 0,
                               bargedIn |-> b]

=============================================================================
