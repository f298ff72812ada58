--------------------------- MODULE MCOrchestrator ---------------------------
(* Orchestrator on a small instance. *)
EXTENDS Orchestrator

(* A new session, or one resumed after one earlier exchange. *)
MCRestorable == {<<>>, <<UserMessage(0), AssistantMessage(0, <<>>)>>}

=============================================================================
