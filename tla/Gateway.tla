------------------------------ MODULE Gateway ------------------------------
(***************************************************************************)
(* The WebSocket gateway (server/app/main.py, session_endpoint) with the   *)
(* demo guards (server/app/security/demo_guard.py) its connections share.  *)
(*                                                                         *)
(* Per connection two coroutines run: the ENDPOINT, which admits the       *)
(* client, receives its messages and calls the orchestrator's handlers,    *)
(* and the SENDER, which moves the events of the outbox to the socket.     *)
(* The guards are process-wide: the rate limiter and the daily ceiling are *)
(* used by every connection, the turn cap by one.                          *)
(*                                                                         *)
(* The orchestrator is reduced to what the gateway can tell apart: whether *)
(* a speech_end would be taken, whether a turn task runs, and the events.  *)
(* Awaiting a cancelled turn is one step here; module Orchestrator has its *)
(* steps.  The client may send any message at any time, and vanish.  After *)
(* that a send raises WebSocketDisconnect, which is what the endpoint's    *)
(* except clause expects of it.                                            *)
(***************************************************************************)
EXTENDS Naturals, FiniteSets, SequencesExt

CONSTANTS Conns,              \* connection attempts
          Ips,                \* client addresses
          CodeRequired,       \* DEMO_ACCESS_CODE is set
          MaxEvents,          \* connections per address and window
          WindowSeconds,      \* length of the window, in ticks of the clock
          MaxTurnsPerDay,     \* DEMO_DAILY_TURN_CEILING
          MaxTurnsPerSession, \* DEMO_TURNS_PER_SESSION
          MaxNow,             \* bound: ticks of the monotonic clock
          MaxDay,             \* bound: midnights
          MaxReceived,        \* bound: control messages of one connection
          MaxEmitted          \* bound: events of one connection before a turn is cut

ASSUME GatewayAssumption ==
  /\ CodeRequired \in BOOLEAN
  /\ MaxEvents \in Nat /\ WindowSeconds \in Nat
  /\ MaxTurnsPerDay \in Nat /\ MaxTurnsPerSession \in Nat
  /\ MaxNow \in Nat /\ MaxDay \in Nat /\ MaxReceived \in Nat /\ MaxEmitted \in Nat
  /\ IsFiniteSet(Conns)

VARIABLES
  now, today,        \* time.monotonic(), date.today()
  limiterEvents,     \* RateLimiter._events; the order of the list is never used
  admitted,          \* history: when each address had a connection accepted
  spendDay, spendCount, \* DailySpendCeiling._day, ._count
  turnCount,         \* TurnCapEnforcer._count of the connection
  served,            \* history: turns given to an orchestrator, by day
  ip, presentsCode,  \* who connects
  gone,              \* the client has vanished
  received,          \* control messages taken from the connection
  at,                \* where the endpoint is
  verdict,           \* reason of the error message it sent
  session,           \* the orchestrator's _state
  turn,              \* its turn task
  outbox,            \* events not yet taken by the sender
  emitted,           \* history: the kind of every event put on the outbox
  sender,            \* where the sender is
  inHand,            \* number of the event it took last
  wire               \* history: what was sent to the client

clockVars   == <<now, today>>
limiterVars == <<limiterEvents, admitted>>
budgetVars  == <<spendDay, spendCount, turnCount, served>>
clientVars  == <<ip, presentsCode, gone, received>>
sessionVars == <<session, turn, outbox, emitted>>
wireVars    == <<sender, inHand, wire, verdict>>

vars == <<clockVars, limiterVars, budgetVars, clientVars, at, sessionVars, wireVars>>

(* "stt": in on_speech_end.  "leaving": out of the loop, the finally block  *)
(* comes next.  "unwinding": in `await sender_task`.  "abandoned": left by   *)
(* the exception the sender had failed with.                                *)
EndpointAt == {"new", "refused_code", "refused_rate", "receiving", "stt",
               "leaving", "unwinding", "ended", "abandoned"}

(* "owes_audio": between send_json and send_bytes of one clause. *)
SenderAt == {"none", "waiting", "owes_audio", "failed", "cancelled"}

Reasons == {"daily demo capacity reached", "session turn limit reached"}

EventKinds == {"audio", "transcript", "turn_complete", "turn_interrupted", "no_speech"}
Admission   == [conn : Conns, time : Nat]
OutboxEvent == [kind : EventKinds, n : Nat]
WireMessage == [type : {"assistant_text", "bytes", "json", "error"}, n : Nat]

Init ==
  /\ now = 0 /\ today = 0
  /\ limiterEvents = [p \in Ips |-> {}]
  /\ admitted = [p \in Ips |-> {}]
  /\ spendDay = 0 /\ spendCount = 0
  /\ turnCount = [c \in Conns |-> 0]
  /\ served = [d \in 0..MaxDay |-> 0]
  /\ ip \in [Conns -> Ips]
  /\ presentsCode \in [Conns -> IF CodeRequired THEN BOOLEAN ELSE {FALSE}]
  /\ gone = [c \in Conns |-> FALSE]
  /\ received = [c \in Conns |-> 0]
  /\ at = [c \in Conns |-> "new"]
  /\ verdict = [c \in Conns |-> "none"]
  /\ session = [c \in Conns |-> "listening"]
  /\ turn = [c \in Conns |-> "none"]
  /\ outbox = [c \in Conns |-> <<>>]
  /\ emitted = [c \in Conns |-> <<>>]
  /\ sender = [c \in Conns |-> "none"]
  /\ inHand = [c \in Conns |-> 0]
  /\ wire = [c \in Conns |-> <<>>]

-----------------------------------------------------------------------------
(* Admission. *)

AccessOk(c) == ~CodeRequired \/ presentsCode[c]

(* Mutant: the window is open at its far end. *)
KeptOpen(p) == {e \in limiterEvents[p] : e.time + WindowSeconds > now}

(* Mutant: old connections are never forgotten. *)
KeptForever(p) == limiterEvents[p]

(* [t for t in events if t >= now - window_seconds] *)
Kept(p) == {e \in limiterEvents[p] : e.time + WindowSeconds >= now}

RefuseCode(c) ==
  /\ at[c] = "new" /\ ~AccessOk(c)
  /\ at' = [at EXCEPT ![c] = "refused_code"]
  /\ UNCHANGED <<clockVars, limiterVars, budgetVars, clientVars, sessionVars, wireVars>>

RefuseRate(c) ==
  /\ at[c] = "new" /\ AccessOk(c)
  /\ Cardinality(Kept(ip[c])) >= MaxEvents
  /\ limiterEvents' = [limiterEvents EXCEPT ![ip[c]] = Kept(ip[c])]
  /\ at' = [at EXCEPT ![c] = "refused_rate"]
  /\ UNCHANGED <<clockVars, admitted, budgetVars, clientVars, sessionVars, wireVars>>

(* accept(), a fresh outbox, orchestrator and turn cap, and the sender. *)
Accept(c) ==
  /\ at[c] = "new" /\ AccessOk(c)
  /\ Cardinality(Kept(ip[c])) < MaxEvents
  /\ limiterEvents' = [limiterEvents EXCEPT ![ip[c]] =
                         Kept(ip[c]) \cup {[conn |-> c, time |-> now]}]
  /\ admitted' = [admitted EXCEPT ![ip[c]] = @ \cup {[conn |-> c, time |-> now]}]
  /\ at' = [at EXCEPT ![c] = "receiving"]
  /\ sender' = [sender EXCEPT ![c] = "waiting"]
  /\ UNCHANGED <<clockVars, budgetVars, clientVars, sessionVars, inHand,
                 wire, verdict>>

-----------------------------------------------------------------------------
(* The outbox and the sender. *)

Emit(c, kind) ==
  /\ emitted' = [emitted EXCEPT ![c] = Append(@, kind)]
  /\ outbox' = [outbox EXCEPT ![c] = Append(@, [kind |-> kind, n |-> Len(emitted[c]) + 1])]

Send(c, type, n) == wire' = [wire EXCEPT ![c] = Append(@, [type |-> type, n |-> n])]

(* Mutant: the sender returns after the event that ends a turn. *)
SendsEventOnce(c) ==
  /\ sender[c] = "waiting" /\ outbox[c] # <<>> /\ ~gone[c]
  /\ LET e == Head(outbox[c])
     IN /\ Send(c, IF e.kind = "audio" THEN "assistant_text" ELSE "json", e.n)
        /\ sender' = [sender EXCEPT ![c] = CASE e.kind = "audio" -> "owes_audio"
                                             [] e.kind = "turn_complete" -> "none"
                                             [] OTHER -> "waiting"]
        /\ inHand' = [inHand EXCEPT ![c] = e.n]
  /\ outbox' = [outbox EXCEPT ![c] = Tail(@)]
  /\ UNCHANGED <<clockVars, limiterVars, budgetVars, clientVars, at, session, turn,
                 emitted, verdict>>

(* outbox.get(), then send_json. *)
SendsEvent(c) ==
  /\ sender[c] = "waiting" /\ outbox[c] # <<>> /\ ~gone[c]
  /\ LET e == Head(outbox[c])
     IN /\ Send(c, IF e.kind = "audio" THEN "assistant_text" ELSE "json", e.n)
        /\ sender' = [sender EXCEPT ![c] =
                         IF e.kind = "audio" THEN "owes_audio" ELSE "waiting"]
        /\ inHand' = [inHand EXCEPT ![c] = e.n]
  /\ outbox' = [outbox EXCEPT ![c] = Tail(@)]
  /\ UNCHANGED <<clockVars, limiterVars, budgetVars, clientVars, at, session, turn,
                 emitted, verdict>>

(* Mutant: the bytes are those of the newest clause. *)
SendsNewestBytes(c) ==
  /\ sender[c] = "owes_audio" /\ ~gone[c]
  /\ Send(c, "bytes", Len(emitted[c]))
  /\ sender' = [sender EXCEPT ![c] = "waiting"]
  /\ UNCHANGED <<clockVars, limiterVars, budgetVars, clientVars, at, sessionVars,
                 inHand, verdict>>

(* send_bytes of the clause whose text went before. *)
SendsBytes(c) ==
  /\ sender[c] = "owes_audio" /\ ~gone[c]
  /\ Send(c, "bytes", inHand[c])
  /\ sender' = [sender EXCEPT ![c] = "waiting"]
  /\ UNCHANGED <<clockVars, limiterVars, budgetVars, clientVars, at, sessionVars,
                 inHand, verdict>>

(* Either send raises WebSocketDisconnect; nobody awaits the task. *)
SenderFails(c) ==
  /\ gone[c]
  /\ \/ /\ sender[c] = "waiting" /\ outbox[c] # <<>>
        /\ inHand' = [inHand EXCEPT ![c] = Head(outbox[c]).n]
        /\ outbox' = [outbox EXCEPT ![c] = Tail(@)]
     \/ sender[c] = "owes_audio" /\ UNCHANGED <<inHand, outbox>>
  /\ sender' = [sender EXCEPT ![c] = "failed"]
  /\ UNCHANGED <<clockVars, limiterVars, budgetVars, clientVars, at, session, turn,
                 emitted, wire, verdict>>

-----------------------------------------------------------------------------
(* The receive loop.  Audio frames change nothing here and are left out. *)

Receives(c) ==
  /\ at[c] = "receiving" /\ received[c] < MaxReceived
  /\ received' = [received EXCEPT ![c] = @ + 1]
  /\ UNCHANGED <<clockVars, limiterVars, ip, presentsCode, gone>>

(* on_speech_start while the agent speaks, a barge-in; at other times it is *)
(* a no-op.                                                                 *)
SpeechStart(c) ==
  /\ Receives(c)
  /\ session[c] = "speaking"
  /\ session' = [session EXCEPT ![c] = "listening"]
  /\ turn' = [turn EXCEPT ![c] = "none"]
  /\ Emit(c, "turn_interrupted")
  /\ UNCHANGED <<budgetVars, at, wireVars>>

(* Mutant: the count is never rolled over. *)
SpentEver == spendCount

(* The day's count before this turn, rolled over if midnight has passed. *)
SpentToday == IF spendDay = today THEN spendCount ELSE 0

(* send_json of the error, not through the outbox, and out of the loop. *)
Refuse(c, reason) ==
  /\ verdict' = [verdict EXCEPT ![c] = reason]
  /\ IF gone[c] THEN UNCHANGED wire ELSE Send(c, "error", 0)
  /\ at' = [at EXCEPT ![c] = "leaving"]
  /\ UNCHANGED <<turnCount, served, sender, inHand, sessionVars>>

SpeechEndOverCeiling(c) ==
  /\ Receives(c)
  /\ SpentToday >= MaxTurnsPerDay
  /\ spendDay' = today /\ spendCount' = SpentToday
  /\ Refuse(c, "daily demo capacity reached")

(* The daily count has gone up before the turn cap says no. *)
SpeechEndOverCap(c) ==
  /\ Receives(c)
  /\ SpentToday < MaxTurnsPerDay
  /\ turnCount[c] >= MaxTurnsPerSession
  /\ spendDay' = today /\ spendCount' = SpentToday + 1
  /\ Refuse(c, "session turn limit reached")

(* Mutant: the new day is not written down. *)
SpeechEndOldDay(c) ==
  /\ Receives(c)
  /\ SpentToday < MaxTurnsPerDay
  /\ turnCount[c] < MaxTurnsPerSession
  /\ spendCount' = SpentToday + 1 /\ UNCHANGED spendDay
  /\ turnCount' = [turnCount EXCEPT ![c] = @ + 1]
  /\ served' = [served EXCEPT ![today] = @ + 1]
  /\ at' = [at EXCEPT ![c] = IF session[c] = "listening" THEN "stt" ELSE @]
  /\ UNCHANGED <<sessionVars, wireVars>>

(* Mutant: the session cap is not asked. *)
SpeechEndUncapped(c) ==
  /\ Receives(c)
  /\ SpentToday < MaxTurnsPerDay
  /\ spendDay' = today /\ spendCount' = SpentToday + 1
  /\ turnCount' = [turnCount EXCEPT ![c] = @ + 1]
  /\ served' = [served EXCEPT ![today] = @ + 1]
  /\ at' = [at EXCEPT ![c] = IF session[c] = "listening" THEN "stt" ELSE @]
  /\ UNCHANGED <<sessionVars, wireVars>>

(* on_speech_end: the STT gets the utterance, unless no stream is open. *)
SpeechEnd(c) ==
  /\ Receives(c)
  /\ SpentToday < MaxTurnsPerDay
  /\ turnCount[c] < MaxTurnsPerSession
  /\ spendDay' = today /\ spendCount' = SpentToday + 1
  /\ turnCount' = [turnCount EXCEPT ![c] = @ + 1]
  /\ served' = [served EXCEPT ![today] = @ + 1]
  /\ at' = [at EXCEPT ![c] = IF session[c] = "listening" THEN "stt" ELSE @]
  /\ UNCHANGED <<sessionVars, wireVars>>

(* json.loads or control.get raises: through finally and out. *)
BadMessage(c) ==
  /\ Receives(c)
  /\ at' = [at EXCEPT ![c] = "leaving"]
  /\ UNCHANGED <<budgetVars, sessionVars, wireVars>>

(* Mutant: the disconnect message is taken for an empty one. *)
ReceiveDisconnectIgnored(c) ==
  /\ at[c] = "receiving" /\ gone[c] /\ received[c] < MaxReceived
  /\ received' = [received EXCEPT ![c] = @ + 1]
  /\ UNCHANGED <<clockVars, limiterVars, budgetVars, ip, presentsCode, gone, at,
                 sessionVars, wireVars>>

ReceiveDisconnect(c) ==
  /\ at[c] = "receiving" /\ gone[c]
  /\ at' = [at EXCEPT ![c] = "leaving"]
  /\ UNCHANGED <<clockVars, limiterVars, budgetVars, clientVars, sessionVars, wireVars>>

-----------------------------------------------------------------------------
(* The orchestrator, between the handlers. *)

sessionOnly == <<clockVars, limiterVars, budgetVars, clientVars, wireVars>>

SttHearsSpeech(c) ==
  /\ at[c] = "stt"
  /\ at' = [at EXCEPT ![c] = "receiving"]
  /\ session' = [session EXCEPT ![c] = "speaking"]
  /\ turn' = [turn EXCEPT ![c] = "running"]
  /\ Emit(c, "transcript")
  /\ UNCHANGED sessionOnly

SttHearsNothing(c) ==
  /\ at[c] = "stt"
  /\ at' = [at EXCEPT ![c] = "receiving"]
  /\ Emit(c, "no_speech")
  /\ UNCHANGED <<session, turn, sessionOnly>>

SttRaises(c) ==
  /\ at[c] = "stt"
  /\ at' = [at EXCEPT ![c] = "leaving"]
  /\ UNCHANGED <<sessionVars, sessionOnly>>

TurnYields(c) ==
  /\ turn[c] = "running" /\ Len(emitted[c]) < MaxEmitted
  /\ Emit(c, "audio")
  /\ UNCHANGED <<at, session, turn, sessionOnly>>

TurnCompletes(c) ==
  /\ turn[c] = "running"
  /\ turn' = [turn EXCEPT ![c] = "none"]
  /\ session' = [session EXCEPT ![c] = "listening"]
  /\ Emit(c, "turn_complete")
  /\ UNCHANGED <<at, sessionOnly>>

TurnFails(c) ==
  /\ turn[c] = "running"
  /\ turn' = [turn EXCEPT ![c] = "failed"]
  /\ UNCHANGED <<at, session, outbox, emitted, sessionOnly>>

-----------------------------------------------------------------------------
(* The finally block. *)

(* Mutant: the finally block closes nothing. *)
LeaveAbandoning(c) ==
  /\ at[c] = "leaving"
  /\ at' = [at EXCEPT ![c] = "abandoned"]
  /\ UNCHANGED <<clockVars, limiterVars, budgetVars, clientVars, sessionVars, wireVars>>

(* sender_task.cancel(); await sender_task.  A sender that has failed       *)
(* raises its exception here, and close() is not reached.                   *)
Leave(c) ==
  /\ at[c] = "leaving"
  /\ IF sender[c] = "failed"
     THEN at' = [at EXCEPT ![c] = "abandoned"] /\ UNCHANGED sender
     ELSE /\ at' = [at EXCEPT ![c] = "unwinding"]
          /\ sender' = [sender EXCEPT ![c] = "cancelled"]
  /\ UNCHANGED <<clockVars, limiterVars, budgetVars, clientVars, sessionVars,
                 inHand, wire, verdict>>

(* orch.close() reports a turn it cut short to an outbox nobody reads. *)
CloseSession(c) ==
  /\ at[c] = "unwinding"
  /\ at' = [at EXCEPT ![c] = "ended"]
  /\ turn' = [turn EXCEPT ![c] = "none"]
  /\ IF session[c] = "speaking" THEN Emit(c, "turn_interrupted")
                                ELSE UNCHANGED <<outbox, emitted>>
  /\ UNCHANGED <<session, sessionOnly>>

-----------------------------------------------------------------------------
(* The world. *)

ClientVanishes(c) ==
  /\ at[c] \in {"receiving", "stt", "leaving", "unwinding"} /\ ~gone[c]
  /\ gone' = [gone EXCEPT ![c] = TRUE]
  /\ UNCHANGED <<clockVars, limiterVars, budgetVars, ip, presentsCode, received, at,
                 sessionVars, wireVars>>

ClockTicks ==
  /\ now < MaxNow /\ now' = now + 1
  /\ UNCHANGED <<today, limiterVars, budgetVars, clientVars, at, sessionVars, wireVars>>

Midnight ==
  /\ today < MaxDay /\ today' = today + 1
  /\ UNCHANGED <<now, limiterVars, budgetVars, clientVars, at, sessionVars, wireVars>>

Connect(c) == RefuseCode(c) \/ RefuseRate(c) \/ Accept(c)

SenderStep(c) == SendsEvent(c) \/ SendsBytes(c) \/ SenderFails(c)

ReceiveStep(c) == \/ SpeechStart(c) \/ SpeechEndOverCeiling(c) \/ SpeechEndOverCap(c)
                  \/ SpeechEnd(c) \/ BadMessage(c)

SttStep(c)  == SttHearsSpeech(c) \/ SttHearsNothing(c) \/ SttRaises(c)
TurnStep(c) == TurnYields(c) \/ TurnCompletes(c) \/ TurnFails(c)

Next ==
  \/ \E c \in Conns : \/ Connect(c) \/ SenderStep(c) \/ ReceiveStep(c)
                       \/ ReceiveDisconnect(c) \/ SttStep(c) \/ TurnStep(c)
                       \/ Leave(c) \/ CloseSession(c) \/ ClientVanishes(c)
  \/ ClockTicks
  \/ Midnight

Spec == Init /\ [][Next]_vars

(* The event loop runs the sender and the endpoint when they can run.       *)
LoopFairness(c) == /\ WF_vars(SenderStep(c)) /\ WF_vars(ReceiveDisconnect(c))
                   /\ WF_vars(Leave(c)) /\ WF_vars(CloseSession(c))
LoopSpec == Spec /\ \A c \in Conns : LoopFairness(c)

(* The STT answers or fails (providers/protocols.py 39-56).                 *)
ProviderFairness == \A c \in Conns : WF_vars(SttStep(c))

-----------------------------------------------------------------------------
(* Properties. *)

ClockTypes   == now \in 0..MaxNow /\ today \in 0..MaxDay

LimiterTypes == limiterEvents \in [Ips -> SUBSET Admission] /\ admitted \in [Ips -> SUBSET Admission]

BudgetTypes  == /\ spendDay \in 0..MaxDay /\ spendCount \in 0..MaxTurnsPerDay
                /\ turnCount \in [Conns -> 0..MaxTurnsPerSession]
                /\ served \in [0..MaxDay -> Nat]

ClientTypes  == /\ ip \in [Conns -> Ips] /\ presentsCode \in [Conns -> BOOLEAN]
                /\ gone \in [Conns -> BOOLEAN] /\ received \in [Conns -> Nat]

OrchTypes    == /\ session \in [Conns -> {"listening", "speaking"}]
                /\ turn \in [Conns -> {"none", "running", "failed"}]
                /\ outbox \in [Conns -> Seq(OutboxEvent)]
                /\ emitted \in [Conns -> Seq(EventKinds)]

WireTypes    == /\ sender \in [Conns -> SenderAt] /\ inHand \in [Conns -> Nat]
                /\ wire \in [Conns -> Seq(WireMessage)]
                /\ verdict \in [Conns -> {"none"} \cup Reasons]

TypeOK == /\ ClockTypes /\ LimiterTypes /\ BudgetTypes /\ ClientTypes
          /\ at \in [Conns -> EndpointAt] /\ OrchTypes /\ WireTypes

(* In every window of WindowSeconds, wherever it starts, one address had    *)
(* at most MaxEvents connections accepted (RateLimiter.allow).              *)
AdmissionsWithinWindow ==
  \A p \in Ips, t \in 0..MaxNow :
    Cardinality({e \in admitted[p] : e.time \in t..(t + WindowSeconds)}) <= MaxEvents

(* The limiter turns a client away only when its address really used up     *)
(* the window that ends now: refused attempts do not count (allow).         *)
RefusedOnlyWhenFull ==
  [][\A c \in Conns :
       RefuseRate(c) =>
         Cardinality({e \in admitted[ip[c]] : e.time + WindowSeconds >= now})
           >= MaxEvents]_vars

(* On no day do all sessions together hand more than MaxTurnsPerDay         *)
(* utterances to the orchestrators, whatever midnight falls between         *)
(* (DailySpendCeiling.record_turn).                                         *)
ServedWithinCeiling == \A d \in 0..MaxDay : served[d] <= MaxTurnsPerDay

(* The ceiling's count never falls behind the turns served on its day, and  *)
(* is ahead of them by at most one for each connection that was told its    *)
(* session limit is reached (session_endpoint 260-265).                     *)
CountMatchesServed ==
  /\ spendCount >= served[spendDay]
  /\ spendCount <= served[spendDay]
       + Cardinality({c \in Conns : verdict[c] = "session turn limit reached"})

(* The wire messages one event of kind k is sent as. *)
AsSent(k, n) == IF k = "audio" THEN <<[type |-> "assistant_text", n |-> n],
                                      [type |-> "bytes", n |-> n]>>
                               ELSE <<[type |-> "json", n |-> n]>>

(* What was sent to the client besides error messages. *)
Payload(w) == FlattenSeq([i \in DOMAIN w |-> IF w[i].type = "error" THEN <<>> ELSE <<w[i]>>])

(* The second half of a clause whose text was sent. *)
Owed(c) == IF sender[c] = "owes_audio" THEN <<[type |-> "bytes", n |-> inHand[c]]>> ELSE <<>>

QueuedAsSent(q)  == FlattenSeq([i \in DOMAIN q |-> AsSent(q[i].kind, q[i].n)])
EmittedAsSent(k) == FlattenSeq([i \in DOMAIN k |-> AsSent(k[i], i)])

(* While the sender lives, what it sent, what it still owes and the outbox  *)
(* are together exactly the events emitted, in order; an error message may  *)
(* fall anywhere, even between a clause's text and its audio (sender).      *)
NothingLostOnTheWay ==
  \A c \in Conns :
    sender[c] \in {"waiting", "owes_audio"} =>
      Payload(wire[c]) \o Owed(c) \o QueuedAsSent(outbox[c]) = EmittedAsSent(emitted[c])

(* Everything put on the outbox of a connection that stays is sent.         *)
EventsAreSent ==
  \A c \in Conns :
    outbox[c] # <<>> ~> outbox[c] = <<>> \/ sender[c] \in {"failed", "cancelled"}

(* A client that vanishes does not leave its endpoint behind: whatever it   *)
(* is doing, it comes to its end, if the STT does not keep it for ever.     *)
EndpointEnds ==
  ProviderFairness => \A c \in Conns : gone[c] ~> at[c] \in {"ended", "abandoned"}

(* An endpoint is over and its turn runs on only when the sender failed.    *)
OrphansOnlyBySender ==
  \A c \in Conns :
    at[c] \in {"ended", "abandoned"} /\ turn[c] = "running" => sender[c] = "failed"

(* orchestrator.py 253: close() "Release[s] the current turn task": when    *)
(* the endpoint is over, no turn of its session is running.                 *)
SessionsAreClosed ==
  \A c \in Conns : at[c] \in {"ended", "abandoned"} => turn[c] # "running"

=============================================================================
