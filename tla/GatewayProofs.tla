--------------------------- MODULE GatewayProofs ---------------------------
(***************************************************************************)
(* What the gateway and its guards guarantee for any number of connections *)
(* and addresses and any limits.  The argument about the rate limiter, the *)
(* one about the daily ceiling and the one about the end of an endpoint    *)
(* each have an invariant of their own: the first two look only at the few *)
(* actions that touch their guard (OnlyAdmission, OnlySpeechEnds).         *)
(***************************************************************************)
EXTENDS Gateway, DataLemmas, TLAPS

-----------------------------------------------------------------------------
(* Types. *)

LEMMA TypeInit == Init => TypeOK
<1> SUFFICES ASSUME Init PROVE TypeOK
  OBVIOUS
<1>1. ClockTypes
  BY GatewayAssumption DEF Init, ClockTypes, GatewayAssumption
<1>2. LimiterTypes
  BY DEF Init, LimiterTypes
<1>3. BudgetTypes
  BY GatewayAssumption DEF Init, BudgetTypes, GatewayAssumption
<1>4. ClientTypes
  BY GatewayAssumption DEF Init, ClientTypes, GatewayAssumption
<1>5. at \in [Conns -> EndpointAt] /\ OrchTypes
  BY DEF Init, EndpointAt, OrchTypes
<1>6. WireTypes
  BY DEF Init, WireTypes, SenderAt
<1>7. QED
  BY <1>1, <1>2, <1>3, <1>4, <1>5, <1>6 DEF TypeOK

(* A group of fields that does not change keeps its types. *)
LEMMA Frame ==
  ASSUME TypeOK
  PROVE  /\ UNCHANGED clockVars => ClockTypes'
         /\ UNCHANGED limiterVars => LimiterTypes'
         /\ UNCHANGED budgetVars => BudgetTypes'
         /\ UNCHANGED clientVars => ClientTypes'
         /\ UNCHANGED at => at' \in [Conns -> EndpointAt]
         /\ UNCHANGED sessionVars => OrchTypes'
         /\ UNCHANGED wireVars => WireTypes'
<1>1. UNCHANGED clockVars => ClockTypes'
  BY DEF TypeOK, ClockTypes, clockVars
<1>2. UNCHANGED limiterVars => LimiterTypes'
  BY DEF TypeOK, LimiterTypes, limiterVars
<1>3. UNCHANGED budgetVars => BudgetTypes'
  BY DEF TypeOK, BudgetTypes, budgetVars
<1>4. UNCHANGED clientVars => ClientTypes'
  BY DEF TypeOK, ClientTypes, clientVars
<1>5. UNCHANGED at => at' \in [Conns -> EndpointAt]
  BY DEF TypeOK
<1>6. UNCHANGED sessionVars => OrchTypes'
  BY DEF TypeOK, OrchTypes, sessionVars
<1>7. UNCHANGED wireVars => WireTypes'
  BY DEF TypeOK, WireTypes, wireVars
<1>8. QED
  BY <1>1, <1>2, <1>3, <1>4, <1>5, <1>6, <1>7

(* at moves to another place of the endpoint. *)
LEMMA AtTyped ==
  ASSUME TypeOK, NEW c \in Conns, NEW place \in EndpointAt,
         at' = [at EXCEPT ![c] = place]
  PROVE  at' \in [Conns -> EndpointAt]
  BY DEF TypeOK

LEMMA EmitTyped ==
  ASSUME TypeOK, NEW c \in Conns, NEW kind \in EventKinds, Emit(c, kind)
  PROVE  outbox' \in [Conns -> Seq(OutboxEvent)] /\ emitted' \in [Conns -> Seq(EventKinds)]
<1>1. emitted[c] \in Seq(EventKinds) /\ outbox[c] \in Seq(OutboxEvent)
  BY DEF TypeOK, OrchTypes
<1>2. Len(emitted[c]) + 1 \in Nat
  BY <1>1
<1>3. [kind |-> kind, n |-> Len(emitted[c]) + 1] \in OutboxEvent
  BY <1>2 DEF OutboxEvent
<1>4. Append(emitted[c], kind) \in Seq(EventKinds)
  BY <1>1
<1>5. Append(outbox[c], [kind |-> kind, n |-> Len(emitted[c]) + 1]) \in Seq(OutboxEvent)
  BY <1>1, <1>3
<1>6. QED
  BY <1>4, <1>5 DEF Emit, TypeOK, OrchTypes

LEMMA SendTyped ==
  ASSUME TypeOK, NEW c \in Conns, NEW n \in Nat,
         NEW type \in {"assistant_text", "bytes", "json", "error"}, Send(c, type, n)
  PROVE  wire' \in [Conns -> Seq(WireMessage)]
<1>1. wire[c] \in Seq(WireMessage) /\ [type |-> type, n |-> n] \in WireMessage
  BY DEF TypeOK, WireTypes, WireMessage
<1>2. Append(wire[c], [type |-> type, n |-> n]) \in Seq(WireMessage)
  BY <1>1
<1>3. QED
  BY <1>2 DEF Send, TypeOK, WireTypes

(* The sender takes the head of an outbox. *)
LEMMA TakeTyped ==
  ASSUME TypeOK, NEW c \in Conns, outbox[c] # <<>>,
         outbox' = [outbox EXCEPT ![c] = Tail(@)],
         inHand' = [inHand EXCEPT ![c] = Head(outbox[c]).n]
  PROVE  /\ outbox' \in [Conns -> Seq(OutboxEvent)]
         /\ inHand' \in [Conns -> Nat]
         /\ Head(outbox[c]).n \in Nat
<1>1. outbox[c] \in Seq(OutboxEvent)
  BY DEF TypeOK, OrchTypes
<1>2. Head(outbox[c]) \in OutboxEvent /\ Tail(outbox[c]) \in Seq(OutboxEvent)
  BY <1>1
<1>3. Head(outbox[c]).n \in Nat
  BY <1>2 DEF OutboxEvent
<1>4. QED
  BY <1>2, <1>3 DEF TypeOK, OrchTypes, WireTypes

LEMMA ReceivesTyped ==
  ASSUME TypeOK, NEW c \in Conns, Receives(c)
  PROVE  /\ UNCHANGED clockVars /\ UNCHANGED limiterVars /\ ClientTypes'
  BY DEF Receives, TypeOK, ClientTypes

(* The day's count never passes the ceiling, nor the turn count the cap. *)
LEMMA BudgetTyped ==
  ASSUME TypeOK, NEW n \in Nat, n <= MaxTurnsPerDay, spendDay' = today, spendCount' = n,
         NEW c \in Conns,
         \/ UNCHANGED <<turnCount, served>>
         \/ /\ turnCount[c] < MaxTurnsPerSession
            /\ turnCount' = [turnCount EXCEPT ![c] = @ + 1]
            /\ served' = [served EXCEPT ![today] = @ + 1]
  PROVE  BudgetTypes'
<1>1. spendDay' \in 0..MaxDay
  BY DEF TypeOK, ClockTypes
<1>2. spendCount' \in 0..MaxTurnsPerDay
  BY GatewayAssumption DEF GatewayAssumption
<1>3. CASE UNCHANGED <<turnCount, served>>
  BY <1>1, <1>2, <1>3 DEF TypeOK, BudgetTypes
<1>4. CASE /\ turnCount[c] < MaxTurnsPerSession
           /\ turnCount' = [turnCount EXCEPT ![c] = @ + 1]
           /\ served' = [served EXCEPT ![today] = @ + 1]
  <2>1. turnCount[c] \in 0..MaxTurnsPerSession /\ served[today] \in Nat
    BY DEF TypeOK, BudgetTypes, ClockTypes
  <2>2. turnCount[c] + 1 \in 0..MaxTurnsPerSession
    BY <2>1, <1>4, GatewayAssumption DEF GatewayAssumption
  <2>3. turnCount' \in [Conns -> 0..MaxTurnsPerSession]
    BY <2>2, <1>4 DEF TypeOK, BudgetTypes
  <2>4. served' \in [0..MaxDay -> Nat]
    <3>1. served[today] + 1 \in Nat
      BY <2>1
    <3>2. served \in [0..MaxDay -> Nat]
      BY DEF TypeOK, BudgetTypes
    <3>3. QED
      BY <3>1, <3>2, <1>4
  <2>5. QED
    BY <1>1, <1>2, <2>3, <2>4 DEF BudgetTypes
<1>5. QED
  BY <1>3, <1>4

LEMMA SpentTyped ==
  ASSUME TypeOK
  PROVE  SpentToday \in Nat /\ SpentToday <= MaxTurnsPerDay
  BY GatewayAssumption DEF SpentToday, TypeOK, BudgetTypes, GatewayAssumption

LEMMA RefuseTyped ==
  ASSUME TypeOK, NEW c \in Conns, NEW reason \in Reasons, Refuse(c, reason)
  PROVE  at' \in [Conns -> EndpointAt] /\ WireTypes' /\ UNCHANGED sessionVars
<1>1. wire' \in [Conns -> Seq(WireMessage)]
  BY SendTyped DEF Refuse, TypeOK, WireTypes
<1>2. verdict' \in [Conns -> {"none"} \cup Reasons]
  BY DEF Refuse, TypeOK, WireTypes
<1>3. at' \in [Conns -> EndpointAt]
  BY AtTyped DEF Refuse, EndpointAt
<1>4. QED
  BY <1>1, <1>2, <1>3 DEF Refuse, TypeOK, WireTypes

LEMMA AdmissionTyped ==
  ASSUME TypeOK, NEW c \in Conns, Connect(c)
  PROVE  TypeOK'
<1>1. ip[c] \in Ips /\ now \in Nat
  BY GatewayAssumption DEF TypeOK, ClientTypes, ClockTypes, GatewayAssumption
<1>2. [conn |-> c, time |-> now] \in Admission
  BY <1>1 DEF Admission
<1>3. Kept(ip[c]) \in SUBSET Admission
  BY <1>1 DEF Kept, TypeOK, LimiterTypes
<1>4. CASE RefuseCode(c)
  BY <1>4, Frame, AtTyped DEF RefuseCode, TypeOK, EndpointAt
<1>5. CASE RefuseRate(c)
  <2>1. LimiterTypes'
    BY <1>3, <1>5 DEF RefuseRate, TypeOK, LimiterTypes
  <2>2. QED
    BY <1>5, <2>1, Frame, AtTyped DEF RefuseRate, TypeOK, EndpointAt
<1>6. CASE Accept(c)
  <2>1. LimiterTypes'
    BY <1>1, <1>2, <1>3, <1>6 DEF Accept, TypeOK, LimiterTypes
  <2>2. WireTypes'
    BY <1>6 DEF Accept, TypeOK, WireTypes, SenderAt
  <2>3. QED
    BY <1>6, <2>1, <2>2, Frame, AtTyped DEF Accept, TypeOK, EndpointAt
<1>7. QED
  BY <1>4, <1>5, <1>6 DEF Connect

LEMMA SenderTyped ==
  ASSUME TypeOK, NEW c \in Conns, SenderStep(c)
  PROVE  TypeOK'
<1>1. CASE SendsEvent(c)
  <2>1. /\ outbox' \in [Conns -> Seq(OutboxEvent)]
        /\ inHand' \in [Conns -> Nat]
        /\ Head(outbox[c]).n \in Nat
    BY <1>1, TakeTyped DEF SendsEvent
  <2>2. wire' \in [Conns -> Seq(WireMessage)]
    BY <1>1, <2>1, SendTyped DEF SendsEvent
  <2>3. sender' \in [Conns -> SenderAt]
    BY <1>1 DEF SendsEvent, TypeOK, WireTypes, SenderAt
  <2>4. OrchTypes'
    BY <1>1, <2>1 DEF SendsEvent, TypeOK, OrchTypes
  <2>5. WireTypes'
    BY <1>1, <2>1, <2>2, <2>3 DEF SendsEvent, TypeOK, WireTypes
  <2>6. QED
    BY <1>1, <2>4, <2>5, Frame DEF SendsEvent, TypeOK
<1>2. CASE SendsBytes(c)
  <2>1. wire' \in [Conns -> Seq(WireMessage)]
    BY <1>2, SendTyped DEF SendsBytes, TypeOK, WireTypes
  <2>2. WireTypes'
    BY <1>2, <2>1 DEF SendsBytes, TypeOK, WireTypes, SenderAt
  <2>3. QED
    BY <1>2, <2>2, Frame DEF SendsBytes, TypeOK
<1>3. CASE SenderFails(c)
  <2>1. outbox' \in [Conns -> Seq(OutboxEvent)] /\ inHand' \in [Conns -> Nat]
    BY <1>3, TakeTyped DEF SenderFails, TypeOK, OrchTypes, WireTypes
  <2>2. OrchTypes'
    BY <1>3, <2>1 DEF SenderFails, TypeOK, OrchTypes
  <2>3. WireTypes'
    BY <1>3, <2>1 DEF SenderFails, TypeOK, WireTypes, SenderAt
  <2>4. QED
    BY <1>3, <2>2, <2>3, Frame DEF SenderFails, TypeOK
<1>4. QED
  BY <1>1, <1>2, <1>3 DEF SenderStep

LEMMA ReceiveTyped ==
  ASSUME TypeOK, NEW c \in Conns, ReceiveStep(c)
  PROVE  TypeOK'
<1>1. Receives(c)
  BY DEF ReceiveStep, SpeechStart, SpeechEndOverCeiling, SpeechEndOverCap, SpeechEnd,
         BadMessage
<1>2. ClockTypes' /\ LimiterTypes' /\ ClientTypes'
  BY <1>1, ReceivesTyped, Frame
<1>3. CASE SpeechStart(c)
  <2>1. outbox' \in [Conns -> Seq(OutboxEvent)] /\ emitted' \in [Conns -> Seq(EventKinds)]
    BY <1>3, EmitTyped DEF SpeechStart, EventKinds
  <2>2. OrchTypes'
    BY <1>3, <2>1 DEF SpeechStart, TypeOK, OrchTypes
  <2>3. QED
    BY <1>2, <1>3, <2>2, Frame DEF SpeechStart, TypeOK
<1>4. CASE SpeechEndOverCeiling(c)
  <2>1. BudgetTypes'
    BY <1>4, SpentTyped, BudgetTyped DEF SpeechEndOverCeiling, Refuse
  <2>2. at' \in [Conns -> EndpointAt] /\ WireTypes' /\ UNCHANGED sessionVars
    BY <1>4, RefuseTyped DEF SpeechEndOverCeiling, Reasons
  <2>3. QED
    BY <1>2, <2>1, <2>2, Frame DEF TypeOK
<1>5. CASE SpeechEndOverCap(c)
  <2>0. SpentToday < MaxTurnsPerDay
    BY <1>5 DEF SpeechEndOverCap
  <2>1. SpentToday + 1 \in Nat /\ SpentToday + 1 <= MaxTurnsPerDay
    BY <2>0, SpentTyped, GatewayAssumption DEF GatewayAssumption
  <2>2. BudgetTypes'
    BY <1>5, <2>1, BudgetTyped DEF SpeechEndOverCap, Refuse
  <2>3. at' \in [Conns -> EndpointAt] /\ WireTypes' /\ UNCHANGED sessionVars
    BY <1>5, RefuseTyped DEF SpeechEndOverCap, Reasons
  <2>4. QED
    BY <1>2, <2>2, <2>3, Frame DEF TypeOK
<1>6. CASE SpeechEnd(c)
  <2>0. SpentToday < MaxTurnsPerDay
    BY <1>6 DEF SpeechEnd
  <2>1. SpentToday + 1 \in Nat /\ SpentToday + 1 <= MaxTurnsPerDay
    BY <2>0, SpentTyped, GatewayAssumption DEF GatewayAssumption
  <2>2. BudgetTypes'
    BY <1>6, <2>1, BudgetTyped DEF SpeechEnd
  <2>3. at' \in [Conns -> EndpointAt]
    BY <1>6 DEF SpeechEnd, TypeOK, EndpointAt
  <2>4. QED
    BY <1>2, <1>6, <2>2, <2>3, Frame DEF SpeechEnd, TypeOK
<1>7. CASE BadMessage(c)
  BY <1>2, <1>7, Frame, AtTyped DEF BadMessage, TypeOK, EndpointAt
<1>8. QED
  BY <1>3, <1>4, <1>5, <1>6, <1>7 DEF ReceiveStep

LEMMA SessionTyped ==
  ASSUME TypeOK, NEW c \in Conns, SttStep(c) \/ TurnStep(c)
  PROVE  TypeOK'
<1>1. UNCHANGED sessionOnly => UNCHANGED <<clockVars, limiterVars, budgetVars, clientVars, wireVars>>
  BY DEF sessionOnly
<1>2. ASSUME NEW kind \in EventKinds, Emit(c, kind), UNCHANGED sessionOnly,
             at' \in [Conns -> EndpointAt],
             session' \in [Conns -> {"listening", "speaking"}],
             turn' \in [Conns -> {"none", "running", "failed"}]
      PROVE  TypeOK'
  <2>1. OrchTypes'
    BY <1>2, EmitTyped DEF OrchTypes
  <2>2. QED
    BY <1>1, <1>2, <2>1, Frame DEF TypeOK
<1>3. CASE SttHearsSpeech(c)
  BY <1>2, <1>3, AtTyped DEF SttHearsSpeech, TypeOK, OrchTypes, EndpointAt, EventKinds
<1>4. CASE SttHearsNothing(c)
  BY <1>2, <1>4, AtTyped DEF SttHearsNothing, TypeOK, OrchTypes, EndpointAt, EventKinds
<1>5. CASE SttRaises(c)
  BY <1>1, <1>5, Frame, AtTyped DEF SttRaises, TypeOK, EndpointAt
<1>6. CASE TurnYields(c)
  BY <1>2, <1>6 DEF TurnYields, TypeOK, OrchTypes, EventKinds
<1>7. CASE TurnCompletes(c)
  BY <1>2, <1>7 DEF TurnCompletes, TypeOK, OrchTypes, EventKinds
<1>8. CASE TurnFails(c)
  <2>1. OrchTypes'
    BY <1>8 DEF TurnFails, TypeOK, OrchTypes
  <2>2. QED
    BY <1>1, <1>8, <2>1, Frame DEF TurnFails, TypeOK
<1>9. QED
  BY <1>3, <1>4, <1>5, <1>6, <1>7, <1>8 DEF SttStep, TurnStep

LEMMA LeavingTyped ==
  ASSUME TypeOK, NEW c \in Conns,
         ReceiveDisconnect(c) \/ Leave(c) \/ CloseSession(c) \/ ClientVanishes(c)
  PROVE  TypeOK'
<1>1. CASE ReceiveDisconnect(c)
  BY <1>1, Frame, AtTyped DEF ReceiveDisconnect, TypeOK, EndpointAt
<1>2. CASE Leave(c)
  <2>1. at' \in [Conns -> EndpointAt]
    BY <1>2, AtTyped DEF Leave, EndpointAt
  <2>2. WireTypes'
    BY <1>2 DEF Leave, TypeOK, WireTypes, SenderAt
  <2>3. QED
    BY <1>2, <2>1, <2>2, Frame DEF Leave, TypeOK
<1>3. CASE CloseSession(c)
  <2>1. outbox' \in [Conns -> Seq(OutboxEvent)] /\ emitted' \in [Conns -> Seq(EventKinds)]
    BY <1>3, EmitTyped DEF CloseSession, EventKinds, TypeOK, OrchTypes
  <2>2. OrchTypes'
    BY <1>3, <2>1 DEF CloseSession, TypeOK, OrchTypes
  <2>3. at' \in [Conns -> EndpointAt]
    BY <1>3, AtTyped DEF CloseSession, EndpointAt
  <2>4. QED
    BY <1>3, <2>2, <2>3, Frame DEF CloseSession, sessionOnly, TypeOK
<1>4. CASE ClientVanishes(c)
  <2>1. ClientTypes'
    BY <1>4 DEF ClientVanishes, TypeOK, ClientTypes
  <2>2. QED
    BY <1>4, <2>1, Frame DEF ClientVanishes, TypeOK
<1>5. QED
  BY <1>1, <1>2, <1>3, <1>4

LEMMA TypeNext == TypeOK /\ [Next]_vars => TypeOK'
<1> SUFFICES ASSUME TypeOK, [Next]_vars PROVE TypeOK'
  OBVIOUS
<1>1. CASE ClockTicks
  <2>1. ClockTypes'
    BY <1>1, GatewayAssumption DEF ClockTicks, TypeOK, ClockTypes, GatewayAssumption
  <2>2. QED
    BY <1>1, <2>1, Frame DEF ClockTicks, TypeOK
<1>2. CASE Midnight
  <2>1. ClockTypes'
    BY <1>2, GatewayAssumption DEF Midnight, TypeOK, ClockTypes, GatewayAssumption
  <2>2. QED
    BY <1>2, <2>1, Frame DEF Midnight, TypeOK
<1>3. CASE UNCHANGED vars
  BY <1>3, Frame DEF vars, TypeOK
<1>4. QED
  BY <1>1, <1>2, <1>3, AdmissionTyped, SenderTyped, ReceiveTyped, SessionTyped, LeavingTyped
  DEF Next

(* Every field keeps its type, and no count passes its limit: the daily     *)
(* count of the ceiling, the turn count of a connection (demo_guard.py).    *)
THEOREM TypeCorrect == Spec => []TypeOK
  BY TypeInit, TypeNext, PTL DEF Spec

-----------------------------------------------------------------------------
(* The rate limiter.  Only an admission and the clock touch it.  What it    *)
(* has forgotten is out of every window that can still end, and that is why *)
(* the connections it remembers are all that count.                         *)

LimiterInv ==
  \A p \in Ips :
    /\ IsFiniteSet(admitted[p])
    /\ limiterEvents[p] \subseteq admitted[p]
    /\ \A e \in admitted[p] : e.time <= now
    /\ \A e \in admitted[p] : e.time + WindowSeconds >= now => e \in limiterEvents[p]

LEMMA OnlyAdmission ==
  ASSUME [Next]_vars
  PROVE  \/ UNCHANGED <<now, limiterEvents, admitted>>
         \/ now' = now + 1 /\ UNCHANGED limiterVars
         \/ \E c \in Conns : RefuseRate(c) \/ Accept(c)
<1>1. CASE UNCHANGED vars
  BY <1>1 DEF vars, clockVars, limiterVars
<1>2. CASE ClockTicks \/ Midnight
  BY <1>2 DEF ClockTicks, Midnight, limiterVars
<1>3. ASSUME NEW c \in Conns, Connect(c)
      PROVE  UNCHANGED <<now, limiterEvents, admitted>> \/ RefuseRate(c) \/ Accept(c)
  BY <1>3 DEF Connect, RefuseCode, clockVars, limiterVars
<1>4. ASSUME NEW c \in Conns, SenderStep(c) PROVE UNCHANGED <<now, limiterEvents, admitted>>
  BY <1>4 DEF SenderStep, SendsEvent, SendsBytes, SenderFails, clockVars, limiterVars
<1>5. ASSUME NEW c \in Conns, ReceiveStep(c) PROVE UNCHANGED <<now, limiterEvents, admitted>>
  BY <1>5 DEF ReceiveStep, SpeechStart, SpeechEndOverCeiling, SpeechEndOverCap, SpeechEnd,
              BadMessage, Receives, clockVars, limiterVars
<1>6. ASSUME NEW c \in Conns, SttStep(c) \/ TurnStep(c)
      PROVE  UNCHANGED <<now, limiterEvents, admitted>>
  BY <1>6 DEF SttStep, TurnStep, SttHearsSpeech, SttHearsNothing, SttRaises, TurnYields,
              TurnCompletes, TurnFails, sessionOnly, clockVars, limiterVars
<1>7. ASSUME NEW c \in Conns,
             ReceiveDisconnect(c) \/ Leave(c) \/ CloseSession(c) \/ ClientVanishes(c)
      PROVE  UNCHANGED <<now, limiterEvents, admitted>>
  BY <1>7 DEF ReceiveDisconnect, Leave, CloseSession, ClientVanishes, sessionOnly,
              clockVars, limiterVars
<1>8. QED
  BY <1>1, <1>2, <1>3, <1>4, <1>5, <1>6, <1>7 DEF Next

(* The connections a window that holds the present can contain are those    *)
(* the limiter keeps.                                                       *)
LEMMA KeptIsTheWindow ==
  ASSUME TypeOK, LimiterInv, NEW p \in Ips
  PROVE  Kept(p) = {e \in admitted[p] : e.time + WindowSeconds >= now}
  BY DEF Kept, LimiterInv

LEMMA KeptFinite ==
  ASSUME TypeOK, LimiterInv, NEW p \in Ips
  PROVE  IsFiniteSet(Kept(p)) /\ Cardinality(Kept(p)) \in Nat
<1>1. IsFiniteSet(admitted[p]) /\ Kept(p) \in SUBSET admitted[p]
  BY KeptIsTheWindow DEF LimiterInv
<1>2. QED
  BY <1>1, FS_Subset, FS_CardinalityType

LEMMA LimiterNext == TypeOK /\ LimiterInv /\ [Next]_vars => LimiterInv'
<1> SUFFICES ASSUME TypeOK, LimiterInv, [Next]_vars PROVE LimiterInv'
  OBVIOUS
<1>a. now \in Nat /\ WindowSeconds \in Nat
  BY GatewayAssumption DEF TypeOK, ClockTypes, GatewayAssumption
<1>b. \A p \in Ips : \A e \in admitted[p] : e.time \in Nat
  BY DEF TypeOK, LimiterTypes, Admission
<1>1. CASE UNCHANGED <<now, limiterEvents, admitted>>
  BY <1>1 DEF LimiterInv
<1>2. CASE now' = now + 1 /\ UNCHANGED limiterVars
  BY <1>2, <1>a, <1>b DEF LimiterInv, limiterVars
<1>3. ASSUME NEW c \in Conns, RefuseRate(c) PROVE LimiterInv'
  <2>1. ip[c] \in Ips /\ UNCHANGED <<now, admitted>>
    BY <1>3 DEF RefuseRate, TypeOK, ClientTypes, clockVars
  <2>2. \A p \in Ips : limiterEvents'[p] = IF p = ip[c] THEN Kept(p) ELSE limiterEvents[p]
    BY <1>3, <2>1 DEF RefuseRate, TypeOK, LimiterTypes
  <2>3. QED
    BY <2>1, <2>2, KeptIsTheWindow DEF LimiterInv
<1>4. ASSUME NEW c \in Conns, Accept(c) PROVE LimiterInv'
  <2> DEFINE new == [conn |-> c, time |-> now]
  <2>1. ip[c] \in Ips /\ UNCHANGED now
    BY <1>4 DEF Accept, TypeOK, ClientTypes, clockVars
  <2>2. \A p \in Ips :
          /\ limiterEvents'[p] = IF p = ip[c] THEN Kept(p) \cup {new} ELSE limiterEvents[p]
          /\ admitted'[p] = IF p = ip[c] THEN admitted[p] \cup {new} ELSE admitted[p]
    BY <1>4, <2>1 DEF Accept, TypeOK, LimiterTypes
  <2>3. new.time = now
    OBVIOUS
  <2> HIDE DEF new
  <2>4. \A p \in Ips : IsFiniteSet(admitted'[p])
    <3>1. ASSUME NEW p \in Ips PROVE IsFiniteSet(admitted[p]) /\ IsFiniteSet(admitted[p] \cup {new})
      BY FS_AddElement DEF LimiterInv
    <3>2. QED
      BY <2>2, <3>1
  <2>5. \A p \in Ips : limiterEvents'[p] \subseteq admitted'[p]
    BY <2>2, KeptIsTheWindow DEF LimiterInv
  <2>6. \A p \in Ips : \A e \in admitted'[p] : e.time <= now
    <3>1. ASSUME NEW p \in Ips, NEW e \in admitted'[p] PROVE e = new \/ e \in admitted[p]
      BY <2>2
    <3>2. now <= now
      BY <1>a
    <3>3. QED
      BY <2>3, <3>1, <3>2 DEF LimiterInv
  <2>7. \A p \in Ips : \A e \in admitted'[p] :
          e.time + WindowSeconds >= now => e \in limiterEvents'[p]
    BY <2>2, KeptIsTheWindow DEF LimiterInv
  <2>8. QED
    BY <2>1, <2>4, <2>5, <2>6, <2>7 DEF LimiterInv
<1>5. QED
  BY <1>1, <1>2, <1>3, <1>4, OnlyAdmission

LEMMA WindowNext ==
  TypeOK /\ LimiterInv /\ AdmissionsWithinWindow /\ [Next]_vars => AdmissionsWithinWindow'
<1> SUFFICES ASSUME TypeOK, LimiterInv, AdmissionsWithinWindow, [Next]_vars,
                    NEW p \in Ips, NEW t \in 0..MaxNow
             PROVE  Cardinality({e \in admitted'[p] : e.time \in t..(t + WindowSeconds)})
                      <= MaxEvents
  BY DEF AdmissionsWithinWindow
<1>a. now \in Nat /\ WindowSeconds \in Nat /\ MaxEvents \in Nat /\ t \in Nat
  BY GatewayAssumption DEF TypeOK, ClockTypes, GatewayAssumption
<1>1. CASE UNCHANGED admitted
  BY <1>1 DEF AdmissionsWithinWindow
<1>2. ASSUME NEW c \in Conns, Accept(c), admitted' # admitted
      PROVE  Cardinality({e \in admitted'[p] : e.time \in t..(t + WindowSeconds)})
               <= MaxEvents
  <2> DEFINE new == [conn |-> c, time |-> now]
             before == {e \in admitted[p] : e.time \in t..(t + WindowSeconds)}
             after  == {e \in admitted'[p] : e.time \in t..(t + WindowSeconds)}
  <2>1. admitted'[p] = IF p = ip[c] THEN admitted[p] \cup {new} ELSE admitted[p]
    BY <1>2 DEF Accept, TypeOK, LimiterTypes, ClientTypes
  <2>2. Cardinality(before) <= MaxEvents
    BY DEF AdmissionsWithinWindow
  <2>3. new.time = now
    OBVIOUS
  <2>4. \A e \in admitted[p] : e.time \in Nat /\ e.time <= now
    BY DEF LimiterInv, TypeOK, LimiterTypes, Admission
  <2> HIDE DEF new
  <2>5. CASE p # ip[c] \/ now \notin t..(t + WindowSeconds)
    <3>1. after = before
      BY <2>1, <2>3, <2>5
    <3>2. QED
      BY <2>2, <3>1
  <2>6. CASE p = ip[c] /\ now \in t..(t + WindowSeconds)
    <3>1. t + WindowSeconds >= now
      BY <2>6, <1>a
    <3>2. \A e \in before : e.time >= t /\ e.time + WindowSeconds >= now
      BY <2>4, <3>1, <1>a
    <3>3. after \in SUBSET (Kept(p) \cup {new})
      BY <2>1, <3>2, KeptIsTheWindow
    <3>4. IsFiniteSet(Kept(p)) /\ Cardinality(Kept(p)) \in Nat /\ Cardinality(Kept(p)) < MaxEvents
      BY <1>2, <2>6, KeptFinite DEF Accept
    <3>5. /\ IsFiniteSet(Kept(p) \cup {new})
          /\ Cardinality(Kept(p) \cup {new}) <= Cardinality(Kept(p)) + 1
      BY <3>4, FS_AddElement
    <3>6. Cardinality(after) <= Cardinality(Kept(p) \cup {new}) /\ IsFiniteSet(after)
      BY <3>3, <3>5, FS_Subset
    <3>7. Cardinality(after) \in Nat /\ Cardinality(Kept(p) \cup {new}) \in Nat
      BY <3>5, <3>6, FS_CardinalityType
    <3>8. QED
      BY <3>4, <3>5, <3>6, <3>7, <1>a
  <2>7. QED
    BY <2>5, <2>6
<1>3. \A c \in Conns : RefuseRate(c) => UNCHANGED admitted
  BY DEF RefuseRate
<1>4. QED
  BY <1>1, <1>2, <1>3, OnlyAdmission DEF limiterVars

LEMMA LimiterInit == Init => LimiterInv /\ AdmissionsWithinWindow
<1> SUFFICES ASSUME Init PROVE LimiterInv /\ AdmissionsWithinWindow
  OBVIOUS
<1>1. \A p \in Ips : admitted[p] = {} /\ limiterEvents[p] = {}
  BY DEF Init
<1>2. LimiterInv
  BY <1>1, FS_EmptySet DEF LimiterInv
<1>3. ASSUME NEW p \in Ips, NEW t \in 0..MaxNow
      PROVE  Cardinality({e \in admitted[p] : e.time \in t..(t + WindowSeconds)}) <= MaxEvents
  <2>1. {e \in admitted[p] : e.time \in t..(t + WindowSeconds)} = {}
    BY <1>1
  <2>2. QED
    BY <2>1, FS_EmptySet, GatewayAssumption DEF GatewayAssumption
<1>4. QED
  BY <1>2, <1>3 DEF AdmissionsWithinWindow

(* However the connections of an address fall, and wherever the window of   *)
(* WindowSeconds is put, it holds at most MaxEvents of those that were      *)
(* accepted (RateLimiter.allow).                                            *)
THEOREM RateIsLimited == Spec => []AdmissionsWithinWindow
<1>1. TypeOK /\ LimiterInv /\ AdmissionsWithinWindow /\ [Next]_vars
        => TypeOK' /\ LimiterInv' /\ AdmissionsWithinWindow'
  BY TypeNext, LimiterNext, WindowNext
<1>2. QED
  BY TypeInit, LimiterInit, <1>1, PTL DEF Spec

(* A refusal is never undeserved: MaxEvents connections of this address     *)
(* were accepted in the window that ends now (RateLimiter.allow).           *)
THEOREM RefusalsAreDeserved == Spec => RefusedOnlyWhenFull
<1>1. TypeOK /\ LimiterInv /\ [Next]_vars => LimiterInv' /\ TypeOK'
  BY TypeNext, LimiterNext
<1>2. TypeOK /\ LimiterInv =>
        \A c \in Conns : RefuseRate(c) =>
          Cardinality({e \in admitted[ip[c]] : e.time + WindowSeconds >= now}) >= MaxEvents
  <2> SUFFICES ASSUME TypeOK, LimiterInv, NEW c \in Conns, RefuseRate(c)
               PROVE  Cardinality({e \in admitted[ip[c]] : e.time + WindowSeconds >= now})
                        >= MaxEvents
    OBVIOUS
  <2>1. ip[c] \in Ips /\ Cardinality(Kept(ip[c])) >= MaxEvents
    BY DEF RefuseRate, TypeOK, ClientTypes
  <2>2. QED
    BY <2>1, KeptIsTheWindow
<1>3. QED
  BY TypeInit, LimiterInit, <1>1, <1>2, PTL DEF Spec, RefusedOnlyWhenFull

-----------------------------------------------------------------------------
(* The daily ceiling.  Its count belongs to the day it names; no turn was   *)
(* served on a later day, so starting a new day from zero forgets nothing.  *)

Capped == {c \in Conns : verdict[c] = "session turn limit reached"}

(* A connection is told its limit is reached only once: the message is the  *)
(* last thing its loop does.                                                *)
NoVerdictYet == \A c \in Conns : at[c] \in {"new", "receiving", "stt"} => verdict[c] = "none"

BudgetInv ==
  /\ spendDay <= today
  /\ \A d \in 0..MaxDay : d > spendDay => served[d] = 0
  /\ ServedWithinCeiling
  /\ CountMatchesServed
  /\ NoVerdictYet

LEMMA OnlySpeechEnds ==
  ASSUME TypeOK, NoVerdictYet, [Next]_vars
  PROVE  \/ /\ UNCHANGED <<spendDay, spendCount, served, verdict>>
            /\ today' = today \/ today' = today + 1
            /\ NoVerdictYet'
         \/ \E c \in Conns : SpeechEndOverCeiling(c) \/ SpeechEndOverCap(c) \/ SpeechEnd(c)
<1> DEFINE Same == /\ UNCHANGED <<spendDay, spendCount, served, verdict>>
                   /\ today' = today \/ today' = today + 1
                   /\ NoVerdictYet'
<1>a. ASSUME UNCHANGED <<spendDay, spendCount, served, verdict, at>>,
             today' = today \/ today' = today + 1
      PROVE  Same
  BY <1>a DEF NoVerdictYet
<1>b. ASSUME UNCHANGED <<spendDay, spendCount, served, verdict, today>>, NEW c \in Conns,
             NEW place \in EndpointAt, at' = [at EXCEPT ![c] = place],
             at[c] \in {"new", "receiving", "stt"} \/ place \notin {"new", "receiving", "stt"}
      PROVE  Same
  BY <1>b DEF NoVerdictYet, TypeOK
<1> HIDE DEF Same
<1>1. CASE UNCHANGED vars
  BY <1>1, <1>a DEF Same, vars, clockVars, budgetVars, wireVars
<1>2. CASE ClockTicks
  BY <1>2, <1>a DEF Same, ClockTicks, budgetVars, wireVars
<1>3. CASE Midnight
  BY <1>3, <1>a DEF Same, Midnight, budgetVars, wireVars
<1>4. ASSUME NEW c \in Conns, Connect(c) PROVE Same
  <2>1. CASE RefuseCode(c)
    BY <2>1, <1>b DEF RefuseCode, clockVars, budgetVars, wireVars, EndpointAt
  <2>2. CASE RefuseRate(c)
    BY <2>2, <1>b DEF RefuseRate, clockVars, budgetVars, wireVars, EndpointAt
  <2>3. CASE Accept(c)
    BY <2>3, <1>b DEF Accept, clockVars, budgetVars, EndpointAt
  <2>4. QED
    BY <1>4, <2>1, <2>2, <2>3 DEF Connect
<1>5. ASSUME NEW c \in Conns, SenderStep(c) PROVE Same
  BY <1>5, <1>a DEF SenderStep, SendsEvent, SendsBytes, SenderFails, clockVars, budgetVars
<1>6. ASSUME NEW c \in Conns, ReceiveStep(c)
      PROVE  Same \/ SpeechEndOverCeiling(c) \/ SpeechEndOverCap(c) \/ SpeechEnd(c)
  <2>1. CASE SpeechStart(c)
    BY <2>1, <1>a DEF SpeechStart, Receives, clockVars, budgetVars, wireVars
  <2>2. CASE BadMessage(c)
    BY <2>2, <1>b DEF BadMessage, Receives, clockVars, budgetVars, wireVars, EndpointAt
  <2>3. QED
    BY <1>6, <2>1, <2>2 DEF ReceiveStep
<1>7. ASSUME NEW c \in Conns, SttStep(c) PROVE Same
  BY <1>7, <1>b DEF SttStep, SttHearsSpeech, SttHearsNothing, SttRaises, sessionOnly,
                    clockVars, budgetVars, wireVars, EndpointAt
<1>8. ASSUME NEW c \in Conns, TurnStep(c) \/ ClientVanishes(c) PROVE Same
  BY <1>8, <1>a DEF TurnStep, TurnYields, TurnCompletes, TurnFails, ClientVanishes,
                    sessionOnly, clockVars, budgetVars, wireVars
<1>9. ASSUME NEW c \in Conns, ReceiveDisconnect(c) \/ CloseSession(c) PROVE Same
  BY <1>9, <1>b DEF ReceiveDisconnect, CloseSession, sessionOnly, clockVars, budgetVars,
                    wireVars, EndpointAt
<1>10. ASSUME NEW c \in Conns, Leave(c) PROVE Same
  BY <1>10, <1>b DEF Leave, clockVars, budgetVars, EndpointAt
<1>11. QED
  BY <1>1, <1>2, <1>3, <1>4, <1>5, <1>6, <1>7, <1>8, <1>9, <1>10 DEF Next, Same

LEMMA CappedFinite ==
  ASSUME TypeOK
  PROVE  IsFiniteSet(Capped) /\ Cardinality(Capped) \in Nat
  BY GatewayAssumption, FS_Subset, FS_CardinalityType DEF Capped, GatewayAssumption

(* What the guard compares and the turns served today: equal up to the      *)
(* turns the cap refused.                                                   *)
LEMMA SpentMatchesServed ==
  ASSUME TypeOK, BudgetInv
  PROVE  /\ served[today] \in Nat
         /\ served[today] <= SpentToday
         /\ SpentToday <= served[today] + Cardinality(Capped)
<1>1. served[today] \in Nat /\ today \in 0..MaxDay /\ spendDay \in 0..MaxDay /\ MaxDay \in Nat
  BY GatewayAssumption DEF TypeOK, BudgetTypes, ClockTypes, GatewayAssumption
<1>2. CASE spendDay = today
  BY <1>1, <1>2 DEF BudgetInv, CountMatchesServed, SpentToday, Capped
<1>3. CASE spendDay # today
  <2>1. served[today] = 0
    BY <1>1, <1>3 DEF BudgetInv
  <2>2. QED
    BY <1>3, <2>1, CappedFinite DEF SpentToday
<1>4. QED
  BY <1>2, <1>3

(* When the count moves to today, no day after it has a turn. *)
LEMMA LaterDaysAreEmpty ==
  ASSUME TypeOK, BudgetInv, spendDay' = today, today' = today, served' = served
  PROVE  (\A d \in 0..MaxDay : d > spendDay' => served'[d] = 0) /\ spendDay' <= today'
<1>1. today \in Nat /\ spendDay \in Nat /\ spendDay <= today /\ MaxDay \in Nat
  BY GatewayAssumption DEF TypeOK, BudgetTypes, ClockTypes, GatewayAssumption, BudgetInv
<1>2. \A d \in 0..MaxDay : d > today => served[d] = 0
  BY <1>1 DEF BudgetInv
<1>3. QED
  BY <1>1, <1>2

LEMMA BudgetNext == TypeOK /\ BudgetInv /\ [Next]_vars => BudgetInv'
<1> SUFFICES ASSUME TypeOK, BudgetInv, [Next]_vars PROVE BudgetInv'
  OBVIOUS
<1>a. /\ today \in Nat /\ spendDay \in Nat /\ today \in 0..MaxDay /\ MaxTurnsPerDay \in Nat
      /\ served \in [0..MaxDay -> Nat] /\ MaxDay \in Nat
  BY GatewayAssumption DEF TypeOK, BudgetTypes, ClockTypes, GatewayAssumption
<1>b. SpentToday \in Nat /\ Cardinality(Capped) \in Nat /\ IsFiniteSet(Capped)
  BY SpentTyped, CappedFinite
<1>c. CountMatchesServed' <=> /\ spendCount' >= served'[spendDay']
                              /\ spendCount' <= served'[spendDay'] + Cardinality(Capped')
  BY DEF CountMatchesServed, Capped
<1>1. CASE /\ UNCHANGED <<spendDay, spendCount, served, verdict>>
           /\ today' = today \/ today' = today + 1
           /\ NoVerdictYet'
  <2>1. CountMatchesServed'
    BY <1>1 DEF BudgetInv, CountMatchesServed
  <2>2. spendDay' <= today'
    BY <1>1, <1>a DEF BudgetInv
  <2>3. QED
    BY <1>1, <2>1, <2>2 DEF BudgetInv, ServedWithinCeiling
<1>2. ASSUME NEW c \in Conns, SpeechEndOverCeiling(c) PROVE BudgetInv'
  <2>a. spendDay' = today /\ today' = today /\ served' = served
    BY <1>2 DEF SpeechEndOverCeiling, Refuse, Receives, clockVars
  <2>1. /\ spendDay' = today /\ today' = today /\ spendCount' = SpentToday /\ served' = served
        /\ verdict' = [verdict EXCEPT ![c] = "daily demo capacity reached"]
        /\ at[c] = "receiving" /\ at' = [at EXCEPT ![c] = "leaving"]
    BY <1>2 DEF SpeechEndOverCeiling, Refuse, Receives, clockVars
  <2>2. Capped' = Capped
    BY <2>1 DEF Capped, BudgetInv, NoVerdictYet, TypeOK, WireTypes
  <2>3. NoVerdictYet'
    BY <2>1 DEF BudgetInv, NoVerdictYet, TypeOK, WireTypes
  <2>4. CountMatchesServed'
    BY <2>1, <2>2, <1>c, SpentMatchesServed
  <2>5. QED
    <3>1. (\A d \in 0..MaxDay : d > spendDay' => served'[d] = 0) /\ spendDay' <= today'
      BY <2>a, LaterDaysAreEmpty
    <3>3. QED
      BY <2>1, <2>3, <2>4, <3>1 DEF BudgetInv, ServedWithinCeiling
<1>3. ASSUME NEW c \in Conns, SpeechEndOverCap(c) PROVE BudgetInv'
  <2>a. spendDay' = today /\ today' = today /\ served' = served
    BY <1>3 DEF SpeechEndOverCap, Refuse, Receives, clockVars
  <2>1. /\ spendDay' = today /\ today' = today /\ spendCount' = SpentToday + 1 /\ served' = served
        /\ verdict' = [verdict EXCEPT ![c] = "session turn limit reached"]
        /\ at[c] = "receiving" /\ at' = [at EXCEPT ![c] = "leaving"]
    BY <1>3 DEF SpeechEndOverCap, Refuse, Receives, clockVars
  <2>2. c \notin Capped /\ Capped' = Capped \cup {c}
    BY <2>1 DEF Capped, BudgetInv, NoVerdictYet, TypeOK, WireTypes
  <2>3. Cardinality(Capped') = Cardinality(Capped) + 1
    BY <2>2, <1>b, FS_AddElement
  <2>4. NoVerdictYet'
    BY <2>1 DEF BudgetInv, NoVerdictYet, TypeOK, WireTypes
  <2>5. CountMatchesServed'
    <3>1. spendCount' = SpentToday + 1 /\ served'[spendDay'] = served[today]
      BY <2>1
    <3>2. served[today] \in Nat /\ served[today] <= SpentToday
          /\ SpentToday <= served[today] + Cardinality(Capped)
      BY SpentMatchesServed
    <3>3. SpentToday + 1 >= served[today] /\ SpentToday + 1 <= served[today] + (Cardinality(Capped) + 1)
      BY <3>2, <1>b
    <3>4. QED
      BY <2>3, <3>1, <3>3, <1>c
  <2>6. QED
    <3>1. (\A d \in 0..MaxDay : d > spendDay' => served'[d] = 0) /\ spendDay' <= today'
      BY <2>a, LaterDaysAreEmpty
    <3>3. QED
      BY <2>1, <2>4, <2>5, <3>1 DEF BudgetInv, ServedWithinCeiling
<1>4. ASSUME NEW c \in Conns, SpeechEnd(c) PROVE BudgetInv'
  <2>1. /\ spendDay' = today /\ today' = today /\ spendCount' = SpentToday + 1
        /\ served' = [served EXCEPT ![today] = @ + 1]
        /\ UNCHANGED verdict
        /\ SpentToday < MaxTurnsPerDay
        /\ at[c] = "receiving"
    BY <1>4 DEF SpeechEnd, Receives, clockVars, wireVars
  <2>2. NoVerdictYet'
    BY <1>4, <2>1 DEF SpeechEnd, BudgetInv, NoVerdictYet, TypeOK
  <2>3. /\ served'[today] = served[today] + 1
        /\ \A d \in 0..MaxDay : d # today => served'[d] = served[d]
    BY <2>1, <1>a
  <2>4. Capped' = Capped
    BY <2>1 DEF Capped
  <2>5. CountMatchesServed'
    BY <2>1, <2>3, <2>4, <1>b, <1>c, SpentMatchesServed
  <2>6. served'[today] <= MaxTurnsPerDay
    BY <2>1, <2>3, <1>a, <1>b, SpentMatchesServed
  <2>7. ServedWithinCeiling'
    BY <2>3, <2>6 DEF BudgetInv, ServedWithinCeiling
  <2>8. \A d \in 0..MaxDay : d > spendDay' => served'[d] = 0
    BY <2>1, <2>3, <1>a DEF BudgetInv
  <2>9. QED
    BY <2>1, <2>2, <2>5, <2>7, <2>8, <1>a DEF BudgetInv
<1>5. QED
  BY <1>1, <1>2, <1>3, <1>4, OnlySpeechEnds DEF BudgetInv

LEMMA BudgetInit == Init => BudgetInv
<1> SUFFICES ASSUME Init PROVE BudgetInv
  OBVIOUS
<1>1. MaxDay \in Nat /\ MaxTurnsPerDay \in Nat
  BY GatewayAssumption DEF GatewayAssumption
<1>2. served[spendDay] = 0 /\ \A d \in 0..MaxDay : served[d] = 0
  BY <1>1 DEF Init
<1>3. Cardinality(Capped) \in Nat
  BY CappedFinite, TypeInit
<1>4. CountMatchesServed
  <2>1. spendCount = 0
    BY DEF Init
  <2>2. 0 >= 0 /\ 0 <= 0 + Cardinality(Capped)
    BY <1>3
  <2>3. QED
    BY <1>2, <2>1, <2>2 DEF CountMatchesServed, Capped
<1>5. QED
  BY <1>1, <1>2, <1>4 DEF Init, BudgetInv, ServedWithinCeiling, NoVerdictYet

(* Whatever sessions run at once, and whenever midnight falls among their   *)
(* turns, no day serves more than the ceiling (DailySpendCeiling).          *)
THEOREM CeilingHolds == Spec => []ServedWithinCeiling
<1>1. BudgetInv => ServedWithinCeiling
  BY DEF BudgetInv
<1>2. QED
  BY TypeInit, TypeNext, BudgetInit, BudgetNext, <1>1, PTL DEF Spec

(* The ceiling's count is the turns served, and at most one more for each   *)
(* connection stopped by its session limit (session_endpoint 260-265).      *)
THEOREM CountIsAccurate == Spec => []CountMatchesServed
<1>1. BudgetInv => CountMatchesServed
  BY DEF BudgetInv
<1>2. QED
  BY TypeInit, TypeNext, BudgetInit, BudgetNext, <1>1, PTL DEF Spec

-----------------------------------------------------------------------------
(* The end of an endpoint. *)

OrphanInv ==
  \A c \in Conns : /\ at[c] = "ended" => turn[c] # "running"
                   /\ at[c] = "abandoned" => sender[c] = "failed"

LEMMA OrphanNext == TypeOK /\ OrphanInv /\ [Next]_vars => OrphanInv'
<1> SUFFICES ASSUME TypeOK, OrphanInv, [Next]_vars PROVE OrphanInv'
  OBVIOUS
<1> USE DEF OrphanInv, TypeOK, OrchTypes, WireTypes
<1>1. CASE ClockTicks \/ Midnight \/ UNCHANGED vars
  BY <1>1 DEF ClockTicks, Midnight, vars, sessionVars, wireVars
<1>2. ASSUME NEW c \in Conns, Connect(c) PROVE OrphanInv'
  BY <1>2 DEF Connect, RefuseCode, RefuseRate, Accept, sessionVars, wireVars
<1>3. ASSUME NEW c \in Conns, SenderStep(c) PROVE OrphanInv'
  BY <1>3 DEF SenderStep, SendsEvent, SendsBytes, SenderFails, sessionVars
<1>4. ASSUME NEW c \in Conns, ReceiveStep(c) PROVE OrphanInv'
  <2>1. CASE SpeechStart(c)
    BY <2>1 DEF SpeechStart, Receives, wireVars
  <2>2. CASE SpeechEndOverCeiling(c) \/ SpeechEndOverCap(c)
    BY <2>2 DEF SpeechEndOverCeiling, SpeechEndOverCap, Refuse, Receives, sessionVars
  <2>3. CASE SpeechEnd(c) \/ BadMessage(c)
    BY <2>3 DEF SpeechEnd, BadMessage, Receives, sessionVars, wireVars
  <2>4. QED
    BY <1>4, <2>1, <2>2, <2>3 DEF ReceiveStep
<1>5. ASSUME NEW c \in Conns, SttStep(c) PROVE OrphanInv'
  BY <1>5 DEF SttStep, SttHearsSpeech, SttHearsNothing, SttRaises, sessionOnly,
              sessionVars, wireVars
<1>6. ASSUME NEW c \in Conns, TurnStep(c) PROVE OrphanInv'
  BY <1>6 DEF TurnStep, TurnYields, TurnCompletes, TurnFails, sessionOnly, wireVars
<1>7. ASSUME NEW c \in Conns, ReceiveDisconnect(c) \/ ClientVanishes(c) PROVE OrphanInv'
  BY <1>7 DEF ReceiveDisconnect, ClientVanishes, sessionVars, wireVars
<1>8. ASSUME NEW c \in Conns, Leave(c) PROVE OrphanInv'
  BY <1>8 DEF Leave, sessionVars
<1>9. ASSUME NEW c \in Conns, CloseSession(c) PROVE OrphanInv'
  BY <1>9 DEF CloseSession, sessionOnly, wireVars
<1>10. QED
  BY <1>1, <1>2, <1>3, <1>4, <1>5, <1>6, <1>7, <1>8, <1>9 DEF Next

(* The one way a turn outlives its connection is a sender that had failed:  *)
(* every other end of the endpoint goes through close() (main.py 273-279).  *)
THEOREM EndsCleanly == Spec => []OrphansOnlyBySender
<1>1. Init => OrphanInv
  BY DEF Init, OrphanInv
<1>2. OrphanInv => OrphansOnlyBySender
  BY DEF OrphanInv, OrphansOnlyBySender
<1>3. QED
  BY TypeInit, TypeNext, OrphanNext, <1>1, <1>2, PTL DEF Spec

-----------------------------------------------------------------------------
(* The wire.  Payload, QueuedAsSent and EmittedAsSent are concatenations,  *)
(* one piece for each message or event.                                    *)

LEMMA AsSentTyped ==
  ASSUME NEW kind \in EventKinds, NEW n \in Nat
  PROVE  AsSent(kind, n) \in Seq(WireMessage)
<1>1. /\ [type |-> "assistant_text", n |-> n] \in WireMessage
      /\ [type |-> "bytes", n |-> n] \in WireMessage
      /\ [type |-> "json", n |-> n] \in WireMessage
  BY DEF WireMessage
<1>2. QED
  BY <1>1 DEF AsSent

Piece(m) == IF m.type = "error" THEN <<>> ELSE <<m>>

LEMMA PayloadAppend ==
  ASSUME NEW w \in Seq(WireMessage), NEW m \in WireMessage
  PROVE  /\ Payload(w) \in Seq(WireMessage)
         /\ Payload(Append(w, m)) = Payload(w) \o Piece(m)
<1> DEFINE x == Append(w, m)
           f == [i \in DOMAIN w |-> Piece(w[i])]
           g == [i \in DOMAIN x |-> Piece(x[i])]
<1>1. \A q \in WireMessage : Piece(q) \in Seq(WireMessage)
  BY DEF Piece
<1>2. /\ DOMAIN w = 1..Len(w) /\ Len(w) \in Nat /\ DOMAIN x = 1..(Len(w) + 1)
      /\ \A i \in 1..Len(w) : w[i] \in WireMessage /\ x[i] = w[i]
      /\ x[Len(w) + 1] = m
  OBVIOUS
<1>3. f \in Seq(Seq(WireMessage)) /\ Len(f) = Len(w)
  BY <1>1, <1>2
<1>4. g = Append(f, Piece(m))
  <2>1. DOMAIN g = 1..(Len(w) + 1) /\ DOMAIN Append(f, Piece(m)) = 1..(Len(w) + 1)
    BY <1>2, <1>3
  <2>2. \A i \in 1..(Len(w) + 1) : g[i] = Append(f, Piece(m))[i]
    BY <1>2, <1>3
  <2>3. QED
    BY <2>1, <2>2
<1>5. Payload(w) = FlattenSeq(f) /\ Payload(x) = FlattenSeq(g)
  BY DEF Payload, Piece
<1> HIDE DEF f, g, x
<1>6. Piece(m) \in Seq(WireMessage)
  BY <1>1
<1>7. FlattenSeq(Append(f, Piece(m))) = FlattenSeq(f) \o Piece(m)
  BY <1>3, <1>6, FlattenAppend, Zenon
<1>8. FlattenSeq(f) \in Seq(WireMessage)
  BY <1>3, FlattenType, Zenon
<1>9. QED
  BY <1>4, <1>5, <1>7, <1>8 DEF x

LEMMA QueuedAppend ==
  ASSUME NEW q \in Seq(OutboxEvent), NEW e \in OutboxEvent
  PROVE  /\ QueuedAsSent(q) \in Seq(WireMessage)
         /\ QueuedAsSent(Append(q, e)) = QueuedAsSent(q) \o AsSent(e.kind, e.n)
         /\ AsSent(e.kind, e.n) \in Seq(WireMessage)
<1> DEFINE x == Append(q, e)
           f == [i \in DOMAIN q |-> AsSent(q[i].kind, q[i].n)]
           g == [i \in DOMAIN x |-> AsSent(x[i].kind, x[i].n)]
           a == AsSent(e.kind, e.n)
<1>1. \A d \in OutboxEvent : AsSent(d.kind, d.n) \in Seq(WireMessage)
  BY AsSentTyped DEF OutboxEvent
<1>2. /\ DOMAIN q = 1..Len(q) /\ Len(q) \in Nat /\ DOMAIN x = 1..(Len(q) + 1)
      /\ \A i \in 1..Len(q) : q[i] \in OutboxEvent /\ x[i] = q[i]
      /\ x[Len(q) + 1] = e
  OBVIOUS
<1>3. f \in Seq(Seq(WireMessage)) /\ Len(f) = Len(q)
  BY <1>1, <1>2
<1>4. g = Append(f, a)
  <2>1. DOMAIN g = 1..(Len(q) + 1) /\ DOMAIN Append(f, a) = 1..(Len(q) + 1)
    BY <1>2, <1>3
  <2>2. \A i \in 1..(Len(q) + 1) : g[i] = Append(f, a)[i]
    BY <1>2, <1>3
  <2>3. QED
    BY <2>1, <2>2
<1>5. QueuedAsSent(q) = FlattenSeq(f) /\ QueuedAsSent(x) = FlattenSeq(g)
  BY DEF QueuedAsSent
<1>6. a \in Seq(WireMessage)
  BY <1>1
<1> HIDE DEF f, g, x, a
<1>7. FlattenSeq(Append(f, a)) = FlattenSeq(f) \o a
  BY <1>3, <1>6, FlattenAppend, Zenon
<1>8. FlattenSeq(f) \in Seq(WireMessage)
  BY <1>3, FlattenType, Zenon
<1>9. QED
  BY <1>4, <1>5, <1>6, <1>7, <1>8 DEF x, a

LEMMA QueuedHead ==
  ASSUME NEW q \in Seq(OutboxEvent), q # <<>>
  PROVE  QueuedAsSent(q) = AsSent(Head(q).kind, Head(q).n) \o QueuedAsSent(Tail(q))
<1> DEFINE t == Tail(q)
           f == [i \in DOMAIN q |-> AsSent(q[i].kind, q[i].n)]
           g == [i \in DOMAIN t |-> AsSent(t[i].kind, t[i].n)]
<1>1. \A d \in OutboxEvent : AsSent(d.kind, d.n) \in Seq(WireMessage)
  BY AsSentTyped DEF OutboxEvent
<1>2. /\ DOMAIN q = 1..Len(q) /\ Len(q) \in Nat /\ Len(q) >= 1 /\ DOMAIN t = 1..(Len(q) - 1)
      /\ \A i \in 1..Len(q) : q[i] \in OutboxEvent
      /\ \A i \in 1..(Len(q) - 1) : t[i] = q[i + 1]
      /\ Head(q) = q[1]
  OBVIOUS
<1>3. f \in Seq(Seq(WireMessage)) /\ Len(f) = Len(q) /\ f # <<>>
  BY <1>1, <1>2
<1>4. g = Tail(f)
  <2>1. DOMAIN g = 1..(Len(q) - 1) /\ DOMAIN Tail(f) = 1..(Len(q) - 1)
    BY <1>2, <1>3
  <2>2. \A i \in 1..(Len(q) - 1) : g[i] = Tail(f)[i]
    BY <1>2, <1>3
  <2>3. QED
    BY <2>1, <2>2
<1>5. Head(f) = AsSent(Head(q).kind, Head(q).n)
  BY <1>2, <1>3
<1>6. QueuedAsSent(q) = FlattenSeq(f) /\ QueuedAsSent(t) = FlattenSeq(g)
  BY DEF QueuedAsSent
<1> HIDE DEF f, g, t
<1>7. FlattenSeq(f) = Head(f) \o FlattenSeq(Tail(f))
  BY <1>3, FlattenHead, Zenon
<1>8. QED
  BY <1>4, <1>5, <1>6, <1>7 DEF t

LEMMA EmittedAppend ==
  ASSUME NEW k \in Seq(EventKinds), NEW kind \in EventKinds
  PROVE  /\ EmittedAsSent(k) \in Seq(WireMessage)
         /\ EmittedAsSent(Append(k, kind)) = EmittedAsSent(k) \o AsSent(kind, Len(k) + 1)
<1> DEFINE x == Append(k, kind)
           f == [i \in DOMAIN k |-> AsSent(k[i], i)]
           g == [i \in DOMAIN x |-> AsSent(x[i], i)]
           a == AsSent(kind, Len(k) + 1)
<1>1. /\ DOMAIN k = 1..Len(k) /\ Len(k) \in Nat /\ DOMAIN x = 1..(Len(k) + 1)
      /\ \A i \in 1..Len(k) : k[i] \in EventKinds /\ x[i] = k[i] /\ i \in Nat
      /\ x[Len(k) + 1] = kind
  OBVIOUS
<1>2. f \in Seq(Seq(WireMessage)) /\ Len(f) = Len(k)
  BY <1>1, AsSentTyped
<1>3. a \in Seq(WireMessage)
  BY <1>1, AsSentTyped
<1>4. g = Append(f, a)
  <2>1. DOMAIN g = 1..(Len(k) + 1) /\ DOMAIN Append(f, a) = 1..(Len(k) + 1)
    BY <1>1, <1>2
  <2>2. \A i \in 1..(Len(k) + 1) : g[i] = Append(f, a)[i]
    BY <1>1, <1>2
  <2>3. QED
    BY <2>1, <2>2
<1>5. EmittedAsSent(k) = FlattenSeq(f) /\ EmittedAsSent(x) = FlattenSeq(g)
  BY DEF EmittedAsSent
<1> HIDE DEF f, g, x, a
<1>6. FlattenSeq(Append(f, a)) = FlattenSeq(f) \o a
  BY <1>2, <1>3, FlattenAppend, Zenon
<1>7. FlattenSeq(f) \in Seq(WireMessage)
  BY <1>2, FlattenType, Zenon
<1>8. QED
  BY <1>4, <1>5, <1>6, <1>7 DEF x, a

-----------------------------------------------------------------------------
(* What a step can do to the way of one connection's events: put one on    *)
(* the outbox, send a half or the whole of one, send an error message, or  *)
(* end the sender.  Before the connection is accepted there is nothing on  *)
(* the way.                                                                *)

WireOf(d) ==
  sender[d] \in {"waiting", "owes_audio"} =>
    Payload(wire[d]) \o Owed(d) \o QueuedAsSent(outbox[d]) = EmittedAsSent(emitted[d])

Unopened(d) ==
  at[d] = "new" => /\ sender[d] = "none" /\ turn[d] = "none"
                   /\ wire[d] = <<>> /\ outbox[d] = <<>> /\ emitted[d] = <<>>

WireInv == \A d \in Conns : WireOf(d) /\ Unopened(d)

KeepsSender(d) == sender'[d] = sender[d] /\ inHand'[d] = inHand[d]
KeepsOutbox(d) == outbox'[d] = outbox[d] /\ emitted'[d] = emitted[d]
KeepsEvents(d) == KeepsSender(d) /\ KeepsOutbox(d) /\ wire'[d] = wire[d]

EmitsOne(d) ==
  /\ KeepsSender(d) /\ wire'[d] = wire[d]
  /\ \E kind \in EventKinds :
       /\ emitted'[d] = Append(emitted[d], kind)
       /\ outbox'[d] = Append(outbox[d], [kind |-> kind, n |-> Len(emitted[d]) + 1])

SendsError(d) ==
  /\ KeepsSender(d) /\ KeepsOutbox(d)
  /\ wire'[d] = Append(wire[d], [type |-> "error", n |-> 0])

SendsHead(d) ==
  /\ sender[d] = "waiting" /\ outbox[d] # <<>>
  /\ LET e == Head(outbox[d])
     IN /\ wire'[d] = Append(wire[d],
                        [type |-> IF e.kind = "audio" THEN "assistant_text" ELSE "json",
                         n |-> e.n])
        /\ sender'[d] = IF e.kind = "audio" THEN "owes_audio" ELSE "waiting"
        /\ inHand'[d] = e.n
  /\ outbox'[d] = Tail(outbox[d]) /\ emitted'[d] = emitted[d]

SendsRest(d) ==
  /\ sender[d] = "owes_audio" /\ sender'[d] = "waiting"
  /\ wire'[d] = Append(wire[d], [type |-> "bytes", n |-> inHand[d]])
  /\ KeepsOutbox(d)

EndsSender(d) == sender'[d] \in {"failed", "cancelled"}

Opens(d) == at[d] = "new" /\ wire'[d] = wire[d] /\ KeepsOutbox(d) /\ sender'[d] = "waiting"

WireStep(d) == KeepsEvents(d) \/ EmitsOne(d) \/ SendsError(d) \/ SendsHead(d)
               \/ SendsRest(d) \/ EndsSender(d) \/ Opens(d)

LEMMA EmitEmitsOne ==
  ASSUME TypeOK, NEW c \in Conns, NEW d \in Conns, NEW kind \in EventKinds, Emit(c, kind),
         UNCHANGED wireVars
  PROVE  IF c = d THEN EmitsOne(d) ELSE KeepsEvents(d)
<1>1. CASE c = d
  BY <1>1 DEF Emit, EmitsOne, KeepsSender, wireVars, TypeOK, OrchTypes
<1>2. CASE c # d
  BY <1>2 DEF Emit, KeepsEvents, KeepsOutbox, KeepsSender, wireVars, TypeOK, OrchTypes
<1>3. QED
  BY <1>1, <1>2

LEMMA OnlyWireSteps ==
  ASSUME TypeOK, [Next]_vars, NEW d \in Conns
  PROVE  WireStep(d)
<1> USE DEF KeepsEvents, KeepsOutbox, KeepsSender
<1>1. CASE UNCHANGED <<sessionVars, wireVars>>
  BY <1>1 DEF WireStep, sessionVars, wireVars
<1>2. CASE UNCHANGED vars \/ ClockTicks \/ Midnight
  BY <1>1, <1>2 DEF vars, ClockTicks, Midnight
<1>3. ASSUME NEW c \in Conns, Connect(c) PROVE WireStep(d)
  <2>1. CASE RefuseCode(c) \/ RefuseRate(c)
    BY <1>1, <2>1 DEF RefuseCode, RefuseRate
  <2>2. CASE Accept(c)
    BY <2>2 DEF Accept, WireStep, Opens, sessionVars, TypeOK, WireTypes
  <2>3. QED
    BY <1>3, <2>1, <2>2 DEF Connect
<1>4. ASSUME NEW c \in Conns, SenderStep(c) PROVE WireStep(d)
  <2> USE DEF TypeOK, WireTypes, OrchTypes
  <2>1. CASE SendsEvent(c)
    <3>1. CASE c = d
      BY <2>1, <3>1 DEF SendsEvent, Send, WireStep, SendsHead
    <3>2. CASE c # d
      BY <2>1, <3>2 DEF SendsEvent, Send, WireStep
    <3>3. QED
      BY <3>1, <3>2
  <2>2. CASE SendsBytes(c)
    <3>1. CASE c = d
      BY <2>2, <3>1 DEF SendsBytes, Send, WireStep, SendsRest, sessionVars
    <3>2. CASE c # d
      BY <2>2, <3>2 DEF SendsBytes, Send, WireStep, sessionVars
    <3>3. QED
      BY <3>1, <3>2
  <2>3. CASE SenderFails(c)
    <3>1. CASE c = d
      BY <2>3, <3>1 DEF SenderFails, WireStep, EndsSender
    <3>2. CASE c # d
      BY <2>3, <3>2 DEF SenderFails, WireStep
    <3>3. QED
      BY <3>1, <3>2
  <2>4. QED
    BY <1>4, <2>1, <2>2, <2>3 DEF SenderStep
<1>5. ASSUME NEW c \in Conns, NEW kind \in EventKinds, Emit(c, kind), UNCHANGED wireVars
      PROVE  WireStep(d)
  BY <1>5, EmitEmitsOne DEF WireStep
<1>6. ASSUME NEW c \in Conns, NEW reason \in Reasons, Refuse(c, reason) PROVE WireStep(d)
  BY <1>6 DEF Refuse, Send, WireStep, SendsError, sessionVars, TypeOK, WireTypes
<1>7. ASSUME NEW c \in Conns, ReceiveStep(c) PROVE WireStep(d)
  <2>1. CASE SpeechStart(c)
    BY <1>5, <2>1 DEF SpeechStart, EventKinds
  <2>2. CASE SpeechEndOverCeiling(c) \/ SpeechEndOverCap(c)
    BY <1>6, <2>2 DEF SpeechEndOverCeiling, SpeechEndOverCap, Reasons
  <2>3. CASE SpeechEnd(c) \/ BadMessage(c)
    BY <1>1, <2>3 DEF SpeechEnd, BadMessage
  <2>4. QED
    BY <1>7, <2>1, <2>2, <2>3 DEF ReceiveStep
<1>8. ASSUME NEW c \in Conns, SttStep(c) \/ TurnStep(c) PROVE WireStep(d)
  <2>1. UNCHANGED wireVars
    BY <1>8 DEF SttStep, TurnStep, SttHearsSpeech, SttHearsNothing, SttRaises, TurnYields,
                TurnCompletes, TurnFails, sessionOnly
  <2>2. CASE \E kind \in EventKinds : Emit(c, kind)
    BY <1>5, <2>1, <2>2
  <2>3. CASE UNCHANGED <<outbox, emitted>>
    BY <2>1, <2>3 DEF WireStep, wireVars
  <2>4. QED
    BY <1>8, <2>2, <2>3 DEF SttStep, TurnStep, SttHearsSpeech, SttHearsNothing, SttRaises,
       TurnYields, TurnCompletes, TurnFails, sessionVars, EventKinds
<1>9. ASSUME NEW c \in Conns, ReceiveDisconnect(c) \/ ClientVanishes(c) PROVE WireStep(d)
  BY <1>1, <1>9 DEF ReceiveDisconnect, ClientVanishes
<1>10. ASSUME NEW c \in Conns, Leave(c) PROVE WireStep(d)
  BY <1>10 DEF Leave, WireStep, EndsSender, sessionVars, TypeOK, WireTypes
<1>11. ASSUME NEW c \in Conns, CloseSession(c) PROVE WireStep(d)
  <2>1. UNCHANGED wireVars
    BY <1>11 DEF CloseSession, sessionOnly
  <2>2. CASE session[c] = "speaking"
    BY <1>5, <1>11, <2>1, <2>2 DEF CloseSession, EventKinds
  <2>3. CASE session[c] # "speaking"
    BY <1>11, <2>1, <2>3 DEF CloseSession, WireStep, wireVars
  <2>4. QED
    BY <2>2, <2>3
<1>12. QED
  BY <1>2, <1>3, <1>4, <1>7, <1>8, <1>9, <1>10, <1>11 DEF Next

LEMMA WireAssociative == Associative(WireMessage)
  BY ConcatIsAssociative, Zenon

(* Three pieces one after the other, the middle one moving left or right. *)
LEMMA Regroup ==
  ASSUME NEW a \in Seq(WireMessage), NEW b \in Seq(WireMessage), NEW q \in Seq(WireMessage)
  PROVE  /\ (a \o b) \o q = a \o (b \o q)
         /\ a \o b \in Seq(WireMessage)
         /\ a \o <<>> = a /\ <<>> \o a = a
<1>1. (a \o b) \o q = a \o (b \o q)
  BY WireAssociative, Zenon DEF Associative
<1>2. QED
  BY <1>1

LEMMA WireKept ==
  ASSUME TypeOK, NEW d \in Conns, WireOf(d), Unopened(d), WireStep(d)
  PROVE  WireOf(d)'
<1> DEFINE w == Payload(wire[d])
           q == QueuedAsSent(outbox[d])
           k == EmittedAsSent(emitted[d])
           o == Owed(d)
<1> USE DEF KeepsEvents, KeepsOutbox, KeepsSender
<1>1. /\ wire[d] \in Seq(WireMessage) /\ outbox[d] \in Seq(OutboxEvent)
      /\ emitted[d] \in Seq(EventKinds) /\ inHand[d] \in Nat
  BY DEF TypeOK, WireTypes, OrchTypes
<1>2. /\ w \in Seq(WireMessage) /\ q \in Seq(WireMessage) /\ k \in Seq(WireMessage)
      /\ o \in Seq(WireMessage)
  <2>1. [type |-> "error", n |-> 0] \in WireMessage /\ [kind |-> "audio", n |-> 0] \in OutboxEvent
        /\ "audio" \in EventKinds /\ [type |-> "bytes", n |-> inHand[d]] \in WireMessage
    BY <1>1 DEF WireMessage, OutboxEvent, EventKinds
  <2>2. w \in Seq(WireMessage)
    BY <1>1, <2>1, PayloadAppend, Zenon
  <2>3. q \in Seq(WireMessage)
    BY <1>1, <2>1, QueuedAppend, Zenon
  <2>4. k \in Seq(WireMessage)
    BY <1>1, <2>1, EmittedAppend, Zenon
  <2>5. o \in Seq(WireMessage)
    BY <2>1 DEF Owed
  <2>6. QED
    BY <2>2, <2>3, <2>4, <2>5
<1>3. CASE KeepsEvents(d)
  BY <1>3 DEF WireOf, Owed
<1>4. CASE EmitsOne(d)
  <2>1. PICK kind \in EventKinds :
          /\ emitted'[d] = Append(emitted[d], kind)
          /\ outbox'[d] = Append(outbox[d], [kind |-> kind, n |-> Len(emitted[d]) + 1])
    BY <1>4 DEF EmitsOne
  <2> DEFINE n == Len(emitted[d]) + 1
             e == [kind |-> kind, n |-> n]
             a == AsSent(kind, n)
  <2>2. n \in Nat /\ e \in OutboxEvent /\ e.kind = kind /\ e.n = n
    BY <1>1 DEF OutboxEvent
  <2>3. QueuedAsSent(outbox'[d]) = q \o a /\ a \in Seq(WireMessage)
    BY <1>1, <2>1, <2>2, QueuedAppend
  <2>4. EmittedAsSent(emitted'[d]) = k \o a
    BY <1>1, <2>1, EmittedAppend
  <2>5. Payload(wire'[d]) = w /\ Owed(d)' = o /\ sender'[d] = sender[d]
    BY <1>4 DEF EmitsOne, Owed
  <2>6. sender[d] \in {"waiting", "owes_audio"} => (w \o o) \o q = k
    BY DEF WireOf
  <2> HIDE DEF w, q, k, o, a
  <2>7. ((w \o o) \o q) \o a = (w \o o) \o (q \o a)
    <3>1. w \o o \in Seq(WireMessage)
      BY <1>2, Regroup, Zenon
    <3>2. a \in Seq(WireMessage)
      BY <2>3
    <3>3. QED
      BY <1>2, <3>1, <3>2, WireAssociative, Zenon DEF Associative
  <2>8. sender'[d] \in {"waiting", "owes_audio"} =>
          (Payload(wire'[d]) \o Owed(d)') \o QueuedAsSent(outbox'[d]) = EmittedAsSent(emitted'[d])
    BY <2>3, <2>4, <2>5, <2>6, <2>7
  <2>9. QED
    BY <2>8 DEF WireOf
<1>5. CASE SendsError(d)
  <2> DEFINE m == [type |-> "error", n |-> 0]
  <2>1. m \in WireMessage /\ Piece(m) = <<>>
    BY DEF WireMessage, Piece
  <2>2. Payload(wire'[d]) = w \o <<>>
    BY <1>1, <1>5, <2>1, PayloadAppend DEF SendsError
  <2>3. Payload(wire'[d]) = w
    BY <1>2, <2>2
  <2>4. QED
    BY <1>5, <2>3 DEF SendsError, WireOf, Owed
<1>6. CASE SendsHead(d)
  <2> DEFINE e == Head(outbox[d])
             m == [type |-> IF e.kind = "audio" THEN "assistant_text" ELSE "json", n |-> e.n]
             t == QueuedAsSent(Tail(outbox[d]))
  <2>1. outbox[d] # <<>> /\ sender[d] = "waiting"
    BY <1>6 DEF SendsHead
  <2>2. e \in OutboxEvent /\ Tail(outbox[d]) \in Seq(OutboxEvent)
    BY <1>1, <2>1, HeadTailProperties
  <2>3. m \in WireMessage /\ Piece(m) = <<m>> /\ <<m>> \in Seq(WireMessage)
    BY <2>2 DEF WireMessage, OutboxEvent, Piece
  <2>4. q = AsSent(e.kind, e.n) \o t
    BY <1>1, <2>1, QueuedHead
  <2>5. Payload(wire'[d]) = w \o <<m>>
    BY <1>1, <1>6, <2>3, PayloadAppend DEF SendsHead
  <2>6. AsSent(e.kind, e.n) = <<m>> \o Owed(d)' /\ Owed(d)' \in Seq(WireMessage)
    <3>1. sender'[d] = (IF e.kind = "audio" THEN "owes_audio" ELSE "waiting") /\ inHand'[d] = e.n
      BY <1>6 DEF SendsHead
    <3>2. [type |-> "bytes", n |-> e.n] \in WireMessage
      BY <2>2 DEF WireMessage, OutboxEvent
    <3>3. Owed(d)' = IF e.kind = "audio" THEN <<[type |-> "bytes", n |-> e.n]>> ELSE <<>>
      BY <3>1 DEF Owed
    <3>4. \A x, y \in WireMessage : <<x>> \o <<y>> = <<x, y>> /\ <<x>> \o <<>> = <<x>>
      <4> SUFFICES ASSUME NEW x \in WireMessage, NEW y \in WireMessage
                   PROVE  <<x>> \o <<y>> = <<x, y>> /\ <<x>> \o <<>> = <<x>>
        OBVIOUS
      <4>1. <<x>> \in Seq(WireMessage)
        OBVIOUS
      <4>2. <<x>> \o <<y>> = <<x, y>>
        BY Pair
      <4>4. <<x>> \o <<>> = <<x>>
        BY <4>1, ConcatEmptySeq
      <4>5. QED
        BY <4>2, <4>4
    <3>5. CASE e.kind = "audio"
      BY <2>3, <3>2, <3>3, <3>4, <3>5 DEF AsSent
    <3>6. CASE e.kind # "audio"
      BY <2>3, <3>2, <3>3, <3>4, <3>6 DEF AsSent
    <3>7. QED
      BY <3>5, <3>6
  <2>7. t \in Seq(WireMessage)
    BY <2>2, QueuedAppend
  <2>8. o = <<>> /\ w \o q = k
    BY <1>2, <2>1 DEF WireOf, Owed
  <2> DEFINE b == Owed(d)'
  <2> HIDE DEF w, q, k, o, t, m, e, b
  <2>9. k = w \o ((<<m>> \o b) \o t)
    BY <2>4, <2>6, <2>8 DEF b
  <2>a. <<m>> \in Seq(WireMessage) /\ b \in Seq(WireMessage)
    BY <2>3, <2>6 DEF b
  <2> DEFINE x == <<m>>
  <2>b. x \in Seq(WireMessage)
    BY <2>a
  <2> HIDE DEF x
  <2>c. b \o t \in Seq(WireMessage) /\ w \o x \in Seq(WireMessage)
    BY <1>2, <2>a, <2>b, <2>7, ConcatProperties
  <2>10. (x \o b) \o t = x \o (b \o t)
    BY <2>a, <2>b, <2>7, WireAssociative, Zenon DEF Associative
  <2>11. w \o (x \o (b \o t)) = (w \o x) \o (b \o t)
    <3> DEFINE y == b \o t
    <3>1. w \in Seq(WireMessage) /\ y \in Seq(WireMessage)
      BY <1>2, <2>c
    <3> HIDE DEF y
    <3>2. (w \o x) \o y = w \o (x \o y)
      BY <2>b, <3>1, WireAssociative, Zenon DEF Associative
    <3>3. QED
      BY <3>2 DEF y
  <2>12. (w \o x) \o (b \o t) = ((w \o x) \o b) \o t
    BY <2>a, <2>c, <2>7, WireAssociative, Zenon DEF Associative
  <2>13. ((w \o <<m>>) \o b) \o t = k
    BY <2>9, <2>10, <2>11, <2>12 DEF x
  <2>14. outbox'[d] = Tail(outbox[d]) /\ emitted'[d] = emitted[d]
    BY <1>6 DEF SendsHead
  <2>15. (Payload(wire'[d]) \o Owed(d)') \o QueuedAsSent(outbox'[d]) = EmittedAsSent(emitted'[d])
    BY <2>5, <2>13, <2>14 DEF b, k, t
  <2>16. QED
    BY <2>15 DEF WireOf
<1>7. CASE SendsRest(d)
  <2> DEFINE m == [type |-> "bytes", n |-> inHand[d]]
  <2>1. m \in WireMessage /\ Piece(m) = <<m>>
    BY <1>1 DEF WireMessage, Piece
  <2>2. o = <<m>> /\ Owed(d)' = <<>> /\ (w \o <<m>>) \o q = k
    BY <1>7 DEF SendsRest, Owed, WireOf
  <2>3. Payload(wire'[d]) = w \o <<m>> /\ w \o <<m>> \in Seq(WireMessage)
    <3>1. wire'[d] = Append(wire[d], m)
      BY <1>7 DEF SendsRest
    <3>2. <<m>> \in Seq(WireMessage)
      BY <2>1
    <3>3. Payload(Append(wire[d], m)) = w \o Piece(m)
      BY <1>1, <2>1, PayloadAppend, Zenon
    <3> HIDE DEF w, m
    <3>4. w \o <<m>> \in Seq(WireMessage)
      BY <1>2, <3>2, Regroup, Zenon
    <3>5. QED
      BY <2>1, <3>1, <3>3, <3>4
  <2>4. Payload(wire'[d]) \o Owed(d)' = w \o <<m>>
    BY <2>2, <2>3
  <2>5. QED
    BY <1>7, <2>2, <2>4 DEF SendsRest, WireOf
<1>8. CASE EndsSender(d)
  BY <1>8 DEF EndsSender, WireOf
<1>9. CASE Opens(d)
  <2>1. wire[d] = <<>> /\ outbox[d] = <<>> /\ emitted[d] = <<>>
    BY <1>9 DEF Opens, Unopened
  <2>2. wire'[d] = <<>> /\ outbox'[d] = <<>> /\ emitted'[d] = <<>> /\ sender'[d] = "waiting"
    BY <1>9, <2>1 DEF Opens
  <2>3. Payload(<<>>) = <<>> /\ QueuedAsSent(<<>>) = <<>> /\ EmittedAsSent(<<>>) = <<>>
    <3>1. \A f : DOMAIN f = {} /\ f = [i \in {} |-> f[i]] => f = <<>>
      OBVIOUS
    <3>2. QED
      BY FlattenEmpty DEF Payload, QueuedAsSent, EmittedAsSent
  <2>4. Owed(d)' = <<>> /\ (<<>> \o <<>>) \o <<>> = <<>>
    BY <2>2 DEF Owed
  <2>5. (Payload(wire'[d]) \o Owed(d)') \o QueuedAsSent(outbox'[d]) = EmittedAsSent(emitted'[d])
    BY <2>2, <2>3, <2>4
  <2>6. QED
    BY <2>5 DEF WireOf
<1>10. QED
  BY <1>3, <1>4, <1>5, <1>6, <1>7, <1>8, <1>9 DEF WireStep

(* A connection that is not accepted yet stays as it is. *)
LEMMA UnopenedKept ==
  ASSUME TypeOK, WireInv, [Next]_vars, NEW d \in Conns
  PROVE  Unopened(d)'
<1> SUFFICES ASSUME at'[d] = "new"
             PROVE  /\ sender'[d] = "none" /\ turn'[d] = "none"
                    /\ wire'[d] = <<>> /\ outbox'[d] = <<>> /\ emitted'[d] = <<>>
  BY DEF Unopened
<1> DEFINE Same == UNCHANGED <<sender[d], turn[d], wire[d], outbox[d], emitted[d]>>
<1> USE DEF TypeOK, WireTypes, OrchTypes
<1>1. at[d] = "new" /\ Same => /\ sender'[d] = "none" /\ turn'[d] = "none"
                               /\ wire'[d] = <<>> /\ outbox'[d] = <<>> /\ emitted'[d] = <<>>
  BY DEF WireInv, Unopened
<1>2. CASE UNCHANGED vars \/ ClockTicks \/ Midnight
  <2>1. UNCHANGED <<at, sessionVars, wireVars>>
    BY <1>2 DEF vars, ClockTicks, Midnight
  <2>2. QED
    BY <1>1, <2>1 DEF sessionVars, wireVars
<1>3. ASSUME NEW c \in Conns, Connect(c) PROVE at[d] = "new" /\ Same
  BY <1>3 DEF Connect, RefuseCode, RefuseRate, Accept, sessionVars, wireVars
<1>4. ASSUME NEW c \in Conns, SenderStep(c) PROVE at[d] = "new" /\ Same
  <2>1. at[d] = "new" /\ sender[c] # "none"
    BY <1>4 DEF SenderStep, SendsEvent, SendsBytes, SenderFails
  <2>2. c # d
    BY <2>1 DEF WireInv, Unopened
  <2>3. QED
    BY <1>4, <2>1, <2>2 DEF SenderStep, SendsEvent, SendsBytes, SenderFails, Send, sessionVars
<1>5. ASSUME NEW c \in Conns, ReceiveStep(c) PROVE at[d] = "new" /\ Same
  <2>1. at[c] = "receiving"
    BY <1>5 DEF ReceiveStep, SpeechStart, SpeechEndOverCeiling, SpeechEndOverCap, SpeechEnd,
       BadMessage, Receives
  <2>2. c # d
    BY <1>5, <2>1 DEF ReceiveStep, SpeechStart, SpeechEndOverCeiling, SpeechEndOverCap,
       SpeechEnd, BadMessage, Refuse
  <2>3. CASE SpeechStart(c)
    BY <2>2, <2>3 DEF SpeechStart, Emit, wireVars
  <2>4. CASE SpeechEndOverCeiling(c) \/ SpeechEndOverCap(c)
    BY <2>2, <2>4 DEF SpeechEndOverCeiling, SpeechEndOverCap, Refuse, Send, sessionVars
  <2>5. CASE SpeechEnd(c) \/ BadMessage(c)
    BY <2>2, <2>5 DEF SpeechEnd, BadMessage, sessionVars, wireVars
  <2>6. QED
    BY <1>5, <2>3, <2>4, <2>5 DEF ReceiveStep
<1>6. ASSUME NEW c \in Conns, SttStep(c) PROVE at[d] = "new" /\ Same
  <2>1. at[c] = "stt" /\ at'[c] # "new"
    BY <1>6 DEF SttStep, SttHearsSpeech, SttHearsNothing, SttRaises
  <2>2. c # d
    BY <2>1
  <2>3. QED
    BY <1>6, <2>2 DEF SttStep, SttHearsSpeech, SttHearsNothing, SttRaises, Emit, sessionOnly,
       sessionVars, wireVars
<1>7. ASSUME NEW c \in Conns, TurnStep(c) PROVE at[d] = "new" /\ Same
  <2>1. turn[c] = "running" /\ at' = at
    BY <1>7 DEF TurnStep, TurnYields, TurnCompletes, TurnFails
  <2>2. c # d
    BY <2>1 DEF WireInv, Unopened
  <2>3. QED
    BY <1>7, <2>1, <2>2 DEF TurnStep, TurnYields, TurnCompletes, TurnFails, Emit, sessionOnly,
       sessionVars, wireVars
<1>8. ASSUME NEW c \in Conns,
             ReceiveDisconnect(c) \/ Leave(c) \/ CloseSession(c) \/ ClientVanishes(c)
      PROVE  at[d] = "new" /\ Same
  <2>1. CASE ReceiveDisconnect(c) \/ ClientVanishes(c)
    BY <2>1 DEF ReceiveDisconnect, ClientVanishes, sessionVars, wireVars
  <2>2. CASE Leave(c)
    BY <2>2 DEF Leave, sessionVars
  <2>3. CASE CloseSession(c)
    BY <2>3 DEF CloseSession, Emit, sessionOnly, wireVars
  <2>4. QED
    BY <1>8, <2>1, <2>2, <2>3
<1>9. QED
  BY <1>1, <1>2, <1>3, <1>4, <1>5, <1>6, <1>7, <1>8 DEF Next

LEMMA WireInvInit == Init => WireInv
  BY DEF Init, WireInv, WireOf, Unopened

LEMMA WireInvNext == TypeOK /\ WireInv /\ [Next]_vars => WireInv'
<1> SUFFICES ASSUME TypeOK, WireInv, [Next]_vars, NEW d \in Conns
             PROVE  WireOf(d)' /\ Unopened(d)'
  BY DEF WireInv
<1>1. WireOf(d)'
  BY OnlyWireSteps, WireKept DEF WireInv
<1>2. QED
  BY <1>1, UnopenedKept

(* Nothing an orchestrator emits is lost, doubled or put out of order on   *)
(* its way to a client whose sender lives, however many error messages go  *)
(* between (main.py, sender).                                              *)
THEOREM TheWireIsFaithful == Spec => []NothingLostOnTheWay
<1>1. WireInv => NothingLostOnTheWay
  BY DEF WireInv, WireOf, NothingLostOnTheWay
<1>2. QED
  BY TypeCorrect, WireInvInit, WireInvNext, <1>1, PTL DEF Spec

=============================================================================
