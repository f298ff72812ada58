-------------------------- MODULE VoiceClientProofs --------------------------
(***************************************************************************)
(* Proofs about the browser client, for any number of sessions, frames and *)
(* messages: its microphone and socket stay with the button that started   *)
(* them, what plays is current, and the server hears framed utterances     *)
(* that end in time.                                                       *)
(***************************************************************************)
EXTENDS VoiceClient, DataLemmas, TLAPS

-----------------------------------------------------------------------------
(* The inductive invariant. *)

Stages  == {"uncalled", "resuming", "asking", "loading", "done", "failed"}
Sockets == {"none", "connecting", "open", "closing", "closed"}
Mics    == {"off", "granted", "live", "stopped"}

Types ==
  /\ enabled \in BOOLEAN /\ resumed \in BOOLEAN /\ label \in {"Connect", "Disconnect"}
  /\ transport \in Sessions \cup {0} /\ capture \in Sessions \cup {0}
  /\ stage \in [Sessions -> Stages]
  /\ socket \in [Sessions -> Sockets]
  /\ mic \in [Sessions -> Mics]
  /\ orphans \in SUBSET Sessions

(* What connect() has created goes with how far it has come. *)
Progress ==
  \A s \in Sessions :
    /\ stage[s] \in {"uncalled", "resuming"} =>
         socket[s] = "none" /\ s \notin orphans /\ s # transport
    /\ stage[s] \in {"uncalled", "resuming", "asking"} => mic[s] = "off"
    /\ stage[s] = "loading" => mic[s] = "granted"
    /\ mic[s] \in {"live", "stopped"} => stage[s] = "done"
    /\ mic[s] = "granted" => stage[s] = "loading" \/ (stage[s] = "failed" /\ s \in orphans)

(* The one wait of connect() before there is a transport is the first      *)
(* call's, and nothing can be clicked meanwhile.                           *)
FirstCall ==
  /\ \A s \in Sessions : stage[s] = "resuming" =>
       /\ ~resumed /\ ~enabled
       /\ \A r \in Sessions : r # s => stage[r] = "uncalled"
  /\ ~resumed => transport = 0 /\ \A s \in Sessions : stage[s] \in {"uncalled", "resuming"}

(* A startCapture that is pending belongs to the transport, or its session *)
(* was disconnected.                                                       *)
Owned ==
  /\ \A s \in Sessions : socket[s] \in {"connecting", "open"} => s = transport
  /\ \A s \in Pending : s = transport \/ s \in orphans
  /\ capture # 0 => mic[capture] = "live"
  /\ orphans = {} =>
       /\ \A s \in On : s \in Pending \/ s = capture
       /\ capture # 0 => capture = transport
       /\ label = "Disconnect" => capture # 0

(* The microphones that are on without being the capture are paid for by   *)
(* orphans.  An orphan whose capture came (Arrived) can have displaced one *)
(* microphone; while it is the capture and the next session's capture is   *)
(* still to come, it will.                                                 *)
Arrived   == {s \in orphans : stage[s] = "done"}
Displaced == {s \in Sessions : mic[s] = "live" /\ s # capture}
Awaiting  == transport = 0 \/ stage[transport] \in {"asking", "loading"}

Paid ==
  /\ Cardinality(Displaced) <= Cardinality(Arrived)
  /\ capture # 0 /\ Awaiting => Cardinality(Displaced) + 1 <= Cardinality(Arrived)

Inv == Types /\ Progress /\ FirstCall /\ Owned /\ Paid

(* What the rest of the state cannot disturb. *)
ownershipVars == <<buttonVars, transport, capture, stage, socket, mic, orphans>>

-----------------------------------------------------------------------------
(* Counting. *)

LEMMA Countable ==
  ASSUME NEW S \in SUBSET Sessions
  PROVE  IsFiniteSet(S) /\ Cardinality(S) \in Nat
<1>1. IsFiniteSet(Sessions)
  BY FS_Interval, ClientAssumption DEF Sessions, ClientAssumption
<1>2. IsFiniteSet(S)
  BY <1>1, FS_Subset
<1>3. QED
  BY <1>2, FS_CardinalityType

LEMMA NobodyIsZero == 0 \notin Sessions
BY ClientAssumption DEF Sessions, ClientAssumption

(* Paid looks only at Displaced, Arrived, capture and Awaiting. *)
LEMMA StillPaid ==
  ASSUME Paid, Displaced' = Displaced, Arrived' = Arrived,
         capture' # 0 /\ Awaiting' => capture # 0 /\ Awaiting
  PROVE  Paid'
BY DEF Paid

-----------------------------------------------------------------------------
(* Every step preserves the invariant. *)

LEMMA InvInit == Init => Inv
<1> SUFFICES ASSUME Init PROVE Inv
  OBVIOUS
<1>1. Types
  BY DEF Init, Types, Stages, Sockets, Mics
<1>2. Progress /\ FirstCall
  BY NobodyIsZero DEF Init, Progress, FirstCall
<1>3. Owned
  BY DEF Init, Owned, On, Pending
<1>4. Paid
  <2>1. Displaced = {} /\ Arrived = {}
    BY DEF Init, Displaced, Arrived
  <2>2. QED
    BY <2>1, FS_EmptySet DEF Init, Paid
<1>5. QED
  BY <1>1, <1>2, <1>3, <1>4 DEF Inv

LEMMA OpenSessionTypes ==
  ASSUME Types, NEW s \in Sessions, OpenSession(s)
  PROVE  stage' \in [Sessions -> Stages] /\ socket' \in [Sessions -> Sockets]
         /\ transport' \in Sessions \cup {0}
BY DEF Types, OpenSession, Stages, Sockets

LEMMA ConnectKeeps ==
  ASSUME Inv, NEW s \in Sessions, Connect(s)
  PROVE  Inv'
<1> USE NobodyIsZero DEF Inv
<1>1. CASE resumed
  <2>1. OpenSession(s)
    BY <1>1 DEF Connect
  <2>2. Types'
    BY <2>1, OpenSessionTypes DEF Connect, Types
  <2>3. Progress'
    BY <2>1 DEF Connect, OpenSession, Types, Progress
  <2>4. FirstCall'
    BY <1>1, <2>1 DEF Connect, OpenSession, Types, FirstCall
  <2>5. Owned'
    BY <2>1 DEF Connect, OpenSession, Types, Owned, Pending, On
  <2>6. Displaced' = Displaced /\ Arrived' = Arrived
    BY <2>1 DEF Connect, OpenSession, Types, Displaced, Arrived
  <2>7. Paid'
    BY <2>6, StillPaid DEF Connect, Awaiting
  <2>8. QED
    BY <2>2, <2>3, <2>4, <2>5, <2>7
<1>2. CASE ~resumed
  <2>1. stage' = [stage EXCEPT ![s] = "resuming"] /\ UNCHANGED <<transport, socket>>
    BY <1>2 DEF Connect
  <2>2. Types'
    BY <2>1 DEF Connect, Types, Stages
  <2>3. Progress'
    BY <2>1 DEF Connect, Types, Progress
  <2>4. FirstCall'
    BY <1>2, <2>1 DEF Connect, Types, FirstCall
  <2>5. Owned'
    BY <2>1 DEF Connect, Types, Owned, Pending, On
  <2>6. Displaced' = Displaced /\ Arrived' = Arrived
    BY <2>1 DEF Connect, Types, Displaced, Arrived
  <2>7. Paid'
    BY <2>6, StillPaid DEF Connect, Awaiting
  <2>8. QED
    BY <2>2, <2>3, <2>4, <2>5, <2>7
<1>3. QED
  BY <1>1, <1>2

LEMMA ResumeKeeps ==
  ASSUME Inv, NEW s \in Sessions, Resume(s)
  PROVE  Inv'
<1> USE NobodyIsZero DEF Inv
<1>1. OpenSession(s)
  BY DEF Resume
<1>2. Types'
  BY <1>1, OpenSessionTypes DEF Resume, Types
<1>3. transport = 0 /\ \A r \in Sessions : r # s => stage[r] = "uncalled"
  BY DEF Resume, FirstCall
<1>4. Progress'
  BY <1>1 DEF Resume, OpenSession, Types, Progress
<1>5. FirstCall'
  BY <1>1, <1>3 DEF Resume, OpenSession, Types, FirstCall
<1>6. Owned'
  BY <1>1, <1>3 DEF Resume, OpenSession, Types, Owned, Pending, On
<1>7. Displaced' = Displaced /\ Arrived' = Arrived
  BY <1>1 DEF Resume, OpenSession, Types, Displaced, Arrived
<1>8. Paid'
  BY <1>3, <1>7, StillPaid DEF Resume, Awaiting
<1>9. QED
  BY <1>2, <1>4, <1>5, <1>6, <1>8

LEMMA DisconnectKeeps ==
  ASSUME Inv, Disconnect
  PROVE  Inv'
<1> USE NobodyIsZero DEF Inv
<1>1. transport \in Sessions
  BY DEF Disconnect, Types
<1>2. Types'
  BY <1>1 DEF Disconnect, Types, Closing, Sockets, Mics, Pending
<1>3. capture # 0 => capture \in Sessions /\ mic[capture] = "live" /\ stage[capture] = "done"
  BY DEF Types, Owned, Progress
<1>4. \A r \in Sessions : mic'[r] = IF r = capture THEN "stopped" ELSE mic[r]
  BY <1>3 DEF Disconnect, Types
<1>5. \A r \in Sessions : r # transport => socket'[r] = socket[r]
  BY DEF Disconnect, Types
<1>6. socket'[transport] \in {"closing", "closed"}
  BY <1>1 DEF Disconnect, Types, Closing
<1>7. Progress'
  BY <1>3, <1>4, <1>5 DEF Disconnect, Progress, Pending
<1>8. FirstCall'
  BY <1>1 DEF Disconnect, FirstCall
<1>9. Owned'
  BY <1>3, <1>4, <1>5, <1>6 DEF Disconnect, Owned, Pending, On
<1>10. Displaced' = Displaced
  BY <1>4 DEF Disconnect, Displaced
<1>11. Arrived' = Arrived
  BY DEF Disconnect, Arrived, Pending
<1>12. Paid'
  BY <1>10, <1>11, StillPaid DEF Disconnect
<1>13. QED
  BY <1>2, <1>7, <1>8, <1>9, <1>12

LEMMA GrantKeeps ==
  ASSUME Inv, NEW s \in Sessions, Grant(s)
  PROVE  Inv'
<1> USE DEF Inv
<1>1. Types'
  BY DEF Grant, buttonVars, Types, Stages, Mics
<1>2. Progress'
  BY DEF Grant, Types, Progress
<1>3. FirstCall'
  BY DEF Grant, buttonVars, Types, FirstCall
<1>4. Owned'
  BY DEF Grant, buttonVars, Types, Progress, Owned, Pending, On
<1>5. Displaced' = Displaced /\ Arrived' = Arrived
  BY DEF Grant, Types, Progress, Displaced, Arrived
<1>6. Awaiting' => Awaiting
  BY DEF Grant, Types, Awaiting
<1>7. Paid'
  BY <1>5, <1>6, StillPaid DEF Grant
<1>8. QED
  BY <1>1, <1>2, <1>3, <1>4, <1>7

(* The one step that displaces: the capture in use, if there is one.  If   *)
(* the new capture is an orphan's it has arrived; if it is the             *)
(* transport's, that was awaited and is paid for.                          *)
LEMMA CapturedPays ==
  ASSUME Inv, NEW s \in Sessions, Captured(s)
  PROVE  Paid'
<1> USE NobodyIsZero DEF Inv
<1>1. stage[s] = "loading" /\ mic[s] = "granted" /\ capture # s
  BY DEF Captured, Progress, Owned
<1>2. \A r \in Sessions : /\ r # s => mic'[r] = mic[r] /\ stage'[r] = stage[r]
                          /\ mic'[s] = "live" /\ stage'[s] = "done"
  BY DEF Captured, Types
<1>3. Displaced' = IF capture = 0 THEN Displaced ELSE Displaced \cup {capture}
  <2>1. capture # 0 => capture \in Sessions /\ mic[capture] = "live"
    BY DEF Types, Owned
  <2>2. QED
    BY <1>1, <1>2, <2>1 DEF Captured, Displaced
<1>4. Arrived' = IF s \in orphans THEN Arrived \cup {s} ELSE Arrived
  <2>1. orphans \subseteq Sessions /\ orphans' = orphans
    BY DEF Captured, Types
  <2>2. QED
    BY <1>1, <1>2, <2>1 DEF Arrived
<1>5. /\ IsFiniteSet(Displaced) /\ Cardinality(Displaced) \in Nat
      /\ IsFiniteSet(Arrived) /\ Cardinality(Arrived) \in Nat
  <2>1. Displaced \in SUBSET Sessions /\ Arrived \in SUBSET Sessions
    BY DEF Displaced, Arrived, Types
  <2>2. QED
    BY <2>1, Countable
<1>6. capture \notin Displaced /\ s \notin Arrived
  BY <1>1 DEF Displaced, Arrived
<1>7. Cardinality(Displaced') = IF capture = 0 THEN Cardinality(Displaced)
                                ELSE Cardinality(Displaced) + 1
  BY <1>3, <1>5, <1>6, FS_AddElement
<1>8. Cardinality(Arrived') = IF s \in orphans THEN Cardinality(Arrived) + 1
                              ELSE Cardinality(Arrived)
  BY <1>4, <1>5, <1>6, FS_AddElement
<1>9. Awaiting' => Awaiting /\ transport # s
  BY <1>2 DEF Captured, Awaiting, Types
<1>10. s = transport => Awaiting
  BY <1>1 DEF Awaiting
<1>11. s = transport \/ s \in orphans
  BY <1>1 DEF Owned, Pending
<1>12. Cardinality(Displaced') <= Cardinality(Arrived')
  BY <1>5, <1>7, <1>8, <1>10, <1>11 DEF Paid
<1>13. Awaiting' => Cardinality(Displaced') + 1 <= Cardinality(Arrived')
  BY <1>5, <1>7, <1>8, <1>9, <1>11 DEF Paid
<1>14. QED
  BY <1>12, <1>13 DEF Paid

LEMMA CapturedKeeps ==
  ASSUME Inv, NEW s \in Sessions, Captured(s)
  PROVE  Inv'
<1> USE NobodyIsZero DEF Inv
<1>1. Types'
  BY DEF Captured, Types, Stages, Mics
<1>2. Progress'
  BY DEF Captured, Types, Progress
<1>3. FirstCall'
  BY DEF Captured, Types, FirstCall
<1>4. Owned'
  BY DEF Captured, Types, Progress, Owned, Pending, On
<1>5. QED
  BY <1>1, <1>2, <1>3, <1>4, CapturedPays

LEMMA RefuseKeeps ==
  ASSUME Inv, NEW s \in Sessions, Refuse(s)
  PROVE  Inv'
<1> USE DEF Inv
<1>1. Types'
  BY DEF Refuse, Types, Stages
<1>2. Progress'
  BY DEF Refuse, Types, Progress
<1>3. FirstCall'
  BY DEF Refuse, Types, FirstCall
<1>4. Owned'
  BY DEF Refuse, Types, Progress, Owned, Pending, On, Mics
<1>5. Displaced' = Displaced /\ Arrived' = Arrived
  BY DEF Refuse, Types, Displaced, Arrived
<1>6. Awaiting' => Awaiting
  BY DEF Refuse, Types, Awaiting
<1>7. Paid'
  BY <1>5, <1>6, StillPaid DEF Refuse
<1>8. QED
  BY <1>1, <1>2, <1>3, <1>4, <1>7

LEMMA OpenKeeps ==
  ASSUME Inv, NEW s \in Sessions, Open(s)
  PROVE  Inv'
<1> USE DEF Inv
<1>1. Types'
  BY DEF Open, buttonVars, Types, Sockets
<1>2. Progress' /\ FirstCall'
  BY DEF Open, buttonVars, Types, Progress, FirstCall
<1>3. Owned'
  BY DEF Open, buttonVars, Types, Owned, Pending, On
<1>4. Paid'
  BY StillPaid DEF Open, Displaced, Arrived, Awaiting
<1>5. QED
  BY <1>1, <1>2, <1>3, <1>4

LEMMA ClosedKeeps ==
  ASSUME Inv, NEW s \in Sessions, Closed(s)
  PROVE  Inv'
<1> USE DEF Inv
<1>1. Types'
  BY DEF Closed, Types, Sockets
<1>2. Progress'
  BY DEF Closed, Types, Progress
<1>3. FirstCall'
  BY DEF Closed, Progress, FirstCall
<1>4. Owned'
  BY DEF Closed, Types, Owned, Pending, On
<1>5. Paid'
  BY StillPaid DEF Closed, Displaced, Arrived, Awaiting
<1>6. QED
  BY <1>1, <1>2, <1>3, <1>4, <1>5

LEMMA OthersKeep ==
  ASSUME Inv, UNCHANGED ownershipVars
  PROVE  Inv'
<1> USE DEF Inv, ownershipVars, buttonVars
<1>1. Types' /\ Progress' /\ FirstCall'
  BY DEF Types, Progress, FirstCall
<1>2. Owned'
  BY DEF Owned, Pending, On
<1>3. Paid'
  BY StillPaid DEF Displaced, Arrived, Awaiting
<1>4. QED
  BY <1>1, <1>2, <1>3

LEMMA InvNext == Inv /\ [Next]_vars => Inv'
<1> SUFFICES ASSUME Inv, [Next]_vars PROVE Inv'
  OBVIOUS
<1>1. CASE Disconnect
  BY <1>1, DisconnectKeeps
<1>2. CASE SourceEnded
  BY <1>2, OthersKeep DEF SourceEnded, ownershipVars
<1>3. ASSUME NEW s \in Sessions, Connect(s) PROVE Inv'
  BY <1>3, ConnectKeeps
<1>4. ASSUME NEW s \in Sessions, Resume(s) PROVE Inv'
  BY <1>4, ResumeKeeps
<1>5. ASSUME NEW s \in Sessions, Grant(s) PROVE Inv'
  BY <1>5, GrantKeeps
<1>6. ASSUME NEW s \in Sessions, Captured(s) PROVE Inv'
  BY <1>6, CapturedKeeps
<1>7. ASSUME NEW s \in Sessions, Refuse(s) PROVE Inv'
  BY <1>7, RefuseKeeps
<1>8. ASSUME NEW s \in Sessions, NEW frame \in {"loud", "quiet"}, Frame(s, frame)
      PROVE  Inv'
  BY <1>8, OthersKeep DEF Frame, ownershipVars
<1>9. ASSUME NEW s \in Sessions, Open(s) PROVE Inv'
  BY <1>9, OpenKeeps
<1>10. ASSUME NEW s \in Sessions, Closed(s) PROVE Inv'
  BY <1>10, ClosedKeeps
<1>11. ASSUME NEW s \in Sessions, HandleMessage(s) PROVE Inv'
  BY <1>11, OthersKeep DEF HandleMessage, ownershipVars
<1>12. ASSUME NEW s \in Sessions, ServerReads(s) \/ ServerSpeaks(s) PROVE Inv'
  BY <1>12, OthersKeep DEF ServerReads, ServerSpeaks, ownershipVars
<1>13. CASE UNCHANGED vars
  BY <1>13, OthersKeep DEF vars, ownershipVars
<1>14. QED
  BY <1>1, <1>2, <1>3, <1>4, <1>5, <1>6, <1>7, <1>8, <1>9, <1>10, <1>11, <1>12, <1>13 DEF Next

-----------------------------------------------------------------------------
(* What follows. *)

(* A microphone that is on without being live is being set up for the      *)
(* transport, or is an orphan that has not arrived.                        *)
LEMMA MicrophonesAreCounted ==
  ASSUME Inv
  PROVE  Cardinality(On) <= Cardinality(orphans) + 1
<1> USE NobodyIsZero DEF Inv
<1> DEFINE Granted == {s \in Sessions : mic[s] = "granted"}
           Live    == {s \in Sessions : mic[s] = "live"}
           Coming  == orphans \ Arrived
<1>1. /\ Granted \in SUBSET Sessions /\ Live \in SUBSET Sessions /\ Coming \in SUBSET Sessions
      /\ Arrived \in SUBSET Sessions /\ Displaced \in SUBSET Sessions
      /\ orphans \in SUBSET Sessions
  BY DEF Types, Arrived, Displaced
<1>2. /\ IsFiniteSet(Granted) /\ Cardinality(Granted) \in Nat
      /\ IsFiniteSet(Live) /\ Cardinality(Live) \in Nat
      /\ IsFiniteSet(Coming) /\ Cardinality(Coming) \in Nat
      /\ IsFiniteSet(Arrived) /\ Cardinality(Arrived) \in Nat
      /\ IsFiniteSet(Displaced) /\ Cardinality(Displaced) \in Nat
      /\ IsFiniteSet(orphans) /\ Cardinality(orphans) \in Nat
  BY <1>1, Countable
<1> HIDE DEF Granted, Live, Coming
<1>3. Cardinality(On) <= Cardinality(Granted) + Cardinality(Live)
  <2>1. On = Granted \cup Live
    BY DEF On, Granted, Live
  <2>2. Cardinality(Granted \cap Live) \in Nat
    BY <1>2, FS_Intersection, FS_CardinalityType
  <2>3. Cardinality(On) = Cardinality(Granted) + Cardinality(Live)
                            - Cardinality(Granted \cap Live)
    BY <1>2, <2>1, FS_Union
  <2>4. QED
    BY <1>2, <2>2, <2>3
<1>4. Cardinality(Coming) = Cardinality(orphans) - Cardinality(Arrived)
  <2>1. orphans \cap Arrived = Arrived
    BY DEF Arrived
  <2>2. QED
    BY <1>2, <2>1, FS_Difference DEF Coming
<1>5. Cardinality(Live) <= IF capture = 0 THEN Cardinality(Displaced)
                           ELSE Cardinality(Displaced) + 1
  <2>1. Live = IF capture = 0 THEN Displaced ELSE Displaced \cup {capture}
    BY DEF Displaced, Owned, Types, Live
  <2>2. capture \notin Displaced
    BY DEF Displaced
  <2>3. Cardinality(Displaced \cup {capture}) = Cardinality(Displaced) + 1
    BY <1>2, <2>2, FS_AddElement
  <2>4. QED
    BY <1>2, <2>1, <2>3
<1>6. \A s \in Granted : s \in Coming \/ (s = transport /\ stage[s] = "loading")
  BY DEF Progress, Owned, Pending, Arrived, Granted, Coming
<1>7. Cardinality(On) \in Nat
  BY <1>1, Countable DEF On
<1>8. CASE Granted \subseteq Coming
  <2>1. Cardinality(Granted) <= Cardinality(Coming)
    BY <1>2, <1>8, FS_Subset
  <2>2. QED
    BY <1>2, <1>3, <1>4, <1>5, <1>7, <2>1 DEF Paid
<1>9. CASE ~(Granted \subseteq Coming)
  <2>1. Awaiting
    BY <1>6, <1>9 DEF Awaiting
  <2>2. Granted \subseteq Coming \cup {transport}
    BY <1>6
  <2>3. IsFiniteSet(Coming \cup {transport})
    BY <1>2, FS_AddElement
  <2>4. \/ Cardinality(Coming \cup {transport}) = Cardinality(Coming) + 1
        \/ Cardinality(Coming \cup {transport}) = Cardinality(Coming)
    BY <1>2, FS_AddElement
  <2>5. Cardinality(Granted) <= Cardinality(Coming \cup {transport})
    BY <2>2, <2>3, FS_Subset
  <2>6. Cardinality(Live) <= Cardinality(Arrived)
    BY <1>2, <1>5, <2>1 DEF Paid
  <2>7. QED
    BY <1>2, <1>3, <1>4, <1>7, <2>4, <2>5, <2>6
<1>10. QED
  BY <1>8, <1>9

(* The microphone and the socket of a session stay within reach of the     *)
(* button, whatever is clicked, granted, refused and closed, and in        *)
(* whatever order: connect() and disconnect() of main.ts with its two      *)
(* awaits.                                                                 *)
THEOREM Ownership == Spec => []MicrophoneOwned
<1>1. Inv => MicrophoneOwned
  <2> SUFFICES ASSUME Inv PROVE MicrophoneOwned
    OBVIOUS
  <2>1. orphans = {} =>
          /\ \A s \in On : s = transport /\ (s \in Pending \/ s = capture)
          /\ capture # 0 => capture = transport /\ mic[capture] = "live"
          /\ label = "Disconnect" => capture # 0
    BY NobodyIsZero DEF Inv, Owned, On
  <2>2. \A s \in Sessions : socket[s] \in {"connecting", "open"} => s = transport
    BY DEF Inv, Owned
  <2>3. QED
    BY <2>1, <2>2, MicrophonesAreCounted DEF MicrophoneOwned
<1>2. QED
  BY InvInit, InvNext, <1>1, PTL DEF Spec

-----------------------------------------------------------------------------
(* What is on its way. *)

Vads     == [speaking : BOOLEAN, silenceMs : Nat, speechMs : Nat]
Messages == [type : {"assistant_text", "bytes", "turn_interrupted", "error"}, clause : Nat]
Servers  == [read : Nat, turn : BOOLEAN, clauses : Nat, half : BOOLEAN, ended : BOOLEAN]
Sources  == [session : Sessions, text : Nat, audio : Nat, starts : Nat]
Controls == {"start", "end"}
Levels   == {"loud", "quiet"}

DataTypes ==
  /\ vad \in [Sessions -> Vads]
  /\ pendingMeta \in [Sessions -> Nat]
  /\ sources \in Seq(Sources)
  /\ up \in [Sessions -> Seq(Controls \cup Levels)]
  /\ down \in [Sessions -> Seq(Messages)]
  /\ server \in [Sessions -> Servers]

LEMMA DataInit == Init => DataTypes
<1> SUFFICES ASSUME Init PROVE DataTypes
  OBVIOUS
<1>1. Quiet \in Vads
  BY DEF Quiet, Vads
<1>2. [read |-> 0, turn |-> FALSE, clauses |-> 0, half |-> FALSE, ended |-> FALSE] \in Servers
  BY DEF Servers
<1>3. QED
  BY <1>1, <1>2 DEF Init, DataTypes

LEMMA OnLevelTyped ==
  ASSUME NEW v \in Vads, NEW loud \in BOOLEAN
  PROVE  /\ OnLevel(v, loud).vad \in Vads
         /\ OnLevel(v, loud).call \in {"none", "start", "end"}
<1> DEFINE silenceMs == IF loud THEN 0 ELSE v.silenceMs + FrameMs
           speechMs  == v.speechMs + FrameMs
<1>1. silenceMs \in Nat /\ speechMs \in Nat
  BY ClientAssumption DEF ClientAssumption, Vads
<1>2. /\ [Quiet EXCEPT !.speaking = TRUE] \in Vads
      /\ [v EXCEPT !.speaking = FALSE, !.silenceMs = 0, !.speechMs = speechMs] \in Vads
      /\ [speaking |-> TRUE, silenceMs |-> silenceMs, speechMs |-> speechMs] \in Vads
  BY <1>1 DEF Quiet, Vads
<1>3. CASE ~v.speaking
  BY <1>2, <1>3 DEF OnLevel
<1>4. CASE v.speaking /\ (speechMs >= MaxSpeechMs \/ (~loud /\ silenceMs >= HangoverMs))
  BY <1>2, <1>4 DEF OnLevel
<1>5. CASE v.speaking /\ ~(speechMs >= MaxSpeechMs \/ (~loud /\ silenceMs >= HangoverMs))
  BY <1>2, <1>5 DEF OnLevel
<1>6. QED
  BY <1>3, <1>4, <1>5

(* What one frame makes the client send. *)
Sendings == {<<>>, <<"end">>, <<"loud">>, <<"quiet">>, <<"start", "loud">>}

LEMMA OnLevelSends ==
  ASSUME NEW v \in Vads, NEW frame \in Levels
  PROVE  LET after == OnLevel(v, frame = "loud")
             sent  == ToSend(v, after, frame)
         IN /\ after.call = "start"
                 => /\ ~v.speaking /\ after.vad.speaking /\ frame = "loud"
                    /\ after.vad.silenceMs = 0 /\ after.vad.speechMs = 0
                    /\ sent = <<"start", "loud">>
            /\ after.call = "end" => v.speaking /\ ~after.vad.speaking /\ sent = <<"end">>
            /\ after.call = "none" /\ v.speaking => after.vad.speaking /\ sent = <<frame>>
            /\ after.call = "none" /\ ~v.speaking => ~after.vad.speaking /\ sent = <<>>
<1> DEFINE loud == frame = "loud"
           silenceMs == IF loud THEN 0 ELSE v.silenceMs + FrameMs
           speechMs  == v.speechMs + FrameMs
<1>1. <<"start">> \o <<frame>> = <<"start", frame>>
  <2>1. "start" \in Controls \cup Levels /\ frame \in Controls \cup Levels
    BY DEF Controls, Levels
  <2>2. QED
    BY <2>1, Pair
<1>2. <<"end">> \o <<>> = <<"end">> /\ <<>> \o <<frame>> = <<frame>> /\ <<>> \o <<>> = <<>>
  OBVIOUS
<1>3. CASE ~v.speaking /\ loud
  BY <1>1, <1>3 DEF OnLevel, ToSend, Quiet
<1>4. CASE ~v.speaking /\ ~loud
  BY <1>2, <1>4 DEF OnLevel, ToSend
<1>5. CASE v.speaking /\ (speechMs >= MaxSpeechMs \/ (~loud /\ silenceMs >= HangoverMs))
  BY <1>2, <1>5 DEF OnLevel, ToSend, Vads
<1>6. CASE v.speaking /\ ~(speechMs >= MaxSpeechMs \/ (~loud /\ silenceMs >= HangoverMs))
  BY <1>2, <1>6 DEF OnLevel, ToSend
<1>7. QED
  BY <1>3, <1>4, <1>5, <1>6

dataVars == <<soundVars, serverVars>>

(* The sequence of a session, with one more at its end. *)
LEMMA EmitDataTyped ==
  ASSUME DataTypes, NEW s \in Sessions, NEW n \in Nat,
         NEW type \in {"assistant_text", "bytes", "turn_interrupted", "error"}, Emit(s, type, n)
  PROVE  down' \in [Sessions -> Seq(Messages)]
<1>1. [type |-> type, clause |-> n] \in Messages /\ down[s] \in Seq(Messages)
  BY DEF Messages, DataTypes
<1>2. Append(down[s], [type |-> type, clause |-> n]) \in Seq(Messages)
  BY <1>1
<1>3. QED
  BY <1>2 DEF Emit, DataTypes

LEMMA FrameTyped ==
  ASSUME Types, DataTypes, NEW s \in Sessions, NEW frame \in Levels, Frame(s, frame)
  PROVE  DataTypes'
<1> DEFINE after == OnLevel(vad[s], frame = "loud")
           sent  == ToSend(vad[s], after, frame)
<1>1. vad[s] \in Vads
  BY DEF DataTypes
<1>2. after.vad \in Vads /\ after.call \in {"none", "start", "end"}
  BY <1>1, OnLevelTyped
<1>3. sent \in Sendings
  BY <1>1, <1>2, OnLevelSends DEF Sendings, Levels
<1>4. \A u \in Seq(Controls \cup Levels), q \in Sendings : u \o q \in Seq(Controls \cup Levels)
  <2>1. Sendings \subseteq Seq(Controls \cup Levels)
    BY DEF Sendings, Controls, Levels
  <2>2. QED
    BY <2>1, ConcatProperties
<1> HIDE DEF after, sent
<1>5. vad' = [vad EXCEPT ![s] = after.vad] /\ sources' = PlayingAfter(after.call)
  BY DEF Frame, after
<1>6. up' = IF transport # 0 /\ socket[transport] = "open"
            THEN [up EXCEPT ![transport] = @ \o sent] ELSE up
  BY DEF Frame, after, sent
<1>7. vad' \in [Sessions -> Vads]
  BY <1>2, <1>5 DEF DataTypes
<1>8. sources' \in Seq(Sources)
  BY <1>5 DEF PlayingAfter, DataTypes
<1>9. up' \in [Sessions -> Seq(Controls \cup Levels)]
  <2>1. transport # 0 => transport \in Sessions
    BY DEF Types
  <2>2. transport # 0 => up[transport] \o sent \in Seq(Controls \cup Levels)
    BY <1>3, <1>4, <2>1 DEF DataTypes
  <2>3. QED
    BY <1>6, <2>1, <2>2 DEF DataTypes
<1>10. QED
  BY <1>7, <1>8, <1>9 DEF Frame, DataTypes

LEMMA CountOfUp ==
  ASSUME DataTypes, NEW s \in Sessions
  PROVE  Starts(s) \in Nat
<1>1. up[s] \in Seq(Controls \cup Levels)
  BY DEF DataTypes
<1>2. IsFiniteSet(1..Len(up[s])) /\ DOMAIN up[s] = 1..Len(up[s])
  BY <1>1, FS_Interval
<1>3. {i \in DOMAIN up[s] : up[s][i] = "start"} \in SUBSET (1..Len(up[s]))
  BY <1>2
<1>4. IsFiniteSet({i \in DOMAIN up[s] : up[s][i] = "start"})
  BY <1>2, <1>3, FS_Subset
<1>5. QED
  BY <1>4, FS_CardinalityType DEF Starts

LEMMA HandleTyped ==
  ASSUME DataTypes, NEW s \in Sessions, HandleMessage(s)
  PROVE  DataTypes'
<1> DEFINE m == Head(down[s])
           new == [session |-> s, text |-> pendingMeta[s], audio |-> m.clause,
                   starts |-> Starts(s)]
<1>1. down[s] \in Seq(Messages) /\ down[s] # <<>>
  BY DEF HandleMessage, DataTypes
<1>2. m \in Messages /\ Tail(down[s]) \in Seq(Messages)
  BY <1>1, HeadTailProperties
<1>3. down' \in [Sessions -> Seq(Messages)]
  BY <1>2 DEF HandleMessage, DataTypes
<1>4. m.clause \in Nat /\ pendingMeta[s] \in Nat /\ Starts(s) \in Nat
  BY <1>2, CountOfUp DEF Messages, DataTypes
<1>5. new \in Sources
  BY <1>4 DEF Sources
<1>6. Append(sources, new) \in Seq(Sources)
  BY <1>5 DEF DataTypes
<1>7. \/ pendingMeta' = pendingMeta
      \/ pendingMeta' = [pendingMeta EXCEPT ![s] = m.clause]
      \/ pendingMeta' = [pendingMeta EXCEPT ![s] = 0]
  BY DEF HandleMessage
<1>8. pendingMeta' \in [Sessions -> Nat]
  <2> HIDE DEF m
  <2>1. pendingMeta \in [Sessions -> Nat]
    BY DEF DataTypes
  <2>2. QED
    BY <1>4, <1>7, <2>1
<1>9. sources' = sources \/ sources' = Append(sources, new)
  BY DEF HandleMessage
<1>10. sources' \in Seq(Sources)
  BY <1>6, <1>9 DEF DataTypes
<1>11. QED
  BY <1>3, <1>8, <1>10 DEF HandleMessage, DataTypes

LEMMA ServerTyped ==
  ASSUME DataTypes, NEW s \in Sessions, ServerReads(s) \/ ServerSpeaks(s)
  PROVE  DataTypes'
<1>1. server[s] \in Servers
  BY DEF DataTypes
<1>2. /\ server[s].read + 1 \in Nat /\ server[s].clauses + 1 \in Nat /\ server[s].clauses \in Nat
  BY <1>1 DEF Servers
<1>3. server' \in [Sessions -> Servers]
  <2>1. CASE ServerReads(s)
    <3>1. \E r \in Servers : server' = [server EXCEPT ![s] = r]
      BY <1>1, <1>2, <2>1 DEF ServerReads, Servers
    <3>2. QED
      BY <3>1 DEF DataTypes
  <2>2. CASE ServerSpeaks(s)
    <3>1. \E r \in Servers : server' = [server EXCEPT ![s] = r]
      BY <1>1, <1>2, <2>2 DEF ServerSpeaks, Servers
    <3>2. QED
      BY <3>1 DEF DataTypes
  <2>3. QED
    BY <2>1, <2>2
<1>4. down' \in [Sessions -> Seq(Messages)]
  <2>1. \/ down' = down
        \/ \E type \in {"assistant_text", "bytes", "turn_interrupted", "error"}, n \in Nat :
             Emit(s, type, n)
    BY <1>2 DEF ServerReads, ServerSpeaks
  <2>2. QED
    BY <2>1, EmitDataTyped DEF DataTypes
<1>5. QED
  BY <1>3, <1>4 DEF ServerReads, ServerSpeaks, soundVars, DataTypes

LEMMA DataNext == Types /\ DataTypes /\ [Next]_vars => DataTypes'
<1> SUFFICES ASSUME Types, DataTypes, [Next]_vars PROVE DataTypes'
  OBVIOUS
<1>1. CASE UNCHANGED dataVars
  BY <1>1 DEF dataVars, soundVars, serverVars, DataTypes
<1>2. CASE Disconnect
  BY <1>2 DEF Disconnect, serverVars, DataTypes
<1>3. CASE SourceEnded
  BY <1>3 DEF SourceEnded, serverVars, DataTypes
<1>4. ASSUME NEW s \in Sessions,
             Connect(s) \/ Resume(s) \/ Grant(s) \/ Captured(s) \/ Refuse(s) \/ Open(s)
      PROVE  DataTypes'
  BY <1>1, <1>4 DEF Connect, Resume, Grant, Captured, Refuse, Open, dataVars
<1>5. ASSUME NEW s \in Sessions, Closed(s) PROVE DataTypes'
  <2>1. <<>> \in Seq(Messages)
    OBVIOUS
  <2>2. QED
    BY <1>5, <2>1 DEF Closed, soundVars, DataTypes
<1>6. CASE UNCHANGED vars
  BY <1>1, <1>6 DEF vars, dataVars
<1>7. QED
  BY <1>2, <1>3, <1>4, <1>5, <1>6, FrameTyped, HandleTyped, ServerTyped DEF Next, Levels

-----------------------------------------------------------------------------
(* The order of a session's clauses.  A clause's text has an odd place,    *)
(* its bytes the even one after it; server v has come to SentUpTo(v).  In  *)
(* what follows d is on its way to a client that keeps the text p.         *)

IsClause(m) == m.type \in {"assistant_text", "bytes"}
Place(m) == IF m.type = "bytes" THEN 2 * m.clause ELSE 2 * m.clause - 1
SentUpTo(v) == IF v.half THEN 2 * v.clauses - 1 ELSE 2 * v.clauses

(* The text of clause c is kept, or comes before place n of d. *)
TextBefore(d, p, c, n) ==
  \/ p = c
  \/ \E j \in DOMAIN d : j < n /\ d[j].type = "assistant_text" /\ d[j].clause = c

Increasing(d) ==
  \A i, j \in DOMAIN d :
    IsClause(d[i]) /\ IsClause(d[j]) /\ i < j => Place(d[i]) < Place(d[j])

Within(d, p, v) ==
  /\ p # 0 => 2 * p - 1 <= SentUpTo(v)
  /\ \A i \in DOMAIN d : IsClause(d[i]) =>
       /\ d[i].clause >= 1
       /\ Place(d[i]) <= SentUpTo(v)
       /\ p # 0 => 2 * p - 1 < Place(d[i])

Paired(d, p, v) ==
  /\ \A i \in DOMAIN d : d[i].type = "bytes" => TextBefore(d, p, d[i].clause, i)
  /\ v.half => v.clauses >= 1 /\ TextBefore(d, p, v.clauses, Len(d) + 1)

InOrder(d, p, v) == Increasing(d) /\ Within(d, p, v) /\ Paired(d, p, v)

(* What is scheduled comes before what is kept and what is on its way. *)
Ahead(q, d, p, v) ==
  \A i \in DOMAIN q :
    /\ 2 * q[i].audio <= SentUpTo(v)
    /\ p # 0 => 2 * q[i].audio < 2 * p - 1
    /\ \A j \in DOMAIN d : IsClause(d[j]) => 2 * q[i].audio < Place(d[j])

LEMMA NothingOnItsWay ==
  ASSUME NEW v \in Servers, ~v.half
  PROVE  InOrder(<<>>, 0, v)
BY DEF InOrder, Increasing, Within, Paired

(* Taking the head of d: text is kept, bytes use up the text that is kept, *)
(* the other messages leave it.                                            *)
Keeps(m, p) == CASE m.type = "assistant_text" -> m.clause
                 [] m.type = "bytes" -> 0
                 [] OTHER -> p

LEMMA BytesHaveTheirText ==
  ASSUME NEW d \in Seq(Messages), d # <<>>, NEW p \in Nat, NEW v \in Servers,
         InOrder(d, p, v), Head(d).type = "bytes"
  PROVE  p = Head(d).clause /\ p # 0
<1>1. 1 \in DOMAIN d /\ Head(d) = d[1] /\ \A j \in DOMAIN d : ~(j < 1)
  OBVIOUS
<1>2. TextBefore(d, p, d[1].clause, 1) /\ d[1].clause >= 1
  BY <1>1 DEF InOrder, Paired, Within, IsClause
<1>3. QED
  BY <1>1, <1>2 DEF TextBefore

LEMMA TakeKeepsOrder ==
  ASSUME NEW d \in Seq(Messages), d # <<>>, NEW p \in Nat, NEW v \in Servers,
         InOrder(d, p, v)
  PROVE  InOrder(Tail(d), Keeps(Head(d), p), v)
<1> DEFINE m == Head(d)
           t == Tail(d)
           k == Keeps(m, p)
<1>1. /\ DOMAIN d = 1..Len(d) /\ Len(d) \in Nat /\ Len(d) >= 1 /\ m = d[1]
      /\ DOMAIN t = 1..(Len(d) - 1) /\ Len(t) = Len(d) - 1
      /\ \A i \in 1..(Len(d) - 1) : t[i] = d[i + 1] /\ i + 1 \in 1..Len(d)
      /\ 1 \in 1..Len(d)
  OBVIOUS
<1>2. \A i \in DOMAIN d : d[i] \in Messages
  OBVIOUS
<1>3. m \in Messages /\ m.clause \in Nat /\ k \in Nat
  BY <1>1, <1>2 DEF Messages, Keeps
<1>4. SentUpTo(v) \in Int /\ v.clauses \in Nat
  BY DEF SentUpTo, Servers
<1>5. \A i \in DOMAIN d : Place(d[i]) \in Int /\ d[i].clause \in Nat
  BY <1>2 DEF Messages, Place
<1> HIDE DEF m, t, k
<1>6. Increasing(t)
  <2> SUFFICES ASSUME NEW i \in DOMAIN t, NEW j \in DOMAIN t, IsClause(t[i]), IsClause(t[j]),
                      i < j
               PROVE  Place(t[i]) < Place(t[j])
    BY DEF Increasing
  <2>1. /\ i + 1 \in DOMAIN d /\ j + 1 \in DOMAIN d /\ i + 1 < j + 1
        /\ t[i] = d[i + 1] /\ t[j] = d[j + 1]
    BY <1>1
  <2>2. QED
    BY <2>1 DEF InOrder, Increasing
<1>7. Within(t, k, v)
  <2>1. k # 0 => 2 * k - 1 <= SentUpTo(v)
    BY <1>1, <1>3, <1>4 DEF InOrder, Within, Keeps, k, IsClause, Place
  <2>2. ASSUME NEW i \in DOMAIN t, IsClause(t[i])
        PROVE  /\ t[i].clause >= 1 /\ Place(t[i]) <= SentUpTo(v)
               /\ k # 0 => 2 * k - 1 < Place(t[i])
    <3>1. i + 1 \in DOMAIN d /\ t[i] = d[i + 1] /\ IsClause(d[i + 1]) /\ 1 < i + 1 /\ 1 \in DOMAIN d
      BY <1>1, <2>2
    <3>2. /\ d[i + 1].clause >= 1 /\ Place(d[i + 1]) <= SentUpTo(v)
          /\ p # 0 => 2 * p - 1 < Place(d[i + 1])
      BY <3>1 DEF InOrder, Within
    <3>3. m.type = "assistant_text" => 2 * m.clause - 1 < Place(d[i + 1])
      BY <1>1, <3>1 DEF InOrder, Increasing, IsClause, Place
    <3>4. k # 0 => k = p \/ (m.type = "assistant_text" /\ k = m.clause)
      BY DEF k, Keeps
    <3>5. QED
      BY <3>1, <3>2, <3>3, <3>4
  <2>3. QED
    BY <2>1, <2>2 DEF Within
<1>8. ASSUME NEW c \in Nat, c >= 1, NEW n \in 2..(Len(d) + 1), TextBefore(d, p, c, n),
             \A j \in DOMAIN d : j < n /\ IsClause(d[j]) => Place(d[j]) < 2 * c
      PROVE  TextBefore(t, k, c, n - 1)
  <2>1. CASE p = c
    <3>1. m.type # "bytes"
      BY <1>1, <1>8, <2>1, BytesHaveTheirText DEF m, IsClause, Place
    <3>2. m.type # "assistant_text"
      <4> SUFFICES ASSUME m.type = "assistant_text" PROVE FALSE
        OBVIOUS
      <4>1. 2 * p - 1 < 2 * m.clause - 1
        BY <1>1, <1>8, <2>1 DEF InOrder, Within, IsClause, Place
      <4>2. 2 * m.clause - 1 < 2 * c
        BY <1>1, <1>8 DEF IsClause, Place
      <4>3. QED
        BY <1>3, <2>1, <4>1, <4>2
    <3>3. k = c
      BY <2>1, <3>1, <3>2 DEF k, Keeps
    <3>4. QED
      BY <3>3 DEF TextBefore
  <2>2. ASSUME NEW j \in DOMAIN d, j < n, d[j].type = "assistant_text", d[j].clause = c
        PROVE  TextBefore(t, k, c, n - 1)
    <3>1. CASE j = 1
      BY <1>1, <2>2, <3>1 DEF TextBefore, k, Keeps
    <3>2. CASE j # 1
      <4>1. j - 1 \in DOMAIN t /\ j - 1 < n - 1 /\ t[j - 1] = d[j]
        BY <1>1, <2>2, <3>2
      <4>2. QED
        BY <2>2, <4>1 DEF TextBefore
    <3>3. QED
      BY <3>1, <3>2
  <2>3. QED
    BY <1>8, <2>1, <2>2 DEF TextBefore
<1>9. Paired(t, k, v)
  <2>1. ASSUME NEW i \in DOMAIN t, t[i].type = "bytes"
        PROVE  TextBefore(t, k, t[i].clause, i)
    <3>1. i + 1 \in DOMAIN d /\ t[i] = d[i + 1] /\ i + 1 \in 2..(Len(d) + 1) /\ (i + 1) - 1 = i
      BY <1>1
    <3>2. IsClause(d[i + 1]) /\ d[i + 1].clause >= 1 /\ Place(d[i + 1]) = 2 * d[i + 1].clause
      BY <2>1, <3>1 DEF InOrder, Within, IsClause, Place
    <3>3. TextBefore(d, p, d[i + 1].clause, i + 1)
      BY <2>1, <3>1 DEF InOrder, Paired
    <3>4. \A j \in DOMAIN d : j < i + 1 /\ IsClause(d[j]) => Place(d[j]) < 2 * d[i + 1].clause
      BY <3>1, <3>2 DEF InOrder, Increasing
    <3>5. d[i + 1].clause \in Nat
      BY <1>5, <3>1
    <3>6. TextBefore(t, k, d[i + 1].clause, (i + 1) - 1)
      BY <1>8, <3>1, <3>2, <3>3, <3>4, <3>5
    <3>7. QED
      BY <3>1, <3>6
  <2>2. ASSUME v.half
        PROVE  v.clauses >= 1 /\ TextBefore(t, k, v.clauses, Len(t) + 1)
    <3>1. v.clauses >= 1 /\ TextBefore(d, p, v.clauses, Len(d) + 1)
      BY <2>2 DEF InOrder, Paired
    <3>2. \A j \in DOMAIN d : IsClause(d[j]) => Place(d[j]) < 2 * v.clauses
      BY <1>4, <1>5, <2>2 DEF InOrder, Within, SentUpTo
    <3>3. Len(d) + 1 \in 2..(Len(d) + 1) /\ (Len(d) + 1) - 1 = Len(t) + 1
      BY <1>1
    <3>4. TextBefore(t, k, v.clauses, (Len(d) + 1) - 1)
      BY <1>4, <1>8, <3>1, <3>2, <3>3
    <3>5. QED
      BY <3>1, <3>3, <3>4
  <2>3. QED
    BY <2>1, <2>2 DEF Paired
<1>10. QED
  BY <1>6, <1>7, <1>9 DEF InOrder, m, t, k

(* Nothing on its way is changed by what the server does besides sending.  *)
LEMMA OrderLooksAtClauses ==
  ASSUME NEW d, NEW p, NEW v \in Servers, NEW w \in Servers, InOrder(d, p, v),
         v.clauses = w.clauses, v.half = w.half
  PROVE  InOrder(d, p, w)
BY DEF InOrder, Within, Paired, SentUpTo

(* The server sends m: a message besides the clauses, the text of the next *)
(* clause, or the bytes of the clause whose text went before.              *)
Sends(m, v, w) ==
  \/ ~IsClause(m) /\ w.clauses = v.clauses /\ w.half = v.half
  \/ /\ m.type = "assistant_text" /\ m.clause = w.clauses
     /\ ~v.half /\ w.half /\ w.clauses = v.clauses + 1
  \/ /\ m.type = "bytes" /\ m.clause = v.clauses
     /\ v.half /\ ~w.half /\ w.clauses = v.clauses

LEMMA SendAdvances ==
  ASSUME NEW m \in Messages, NEW v \in Servers, NEW w \in Servers, Sends(m, v, w)
  PROVE  /\ SentUpTo(v) \in Int /\ SentUpTo(w) \in Int /\ SentUpTo(v) <= SentUpTo(w)
         /\ IsClause(m) => SentUpTo(v) < Place(m) /\ Place(m) <= SentUpTo(w)
BY DEF Sends, SentUpTo, Place, IsClause, Servers, Messages

LEMMA SendKeepsOrder ==
  ASSUME NEW d \in Seq(Messages), NEW p \in Nat, NEW v \in Servers, NEW w \in Servers,
         NEW m \in Messages, InOrder(d, p, v), Sends(m, v, w)
  PROVE  InOrder(Append(d, m), p, w)
<1> DEFINE t == Append(d, m)
           n == Len(d) + 1
<1>1. /\ DOMAIN d = 1..Len(d) /\ Len(d) \in Nat /\ DOMAIN t = 1..n /\ Len(t) = n
      /\ \A i \in 1..Len(d) : t[i] = d[i] /\ i \in 1..n
      /\ t[n] = m /\ n \in 1..n
      /\ \A i \in 1..n : i \in 1..Len(d) \/ i = n
      /\ \A i \in 1..Len(d) : i < n
  OBVIOUS
<1>2. /\ SentUpTo(v) \in Int /\ SentUpTo(w) \in Int /\ SentUpTo(v) <= SentUpTo(w)
      /\ IsClause(m) => SentUpTo(v) < Place(m) /\ Place(m) <= SentUpTo(w)
  BY SendAdvances
<1>3. \A i \in DOMAIN d : Place(d[i]) \in Int /\ d[i].clause \in Nat
  <2>1. \A i \in DOMAIN d : d[i] \in Messages
    OBVIOUS
  <2>2. QED
    BY <2>1 DEF Messages, Place
<1>4. Place(m) \in Int /\ m.clause \in Nat /\ v.clauses \in Nat /\ w.clauses \in Nat
  BY DEF Messages, Place, Servers
<1>5. \A i \in DOMAIN d : IsClause(d[i]) => Place(d[i]) <= SentUpTo(v)
  BY DEF InOrder, Within
<1> HIDE DEF t
<1>6. Increasing(t)
  <2> SUFFICES ASSUME NEW i \in DOMAIN t, NEW j \in DOMAIN t, IsClause(t[i]), IsClause(t[j]),
                      i < j
               PROVE  Place(t[i]) < Place(t[j])
    BY DEF Increasing
  <2>1. i \in 1..Len(d) /\ t[i] = d[i]
    BY <1>1
  <2>2. CASE j = n
    BY <1>1, <1>2, <1>3, <1>4, <1>5, <2>1, <2>2
  <2>3. CASE j # n
    <3>1. j \in 1..Len(d) /\ t[j] = d[j]
      BY <1>1, <2>3
    <3>2. QED
      BY <1>1, <2>1, <3>1 DEF InOrder, Increasing
  <2>4. QED
    BY <2>2, <2>3
<1>7. p # 0 => 2 * p - 1 <= SentUpTo(v)
  BY DEF InOrder, Within
<1>8. IsClause(m) => m.clause >= 1
  BY <1>4 DEF Sends, InOrder, Paired, IsClause
<1>9. Within(t, p, w)
  <2>1. ASSUME NEW i \in DOMAIN t, IsClause(t[i])
        PROVE  /\ t[i].clause >= 1 /\ Place(t[i]) <= SentUpTo(w)
               /\ p # 0 => 2 * p - 1 < Place(t[i])
    <3>1. CASE i = n
      BY <1>1, <1>2, <1>4, <1>7, <1>8, <2>1, <3>1
    <3>2. CASE i # n
      <4>1. i \in 1..Len(d) /\ t[i] = d[i]
        BY <1>1, <3>2
      <4>2. /\ d[i].clause >= 1 /\ Place(d[i]) <= SentUpTo(v)
            /\ p # 0 => 2 * p - 1 < Place(d[i])
        BY <1>1, <2>1, <4>1 DEF InOrder, Within
      <4>3. QED
        BY <1>1, <1>2, <1>3, <4>1, <4>2
    <3>3. QED
      BY <3>1, <3>2
  <2>2. p # 0 => 2 * p - 1 <= SentUpTo(w)
    BY <1>2, <1>7
  <2>3. QED
    BY <2>1, <2>2 DEF Within
<1>10. ASSUME NEW c, NEW i \in 1..n, TextBefore(d, p, c, i)
       PROVE  TextBefore(t, p, c, i)
  BY <1>1, <1>10 DEF TextBefore
<1>11. Paired(t, p, w)
  <2>1. ASSUME NEW i \in DOMAIN t, t[i].type = "bytes"
        PROVE  TextBefore(t, p, t[i].clause, i)
    <3>1. CASE i = n
      <4>1. v.half /\ m.clause = v.clauses
        BY <1>1, <2>1, <3>1 DEF Sends, IsClause
      <4>2. TextBefore(d, p, v.clauses, n)
        BY <4>1 DEF InOrder, Paired
      <4>3. QED
        BY <1>1, <1>10, <3>1, <4>1, <4>2
    <3>2. CASE i # n
      <4>1. i \in 1..Len(d) /\ t[i] = d[i]
        BY <1>1, <3>2
      <4>2. TextBefore(d, p, d[i].clause, i)
        BY <1>1, <2>1, <4>1 DEF InOrder, Paired
      <4>3. QED
        BY <1>1, <1>10, <4>1, <4>2
    <3>3. QED
      BY <3>1, <3>2
  <2>2. ASSUME w.half
        PROVE  w.clauses >= 1 /\ TextBefore(t, p, w.clauses, Len(t) + 1)
    <3>1. CASE m.type = "assistant_text"
      <4>1. m.clause = w.clauses /\ w.clauses >= 1
        BY <1>4, <2>2, <3>1 DEF Sends, IsClause
      <4>2. n < Len(t) + 1
        BY <1>1
      <4>3. QED
        BY <1>1, <3>1, <4>1, <4>2 DEF TextBefore
    <3>2. CASE m.type # "assistant_text"
      <4>1. v.half /\ v.clauses = w.clauses
        BY <2>2, <3>2 DEF Sends, IsClause
      <4>2. v.clauses >= 1 /\ TextBefore(d, p, v.clauses, n)
        BY <4>1 DEF InOrder, Paired
      <4>3. TextBefore(t, p, v.clauses, n)
        BY <1>1, <1>10, <4>2
      <4>4. TextBefore(t, p, v.clauses, Len(t) + 1)
        BY <1>1, <4>3 DEF TextBefore
      <4>5. QED
        BY <4>1, <4>2, <4>4
    <3>3. QED
      BY <3>1, <3>2
  <2>3. QED
    BY <2>1, <2>2 DEF Paired
<1>12. QED
  BY <1>6, <1>9, <1>11 DEF InOrder, t

LEMMA SendKeepsAhead ==
  ASSUME NEW q \in Seq(Sources), NEW d \in Seq(Messages), NEW p \in Nat, NEW v \in Servers,
         NEW w \in Servers, NEW m \in Messages, Ahead(q, d, p, v), Sends(m, v, w)
  PROVE  Ahead(q, Append(d, m), p, w)
<1> DEFINE t == Append(d, m)
           n == Len(d) + 1
<1>1. /\ DOMAIN d = 1..Len(d) /\ DOMAIN t = 1..n
      /\ \A i \in 1..Len(d) : t[i] = d[i]
      /\ t[n] = m
      /\ \A i \in 1..n : i \in 1..Len(d) \/ i = n
  OBVIOUS
<1>2. /\ SentUpTo(v) \in Int /\ SentUpTo(w) \in Int /\ SentUpTo(v) <= SentUpTo(w)
      /\ IsClause(m) => SentUpTo(v) < Place(m) /\ Place(m) <= SentUpTo(w)
  BY SendAdvances
<1>3. Place(m) \in Int
  BY DEF Messages, Place
<1> HIDE DEF t
<1>4. ASSUME NEW i \in DOMAIN q
      PROVE  /\ 2 * q[i].audio <= SentUpTo(w)
             /\ p # 0 => 2 * q[i].audio < 2 * p - 1
             /\ \A j \in DOMAIN t : IsClause(t[j]) => 2 * q[i].audio < Place(t[j])
  <2>1. q[i].audio \in Nat
    <3>1. q[i] \in Sources
      OBVIOUS
    <3>2. QED
      BY <3>1 DEF Sources
  <2>2. /\ 2 * q[i].audio <= SentUpTo(v)
        /\ p # 0 => 2 * q[i].audio < 2 * p - 1
        /\ \A j \in DOMAIN d : IsClause(d[j]) => 2 * q[i].audio < Place(d[j])
    BY DEF Ahead
  <2>3. 2 * q[i].audio <= SentUpTo(w) /\ (IsClause(m) => 2 * q[i].audio < Place(m))
    BY <1>2, <1>3, <2>1, <2>2
  <2>4. QED
    BY <1>1, <2>2, <2>3
<1>5. QED
  BY <1>4 DEF Ahead, t

LEMMA TakeKeepsAhead ==
  ASSUME NEW q \in Seq(Sources), NEW d \in Seq(Messages), d # <<>>, NEW p \in Nat,
         NEW v \in Servers, Ahead(q, d, p, v)
  PROVE  Ahead(q, Tail(d), Keeps(Head(d), p), v)
<1> DEFINE m == Head(d)
           t == Tail(d)
           k == Keeps(m, p)
<1>1. /\ DOMAIN d = 1..Len(d) /\ Len(d) \in Nat /\ Len(d) >= 1 /\ m = d[1]
      /\ DOMAIN t = 1..(Len(d) - 1)
      /\ \A i \in 1..(Len(d) - 1) : t[i] = d[i + 1] /\ i + 1 \in 1..Len(d)
      /\ 1 \in 1..Len(d)
  OBVIOUS
<1>2. ASSUME NEW i \in DOMAIN q
      PROVE  /\ 2 * q[i].audio <= SentUpTo(v)
             /\ k # 0 => 2 * q[i].audio < 2 * k - 1
             /\ \A j \in DOMAIN t : IsClause(t[j]) => 2 * q[i].audio < Place(t[j])
  <2>1. /\ 2 * q[i].audio <= SentUpTo(v)
        /\ p # 0 => 2 * q[i].audio < 2 * p - 1
        /\ \A j \in DOMAIN d : IsClause(d[j]) => 2 * q[i].audio < Place(d[j])
    BY DEF Ahead
  <2> HIDE DEF t, m
  <2>2. \A j \in DOMAIN t : IsClause(t[j]) => 2 * q[i].audio < Place(t[j])
    BY <1>1, <2>1
  <2>3. k # 0 => 2 * q[i].audio < 2 * k - 1
    BY <1>1, <2>1 DEF Keeps, IsClause, Place
  <2>4. QED
    BY <2>1, <2>2, <2>3
<1>3. QED
  BY <1>2 DEF Ahead

-----------------------------------------------------------------------------
(* Playback. *)

(* PlaybackIsCurrent of the sources q, the transport t and its n starts.   *)
Current(q, t, n) ==
  \A i \in DOMAIN q :
    /\ q[i].session = t
    /\ q[i].text = q[i].audio
    /\ q[i].starts = n
    /\ i > 1 => q[i - 1].audio < q[i].audio

LEMMA CurrentTail ==
  ASSUME NEW q \in Seq(Sources), q # <<>>, NEW t, NEW n, Current(q, t, n)
  PROVE  Current(Tail(q), t, n)
<1> DEFINE r == Tail(q)
<1>1. /\ DOMAIN q = 1..Len(q) /\ Len(q) \in Nat /\ DOMAIN r = 1..(Len(q) - 1)
      /\ \A i \in 1..(Len(q) - 1) : r[i] = q[i + 1] /\ i + 1 \in 1..Len(q)
  OBVIOUS
<1> HIDE DEF r
<1>2. ASSUME NEW i \in DOMAIN r
      PROVE  /\ r[i].session = t /\ r[i].text = r[i].audio /\ r[i].starts = n
             /\ i > 1 => r[i - 1].audio < r[i].audio
  <2>1. i + 1 \in DOMAIN q /\ r[i] = q[i + 1] /\ i + 1 > 1 /\ (i + 1) - 1 = i
    BY <1>1
  <2>2. i > 1 => r[i - 1] = q[i]
    BY <1>1
  <2>3. q[(i + 1) - 1].audio < q[i + 1].audio
    BY <2>1 DEF Current
  <2>4. QED
    BY <2>1, <2>2, <2>3 DEF Current
<1>3. QED
  BY <1>2 DEF Current, r

LEMMA CurrentAppend ==
  ASSUME NEW q \in Seq(Sources), NEW e \in Sources, NEW t, NEW n, Current(q, t, n),
         e.session = t, e.text = e.audio, e.starts = n,
         \A i \in DOMAIN q : q[i].audio < e.audio
  PROVE  Current(Append(q, e), t, n)
<1> DEFINE r == Append(q, e)
<1>1. /\ DOMAIN q = 1..Len(q) /\ Len(q) \in Nat /\ DOMAIN r = 1..(Len(q) + 1)
      /\ \A i \in 1..Len(q) : r[i] = q[i] /\ (i > 1 => i - 1 \in 1..Len(q))
      /\ r[Len(q) + 1] = e
  OBVIOUS
<1> HIDE DEF r
<1>2. ASSUME NEW i \in DOMAIN r
      PROVE  /\ r[i].session = t /\ r[i].text = r[i].audio /\ r[i].starts = n
             /\ i > 1 => r[i - 1].audio < r[i].audio
  <2>1. CASE i = Len(q) + 1
    <3>1. i > 1 => i - 1 \in DOMAIN q /\ r[i - 1] = q[i - 1]
      BY <1>1, <2>1
    <3>2. QED
      BY <1>1, <2>1, <3>1
  <2>2. CASE i # Len(q) + 1
    <3>1. i \in DOMAIN q /\ r[i] = q[i] /\ (i > 1 => r[i - 1] = q[i - 1])
      BY <1>1, <2>2
    <3>2. QED
      BY <3>1 DEF Current
  <2>3. QED
    BY <2>1, <2>2
<1>3. QED
  BY <1>2 DEF Current, r

(* No start is among what a frame adds, if it is not one itself. *)
LEMMA NoNewStart ==
  ASSUME NEW u \in Seq(Controls \cup Levels), NEW x \in {"end", "loud", "quiet"}
  PROVE  {i \in DOMAIN (u \o <<x>>) : (u \o <<x>>)[i] = "start"}
           = {i \in DOMAIN u : u[i] = "start"}
<1>1. <<x>> \in Seq(Controls \cup Levels) /\ Len(<<x>>) = 1 /\ <<x>>[1] = x
  BY DEF Controls, Levels
<1>2. /\ DOMAIN (u \o <<x>>) = 1..(Len(u) + 1) /\ DOMAIN u = 1..Len(u) /\ Len(u) \in Nat
      /\ \A i \in 1..Len(u) : (u \o <<x>>)[i] = u[i]
      /\ (u \o <<x>>)[Len(u) + 1] = x
  BY <1>1
<1>3. QED
  BY <1>2

Stream(s) ==
  /\ socket[s] = "open" => InOrder(down[s], pendingMeta[s], server[s])
  /\ socket[s] \in {"none", "connecting"} =>
       down[s] = <<>> /\ pendingMeta[s] = 0 /\ ~server[s].half

(* An orphan's frames go to the transport too, so who speaks does not      *)
(* matter here.                                                            *)
PlayInv ==
  /\ \A s \in Sessions : Stream(s)
  /\ transport = 0 => sources = <<>>
  /\ \A s \in Sessions : s = transport /\ socket[s] = "open"
       => Ahead(sources, down[s], pendingMeta[s], server[s])
  /\ \A s \in Sessions : s = transport /\ socket[s] = "connecting" => sources = <<>>
  /\ Current(sources, transport, Starts(transport))

playVars == <<transport, socket, pendingMeta, sources, serverVars>>

LEMMA PlayInit == Init => PlayInv
<1> SUFFICES ASSUME Init PROVE PlayInv
  OBVIOUS
<1>1. \A s \in Sessions : Stream(s)
  BY DEF Init, Stream
<1>2. Current(<<>>, transport, Starts(transport)) /\ sources = <<>>
  BY DEF Init, Current
<1>3. \A s \in Sessions : socket[s] # "open" /\ socket[s] # "connecting"
  BY DEF Init
<1>4. QED
  BY <1>1, <1>2, <1>3 DEF PlayInv

LEMMA PlayStays ==
  ASSUME PlayInv, UNCHANGED playVars
  PROVE  PlayInv'
BY DEF PlayInv, playVars, serverVars, Stream, Starts

(* With nothing scheduled there is nothing out of date. *)
LEMMA SilenceIsCurrent ==
  ASSUME NEW t, NEW n, NEW d, NEW p, NEW v
  PROVE  Current(<<>>, t, n) /\ Ahead(<<>>, d, p, v)
BY DEF Current, Ahead

LEMMA OpenSessionPlays ==
  ASSUME Types, Progress, PlayInv, NEW s \in Sessions, OpenSession(s), transport = 0,
         stage[s] \in {"uncalled", "resuming"}, UNCHANGED <<sources, pendingMeta, serverVars>>
  PROVE  PlayInv'
<1> USE DEF serverVars
<1>1. socket[s] = "none" /\ socket'[s] = "connecting"
  BY DEF OpenSession, Progress, Types
<1>2. \A r \in Sessions : r # s => socket'[r] = socket[r]
  BY DEF OpenSession, Types
<1>3. \A r \in Sessions : Stream(r)'
  BY <1>1, <1>2 DEF PlayInv, Stream
<1>4. sources' = <<>> /\ transport' = s
  BY DEF PlayInv, OpenSession
<1>5. Current(sources', transport', Starts(transport)')
  BY <1>4, SilenceIsCurrent
<1>6. QED
  BY <1>3, <1>4, <1>5, SilenceIsCurrent DEF PlayInv

LEMMA PlayConnects ==
  ASSUME Inv, PlayInv, NEW s \in Sessions, Connect(s) \/ Resume(s)
  PROVE  PlayInv'
<1>1. CASE OpenSession(s)
  <2>1. transport = 0
    BY DEF Connect, Resume, Inv, FirstCall
  <2>2. stage[s] \in {"uncalled", "resuming"} /\ UNCHANGED <<sources, pendingMeta, serverVars>>
    BY DEF Connect, Resume, soundVars
  <2>3. QED
    BY <1>1, <2>1, <2>2, OpenSessionPlays DEF Inv
<1>2. CASE UNCHANGED <<transport, socket>>
  BY <1>2, PlayStays DEF Connect, Resume, playVars, soundVars, OpenSession
<1>3. QED
  BY <1>1, <1>2 DEF Connect, Resume

LEMMA PlayDisconnects ==
  ASSUME Inv, PlayInv, Disconnect
  PROVE  PlayInv'
<1>1. transport \in Sessions /\ transport' = 0 /\ sources' = <<>>
  BY NobodyIsZero DEF Disconnect, Inv, Types
<1>2. \A r \in Sessions : r # transport => socket'[r] = socket[r]
  BY DEF Disconnect, Inv, Types
<1>3. socket'[transport] \in {"closing", "closed"}
  BY <1>1 DEF Disconnect, Inv, Types, Closing
<1>4. \A r \in Sessions : Stream(r)'
  BY <1>2, <1>3 DEF Disconnect, PlayInv, Stream, serverVars
<1>5. Current(sources', transport', Starts(transport)')
  BY <1>1, SilenceIsCurrent
<1>6. QED
  BY <1>1, <1>4, <1>5, NobodyIsZero DEF PlayInv

LEMMA PlayCloses ==
  ASSUME Inv, PlayInv, NEW s \in Sessions, Closed(s)
  PROVE  PlayInv'
<1>1. /\ socket'[s] = "closed" /\ UNCHANGED <<transport, sources, pendingMeta, up, server>>
      /\ \A r \in Sessions : r # s => socket'[r] = socket[r] /\ down'[r] = down[r]
  BY DEF Closed, Inv, Types, soundVars
<1>2. \A r \in Sessions : Stream(r)'
  BY <1>1 DEF PlayInv, Stream
<1>3. QED
  BY <1>1, <1>2 DEF PlayInv, Starts

LEMMA PlayOpens ==
  ASSUME Inv, DataTypes, PlayInv, NEW s \in Sessions, Open(s)
  PROVE  PlayInv'
<1>1. /\ socket[s] = "connecting" /\ socket'[s] = "open"
      /\ UNCHANGED <<transport, sources, pendingMeta, up, down, server>>
      /\ \A r \in Sessions : r # s => socket'[r] = socket[r]
  BY DEF Open, Inv, Types, soundVars, serverVars
<1>2. down[s] = <<>> /\ pendingMeta[s] = 0 /\ ~server[s].half /\ server[s] \in Servers
  BY <1>1 DEF PlayInv, Stream, DataTypes
<1>3. \A r \in Sessions : Stream(r)'
  BY <1>1, <1>2, NothingOnItsWay DEF PlayInv, Stream
<1>4. s = transport => sources = <<>>
  BY <1>1 DEF PlayInv
<1>5. QED
  BY <1>1, <1>3, <1>4, SilenceIsCurrent DEF PlayInv, Starts

(* A frame that begins an utterance silences the playback; any other adds  *)
(* no start. *)
LEMMA PlayFrames ==
  ASSUME Inv, DataTypes, PlayInv, NEW s \in Sessions, NEW frame \in Levels, Frame(s, frame)
  PROVE  PlayInv'
<1> DEFINE after == OnLevel(vad[s], frame = "loud")
           sent  == ToSend(vad[s], after, frame)
<1>1. /\ UNCHANGED <<transport, socket, pendingMeta, down, server>>
      /\ sources' = PlayingAfter(after.call)
      /\ up' = IF transport # 0 /\ socket[transport] = "open"
               THEN [up EXCEPT ![transport] = @ \o sent] ELSE up
  BY DEF Frame
<1>2. \A r \in Sessions : Stream(r)'
  BY <1>1 DEF PlayInv, Stream
<1>3. vad[s] \in Vads /\ after.call \in {"none", "start", "end"}
  BY OnLevelTyped DEF DataTypes
<1>4. after.call # "start" => sent \in {<<>>, <<"end">>, <<"loud">>, <<"quiet">>}
  BY <1>3, OnLevelSends DEF Levels
<1> HIDE DEF after, sent
<1>5. CASE after.call = "start"
  <2>1. sources' = <<>>
    BY <1>1, <1>5 DEF PlayingAfter
  <2>2. QED
    BY <1>1, <1>2, <2>1, SilenceIsCurrent DEF PlayInv
<1>6. CASE after.call # "start"
  <2>1. sources' = sources
    BY <1>1, <1>6 DEF PlayingAfter
  <2>2. transport # 0 => Starts(transport)' = Starts(transport)
    <3> SUFFICES ASSUME transport # 0 PROVE Starts(transport)' = Starts(transport)
      OBVIOUS
    <3>1. transport \in Sessions /\ transport' = transport
      BY <1>1 DEF Inv, Types
    <3>2. up[transport] \in Seq(Controls \cup Levels)
      BY <3>1 DEF DataTypes
    <3>3. up'[transport] = up[transport] \/ up'[transport] = up[transport] \o sent
      BY <1>1, <3>1 DEF DataTypes
    <3>4. up[transport] \o <<>> = up[transport]
      BY <3>2, ConcatEmptySeq
    <3>5. \/ up'[transport] = up[transport]
          \/ \E x \in {"end", "loud", "quiet"} : up'[transport] = up[transport] \o <<x>>
      BY <1>4, <1>6, <3>3, <3>4
    <3>6. {i \in DOMAIN up'[transport] : up'[transport][i] = "start"}
            = {i \in DOMAIN up[transport] : up[transport][i] = "start"}
      <4>1. CASE up'[transport] = up[transport]
        BY <4>1
      <4>2. ASSUME NEW x \in {"end", "loud", "quiet"}, up'[transport] = up[transport] \o <<x>>
            PROVE  {i \in DOMAIN up'[transport] : up'[transport][i] = "start"}
                     = {i \in DOMAIN up[transport] : up[transport][i] = "start"}
        BY <3>2, <4>2, NoNewStart
      <4>3. QED
        BY <3>5, <4>1, <4>2
    <3>7. QED
      BY <3>1, <3>6 DEF Starts
  <2>3. Current(sources', transport', Starts(transport)')
    <3>1. CASE transport # 0
      BY <1>1, <2>1, <2>2, <3>1 DEF PlayInv
    <3>2. CASE transport = 0
      BY <1>1, <2>1, <3>2, SilenceIsCurrent DEF PlayInv
    <3>3. QED
      BY <3>1, <3>2
  <2>4. QED
    BY <1>1, <1>2, <2>1, <2>3 DEF PlayInv
<1>7. QED
  BY <1>5, <1>6

LEMMA PlayHandles ==
  ASSUME Inv, DataTypes, PlayInv, NEW s \in Sessions, HandleMessage(s)
  PROVE  PlayInv'
<1> DEFINE d == down[s]
           m == Head(d)
           p == pendingMeta[s]
           v == server[s]
           e == [session |-> s, text |-> p, audio |-> m.clause, starts |-> Starts(s)]
<1>1. /\ socket[s] = "open" /\ s = transport /\ d # <<>>
      /\ UNCHANGED <<transport, socket, up, server>>
  BY DEF HandleMessage, Inv, Owned
<1>2. d \in Seq(Messages) /\ p \in Nat /\ v \in Servers /\ sources \in Seq(Sources)
  BY DEF DataTypes
<1>3. m \in Messages /\ m = d[1] /\ 1 \in DOMAIN d
  BY <1>1, <1>2
<1>4. /\ down'[s] = Tail(d)
      /\ \A r \in Sessions : r # s => down'[r] = down[r]
  BY <1>1 DEF HandleMessage, DataTypes
<1>5. InOrder(d, p, v) /\ Ahead(sources, d, p, v)
  BY <1>1 DEF PlayInv, Stream
<1>6. m.type = "bytes" => p = m.clause /\ p # 0
  BY <1>1, <1>2, <1>5, BytesHaveTheirText
<1>7. /\ pendingMeta'[s] = Keeps(m, p)
      /\ \A r \in Sessions : r # s => pendingMeta'[r] = pendingMeta[r]
  BY <1>6 DEF HandleMessage, DataTypes, Keeps
<1>8. sources' = IF m.type = "bytes" THEN Append(sources, e) ELSE sources
  BY <1>6 DEF HandleMessage
<1> HIDE DEF d, m, p, v, e
<1>9. InOrder(down'[s], pendingMeta'[s], v)
  BY <1>1, <1>2, <1>4, <1>5, <1>7, TakeKeepsOrder DEF m
<1>10. \A r \in Sessions : Stream(r)'
  BY <1>1, <1>4, <1>7, <1>9 DEF PlayInv, Stream, v
<1>11. Ahead(sources, Tail(d), Keeps(m, p), v)
  BY <1>1, <1>2, <1>5, TakeKeepsAhead DEF m
<1>12. CASE m.type # "bytes"
  <2>1. sources' = sources /\ Starts(transport)' = Starts(transport)
    BY <1>1, <1>8, <1>12 DEF Starts
  <2>2. QED
    BY <1>1, <1>4, <1>7, <1>10, <1>11, <2>1 DEF PlayInv, v
<1>13. CASE m.type = "bytes"
  <2>1. sources' = Append(sources, e) /\ Keeps(m, p) = 0
    BY <1>8, <1>13 DEF Keeps
  <2>2. m.clause \in Nat /\ Starts(s) \in Nat /\ Place(m) = 2 * m.clause /\ IsClause(m)
    BY <1>3, <1>13, CountOfUp DEF Messages, Place, IsClause
  <2>3. e \in Sources /\ e.session = s /\ e.text = p /\ e.audio = m.clause /\ e.starts = Starts(s)
    BY <1>2, <2>2 DEF e, Sources
  <2>4. \A i \in DOMAIN sources : sources[i].audio \in Nat /\ 2 * sources[i].audio < 2 * m.clause
    <3>1. \A i \in DOMAIN sources : sources[i] \in Sources
      BY <1>2
    <3>2. QED
      BY <1>3, <1>5, <2>2, <3>1 DEF Ahead, Sources
  <2>5. \A i \in DOMAIN sources : sources[i].audio < e.audio
    BY <2>2, <2>3, <2>4
  <2>6. Current(sources, s, Starts(s))
    BY <1>1 DEF PlayInv
  <2>7. Current(Append(sources, e), s, Starts(s))
    BY <1>2, <1>6, <1>13, <2>3, <2>5, <2>6, CurrentAppend
  <2>8. Starts(transport)' = Starts(s) /\ transport' = s
    BY <1>1 DEF Starts
  <2>9. 2 * e.audio <= SentUpTo(v)
    BY <1>3, <1>5, <2>2, <2>3 DEF InOrder, Within
  <2>10. \A j \in DOMAIN Tail(d) : IsClause(Tail(d)[j]) => 2 * e.audio < Place(Tail(d)[j])
    <3>1. \A j \in DOMAIN Tail(d) : j + 1 \in DOMAIN d /\ Tail(d)[j] = d[j + 1] /\ 1 < j + 1
      BY <1>1, <1>2
    <3>2. QED
      BY <1>3, <1>5, <2>2, <2>3, <3>1 DEF InOrder, Increasing
  <2>11. Ahead(Append(sources, e), Tail(d), 0, v)
    <3>1. \A i \in DOMAIN Append(sources, e) :
            \/ i \in DOMAIN sources /\ Append(sources, e)[i] = sources[i]
            \/ Append(sources, e)[i] = e
      BY <1>2, <2>3
    <3>2. QED
      BY <1>11, <2>1, <2>9, <2>10, <3>1 DEF Ahead
  <2>12. Ahead(sources', down'[s], pendingMeta'[s], server'[s])
    BY <1>1, <1>4, <1>7, <2>1, <2>11 DEF v
  <2>13. Current(sources', transport', Starts(transport)')
    BY <2>1, <2>7, <2>8
  <2>14. transport' # 0 /\ socket'[s] = "open"
    BY <1>1, <2>8, NobodyIsZero
  <2>15. QED
    BY <1>1, <1>10, <2>12, <2>13, <2>14 DEF PlayInv
<1>14. QED
  BY <1>12, <1>13

LEMMA PlayEnds ==
  ASSUME DataTypes, PlayInv, SourceEnded
  PROVE  PlayInv'
<1>1. /\ sources # <<>> /\ sources' = Tail(sources) /\ sources \in Seq(Sources)
      /\ UNCHANGED <<transport, socket, pendingMeta, up, down, server>>
  BY DEF SourceEnded, serverVars, DataTypes
<1>2. Current(sources', transport', Starts(transport)')
  BY <1>1, CurrentTail DEF PlayInv, Starts
<1>3. ASSUME NEW d, NEW p, NEW v, Ahead(sources, d, p, v) PROVE Ahead(sources', d, p, v)
  <2>1. \A i \in DOMAIN Tail(sources) : i + 1 \in DOMAIN sources /\ Tail(sources)[i] = sources[i + 1]
    BY <1>1
  <2>2. QED
    BY <1>1, <1>3, <2>1 DEF Ahead
<1>4. QED
  BY <1>1, <1>2, <1>3 DEF PlayInv, Stream

LEMMA PlayServes ==
  ASSUME Inv, DataTypes, PlayInv, NEW s \in Sessions, ServerReads(s) \/ ServerSpeaks(s)
  PROVE  PlayInv'
<1> DEFINE v == server[s]
           w == server'[s]
<1>1. /\ socket[s] = "open" /\ s = transport
      /\ UNCHANGED <<transport, socket, up, sources, pendingMeta>>
  BY DEF ServerReads, ServerSpeaks, Inv, Owned, soundVars
<1>2. v \in Servers /\ w \in Servers /\ down[s] \in Seq(Messages) /\ pendingMeta[s] \in Nat
      /\ sources \in Seq(Sources)
  BY ServerTyped DEF DataTypes
<1>3. \A r \in Sessions : r # s => server'[r] = server[r] /\ down'[r] = down[r]
  BY DEF ServerReads, ServerSpeaks, Emit, DataTypes
<1>4. \/ down'[s] = down[s] /\ w.clauses = v.clauses /\ w.half = v.half
      \/ \E m \in Messages : down'[s] = Append(down[s], m) /\ Sends(m, v, w)
  <2> DEFINE Said(type, n) == [type |-> type, clause |-> n]
  <2>a. \A type \in {"assistant_text", "bytes", "turn_interrupted", "error"}, n \in Nat :
          Emit(s, type, n) => /\ Said(type, n) \in Messages
                              /\ down'[s] = Append(down[s], Said(type, n))
    BY DEF Emit, DataTypes, Messages
  <2>b. v.clauses \in Nat /\ v.clauses + 1 \in Nat
    BY <1>2 DEF Servers
  <2>1. CASE ServerReads(s)
    <3>1. w.clauses = v.clauses /\ w.half = v.half
      BY <2>1 DEF ServerReads, DataTypes, Servers
    <3>2. down' = down \/ Emit(s, "turn_interrupted", 0) \/ Emit(s, "error", 0)
      BY <2>1 DEF ServerReads
    <3>3. ASSUME NEW type \in {"turn_interrupted", "error"} PROVE Sends(Said(type, 0), v, w)
      BY <3>1 DEF Sends, IsClause
    <3>4. CASE down' = down
      BY <3>1, <3>4
    <3>5. ASSUME NEW type \in {"turn_interrupted", "error"}, Emit(s, type, 0)
          PROVE  \E m \in Messages : down'[s] = Append(down[s], m) /\ Sends(m, v, w)
      <4>1. Said(type, 0) \in Messages /\ down'[s] = Append(down[s], Said(type, 0))
        BY <2>a, <3>5
      <4>2. Sends(Said(type, 0), v, w)
        BY <3>3
      <4> HIDE DEF Said
      <4>3. QED
        BY <4>1, <4>2
    <3>6. QED
      BY <3>2, <3>4, <3>5
  <2>2. CASE ServerSpeaks(s)
    <3>1. CASE ~v.half
      <4>1. w.clauses = v.clauses + 1 /\ w.half /\ Emit(s, "assistant_text", v.clauses + 1)
        BY <2>2, <3>1 DEF ServerSpeaks, DataTypes, Servers
      <4>2. Sends(Said("assistant_text", v.clauses + 1), v, w)
        BY <3>1, <4>1 DEF Sends
      <4>3. /\ Said("assistant_text", v.clauses + 1) \in Messages
            /\ down'[s] = Append(down[s], Said("assistant_text", v.clauses + 1))
        BY <2>a, <2>b, <4>1
      <4> HIDE DEF Said
      <4>4. QED
        BY <4>2, <4>3
    <3>2. CASE v.half
      <4>1. w.clauses = v.clauses /\ ~w.half /\ Emit(s, "bytes", v.clauses)
        BY <2>2, <3>2 DEF ServerSpeaks, DataTypes, Servers
      <4>2. Sends(Said("bytes", v.clauses), v, w)
        BY <3>2, <4>1 DEF Sends
      <4>3. /\ Said("bytes", v.clauses) \in Messages
            /\ down'[s] = Append(down[s], Said("bytes", v.clauses))
        BY <2>a, <2>b, <4>1
      <4> HIDE DEF Said
      <4>4. QED
        BY <4>2, <4>3
    <3>3. QED
      BY <3>1, <3>2
  <2>3. QED
    BY <2>1, <2>2
<1>5. InOrder(down[s], pendingMeta[s], v) /\ Ahead(sources, down[s], pendingMeta[s], v)
  BY <1>1 DEF PlayInv, Stream
<1> HIDE DEF v, w
<1>6. InOrder(down'[s], pendingMeta[s], w) /\ Ahead(sources, down'[s], pendingMeta[s], w)
  <2>1. CASE down'[s] = down[s] /\ w.clauses = v.clauses /\ w.half = v.half
    BY <1>2, <1>5, <2>1, OrderLooksAtClauses DEF Ahead, SentUpTo
  <2>2. ASSUME NEW m \in Messages, down'[s] = Append(down[s], m), Sends(m, v, w)
        PROVE  InOrder(down'[s], pendingMeta[s], w) /\ Ahead(sources, down'[s], pendingMeta[s], w)
    BY <1>2, <1>5, <2>2, SendKeepsOrder, SendKeepsAhead
  <2>3. QED
    BY <1>4, <2>1, <2>2
<1>7. \A r \in Sessions : Stream(r)'
  BY <1>1, <1>3, <1>6 DEF PlayInv, Stream, w
<1>8. QED
  BY <1>1, <1>6, <1>7 DEF PlayInv, Starts, w

LEMMA PlayNext == Inv /\ DataTypes /\ PlayInv /\ [Next]_vars => PlayInv'
<1> SUFFICES ASSUME Inv, DataTypes, PlayInv, [Next]_vars PROVE PlayInv'
  OBVIOUS
<1>1. CASE UNCHANGED vars
  BY <1>1, PlayStays DEF vars, soundVars, playVars
<1>2. ASSUME NEW s \in Sessions, Grant(s) \/ Captured(s) \/ Refuse(s) PROVE PlayInv'
  BY <1>2, PlayStays DEF Grant, Captured, Refuse, soundVars, playVars
<1>3. QED
  BY <1>1, <1>2, PlayConnects, PlayDisconnects, PlayCloses, PlayOpens, PlayFrames, PlayHandles,
     PlayEnds, PlayServes DEF Next, Levels

(* What plays is of the session in use, each clause's bytes with their own *)
(* text, in the order sent, and nothing that had arrived when the learner  *)
(* last began to speak: handleMessage and flush() against any order of     *)
(* clicks, frames, closes and messages.                                    *)
THEOREM PlaybackStaysCurrent == Spec => []PlaybackIsCurrent
<1>1. PlayInv => PlaybackIsCurrent
  BY DEF PlayInv, Current, PlaybackIsCurrent
<1>2. Inv => Types
  BY DEF Inv
<1>3. QED
  BY InvInit, InvNext, DataInit, DataNext, PlayInit, PlayNext, <1>1, <1>2, PTL DEF Spec

-----------------------------------------------------------------------------
(* What a socket is given to send.  Control and LastLoud look only at what *)
(* comes before the place they are asked about.                            *)

Wire == Seq(Controls \cup Levels)

LEMMA ControlIs ==
  ASSUME NEW u \in Wire, NEW i \in 1..(Len(u) + 1)
  PROVE  /\ Control(u, i) \in 0..(i - 1)
         /\ Control(u, i) # 0 => u[Control(u, i)] \in Controls
         /\ \A j \in 1..(i - 1) : u[j] \in Controls => j <= Control(u, i)
<1> DEFINE T == {0} \cup {j \in 1..(i - 1) : u[j] \in {"start", "end"}}
<1>1. i - 1 \in Nat /\ T \in SUBSET (0..(i - 1)) /\ T # {}
  BY DEF Wire
<1>2. Max(T) \in T /\ \A x \in T : x <= Max(T)
  BY <1>1, MaxIsGreatest
<1>3. Control(u, i) = Max(T)
  BY DEF Control
<1>4. QED
  BY <1>1, <1>2, <1>3 DEF Controls

LEMMA LastLoudIs ==
  ASSUME NEW u \in Wire, NEW i \in 1..(Len(u) + 1), NEW c \in 0..(i - 1)
  PROVE  LastLoud(u, c, i) \in c..(i - 1)
<1> DEFINE T == {c} \cup {j \in 1..(i - 1) : u[j] = "loud"}
<1>1. i - 1 \in Nat /\ T \in SUBSET (0..(i - 1)) /\ T # {} /\ c \in T
  BY DEF Wire
<1>2. Max(T) \in T /\ \A x \in T : x <= Max(T)
  BY <1>1, MaxIsGreatest
<1>3. LastLoud(u, c, i) = Max(T)
  BY DEF LastLoud
<1>4. QED
  BY <1>1, <1>2, <1>3

(* What is sent later does not matter. *)
LEMMA SameBefore ==
  ASSUME NEW u \in Wire, NEW q \in Wire, NEW i \in 1..(Len(u) + 1)
  PROVE  /\ Control(u \o q, i) = Control(u, i)
         /\ \A c : LastLoud(u \o q, c, i) = LastLoud(u, c, i)
<1>1. \A j \in 1..(i - 1) : (u \o q)[j] = u[j]
  BY DEF Wire
<1>2. {j \in 1..(i - 1) : (u \o q)[j] \in {"start", "end"}}
        = {j \in 1..(i - 1) : u[j] \in {"start", "end"}}
  BY <1>1
<1>3. {j \in 1..(i - 1) : (u \o q)[j] = "loud"} = {j \in 1..(i - 1) : u[j] = "loud"}
  BY <1>1
<1>4. QED
  BY <1>2, <1>3 DEF Control, LastLoud

(* The place after the last: Control and LastLoud from those one before.   *)
LEMMA ControlAfter ==
  ASSUME NEW t \in Wire, NEW i \in 1..Len(t)
  PROVE  Control(t, i + 1) = IF t[i] \in Controls THEN i ELSE Control(t, i)
<1> DEFINE T == {0} \cup {j \in 1..((i + 1) - 1) : t[j] \in {"start", "end"}}
<1>0. Len(t) \in Nat /\ (i + 1) - 1 = i /\ i \in Nat
  BY DEF Wire
<1>1. /\ Control(t, i) \in 0..(i - 1)
      /\ Control(t, i) # 0 => t[Control(t, i)] \in Controls
      /\ \A j \in 1..(i - 1) : t[j] \in Controls => j <= Control(t, i)
  BY <1>0, ControlIs
<1>2. T \in SUBSET (0..i)
  BY <1>0
<1>3. CASE t[i] \in Controls
  <2>1. i \in T /\ \A y \in T : y <= i
    BY <1>0, <1>3 DEF Controls
  <2>2. Max(T) = i
    BY <1>0, <1>2, <2>1, GreatestIsMax
  <2>3. QED
    BY <1>3, <2>2 DEF Control
<1>4. CASE t[i] \notin Controls
  <2> DEFINE x == Control(t, i)
  <2>1. x \in T
    BY <1>0, <1>1 DEF Controls
  <2>2. \A y \in T : y <= x
    BY <1>0, <1>1, <1>4 DEF Controls
  <2> HIDE DEF x
  <2>3. Max(T) = x
    BY <1>0, <1>2, <2>1, <2>2, GreatestIsMax
  <2>4. QED
    BY <1>4, <2>3 DEF Control, x
<1>5. QED
  BY <1>3, <1>4

LEMMA LastLoudAfter ==
  ASSUME NEW t \in Wire, NEW i \in 1..Len(t), NEW c \in 0..(i - 1)
  PROVE  LastLoud(t, c, i + 1) = IF t[i] = "loud" THEN i ELSE LastLoud(t, c, i)
<1> DEFINE T == {c} \cup {j \in 1..((i + 1) - 1) : t[j] = "loud"}
           R == {c} \cup {j \in 1..(i - 1) : t[j] = "loud"}
<1>0. Len(t) \in Nat /\ (i + 1) - 1 = i /\ i \in Nat /\ i - 1 \in Nat
  BY DEF Wire
<1>1. LastLoud(t, c, i + 1) = Max(T) /\ LastLoud(t, c, i) = Max(R)
  BY DEF LastLoud
<1>2. T \in SUBSET (0..i) /\ R \in SUBSET (0..(i - 1)) /\ R # {}
  BY <1>0
<1>3. CASE t[i] = "loud"
  <2>1. i \in T /\ \A y \in T : y <= i
    BY <1>0, <1>3
  <2>2. Max(T) = i
    BY <1>0, <1>2, <2>1, GreatestIsMax
  <2>3. QED
    BY <1>1, <1>3, <2>2
<1>4. CASE t[i] # "loud"
  <2>1. T = R
    BY <1>0, <1>4
  <2>2. QED
    BY <1>1, <1>4, <2>1
<1>5. QED
  BY <1>3, <1>4

-----------------------------------------------------------------------------
(* The VAD in step with what was sent.  While it speaks its two clocks are *)
(* the frames sent since the start and since the last loud one.            *)

InStep(u, v) ==
  LET n == Len(u)
      c == Control(u, n + 1)
  IN  IF v.speaking
      THEN c # 0 => /\ u[c] = "start"
                    /\ c < n
                    /\ v.speechMs = (n - c - 1) * FrameMs
                    /\ v.speechMs = 0 \/ v.speechMs < MaxSpeechMs
                    /\ v.silenceMs = (n - LastLoud(u, c, n + 1)) * FrameMs
      ELSE n = 0 \/ (c # 0 /\ u[c] = "end")

Sound(u) == Framed(u) /\ EndsInTime(u)

LEMMA Times ==
  ASSUME NEW k \in Int
  PROVE  /\ k * FrameMs \in Int /\ (k + 1) * FrameMs = k * FrameMs + FrameMs
         /\ k > 0 => k * FrameMs > 0
BY ClientAssumption DEF ClientAssumption

(* One more place, sound in itself, leaves the earlier ones sound. *)
SoundAt(u, i) ==
  LET c    == Control(u, i)
      loud == LastLoud(u, c, i)
  IN  /\ IF u[i] = "start"
         THEN /\ i = 1 \/ (c # 0 /\ u[c] = "end")
              /\ i < Len(u) /\ u[i + 1] = "loud"
         ELSE c = 0 \/ u[c] = "start"
      /\ c # 0 /\ u[i] # "start" =>
           /\ i > c + 2 => (i - 2 - c) * FrameMs < MaxSpeechMs
           /\ u[i] = "quiet" => (i - loud) * FrameMs < HangoverMs
           /\ u[i] = "end" => \/ (i - 1 - c) * FrameMs >= MaxSpeechMs
                              \/ (i - loud) * FrameMs >= HangoverMs

LEMMA SoundIsSoundAt ==
  ASSUME NEW u
  PROVE  Sound(u) <=> \A i \in DOMAIN u : SoundAt(u, i)
BY DEF Sound, SoundAt, Framed, EndsInTime

LEMMA SoundGrows ==
  ASSUME NEW u \in Wire, NEW q \in Wire, Sound(u),
         \A i \in (Len(u) + 1)..(Len(u) + Len(q)) : SoundAt(u \o q, i)
  PROVE  Sound(u \o q)
<1> DEFINE t == u \o q
<1>1. /\ t \in Wire /\ Len(u) \in Nat /\ Len(q) \in Nat
      /\ DOMAIN t = 1..(Len(u) + Len(q)) /\ DOMAIN u = 1..Len(u)
      /\ Len(t) = Len(u) + Len(q)
      /\ \A i \in 1..Len(u) : t[i] = u[i]
  BY DEF Wire
<1>2. ASSUME NEW i \in DOMAIN u PROVE SoundAt(t, i)
  <2> DEFINE c == Control(u, i)
             l == LastLoud(u, c, i)
  <2>1. i \in 1..(Len(u) + 1)
    BY <1>1
  <2>2. Control(t, i) = c /\ LastLoud(t, c, i) = l
    BY <2>1, SameBefore
  <2>3. c \in 0..(i - 1)
    BY <2>1, ControlIs
  <2>4. t[i] = u[i] /\ (c # 0 => t[c] = u[c])
    BY <1>1, <2>3
  <2>5. i < Len(u) => i < Len(t) /\ t[i + 1] = u[i + 1]
    BY <1>1
  <2>6. SoundAt(u, i)
    BY SoundIsSoundAt
  <2> HIDE DEF c, l, t
  <2>7. QED
    BY <2>2, <2>4, <2>5, <2>6 DEF SoundAt, c, l
<1>3. \A i \in DOMAIN t : SoundAt(t, i)
  BY <1>1, <1>2
<1>4. QED
  BY <1>3, SoundIsSoundAt

(* The clocks of a frame that comes while the VAD speaks. *)
LEMMA OnLevelCounts ==
  ASSUME NEW v \in Vads, NEW frame \in Levels, v.speaking
  PROVE  LET after     == OnLevel(v, frame = "loud")
             silenceMs == IF frame = "loud" THEN 0 ELSE v.silenceMs + FrameMs
         IN /\ after.call = "end" => \/ v.speechMs + FrameMs >= MaxSpeechMs
                                     \/ frame # "loud" /\ silenceMs >= HangoverMs
            /\ after.call = "none" =>
                 /\ after.vad.speechMs = v.speechMs + FrameMs
                 /\ after.vad.silenceMs = silenceMs
                 /\ after.vad.speechMs < MaxSpeechMs
                 /\ frame # "loud" => silenceMs < HangoverMs
<1> DEFINE loud == frame = "loud"
           silenceMs == IF loud THEN 0 ELSE v.silenceMs + FrameMs
           speechMs  == v.speechMs + FrameMs
<1>1. silenceMs \in Nat /\ speechMs \in Nat
  BY ClientAssumption DEF ClientAssumption, Vads
<1>2. CASE speechMs >= MaxSpeechMs \/ (~loud /\ silenceMs >= HangoverMs)
  BY <1>2 DEF OnLevel
<1>3. CASE ~(speechMs >= MaxSpeechMs \/ (~loud /\ silenceMs >= HangoverMs))
  BY <1>1, <1>3, ClientAssumption DEF OnLevel, ClientAssumption
<1>4. QED
  BY <1>2, <1>3

(* Speech begins: a start and the loud frame that caused it. *)
LEMMA StartSounds ==
  ASSUME NEW u \in Wire, NEW v, NEW w, InStep(u, v), Sound(u), ~v.speaking,
         w.speaking, w.silenceMs = 0, w.speechMs = 0
  PROVE  Sound(u \o <<"start", "loud">>) /\ InStep(u \o <<"start", "loud">>, w)
<1> DEFINE q == <<"start", "loud">>
           t == u \o q
           n == Len(u)
           c == Control(u, n + 1)
<1>1. q \in Wire /\ Len(q) = 2 /\ q[1] = "start" /\ q[2] = "loud"
  BY DEF Wire, Controls, Levels
<1>2. /\ t \in Wire /\ n \in Nat /\ Len(t) = n + 2
      /\ t[n + 1] = "start" /\ t[n + 2] = "loud" /\ \A i \in 1..n : t[i] = u[i]
  BY <1>1 DEF Wire
<1>3. c \in 0..n /\ Control(t, n + 1) = c
  <2>1. n + 1 \in 1..(n + 1) /\ (n + 1) - 1 = n
    BY <1>2
  <2>2. c \in 0..((n + 1) - 1)
    BY <1>2, <2>1, ControlIs
  <2>3. Control(t, n + 1) = c
    BY <1>1, <2>1, SameBefore
  <2>4. QED
    BY <2>1, <2>2, <2>3
<1>4. n = 0 \/ (c # 0 /\ t[c] = "end")
  BY <1>2, <1>3 DEF InStep
<1> HIDE DEF q, t, n, c
<1>5. Control(t, (n + 1) + 1) = n + 1 /\ Control(t, (n + 2) + 1) = n + 1
  <2>1. n + 1 \in 1..Len(t) /\ n + 2 \in 1..Len(t) /\ (n + 1) + 1 = n + 2
    BY <1>2
  <2>2. "start" \in Controls /\ "loud" \notin Controls
    BY DEF Controls
  <2>3. Control(t, (n + 1) + 1) = n + 1
    BY <1>2, <2>1, <2>2, ControlAfter
  <2>4. Control(t, (n + 2) + 1) = Control(t, n + 2)
    BY <1>2, <2>1, <2>2, ControlAfter
  <2>5. QED
    BY <2>1, <2>3, <2>4
<1>6. LastLoud(t, n + 1, (n + 2) + 1) = n + 2
  <2>1. n + 2 \in 1..Len(t) /\ n + 1 \in 0..((n + 2) - 1)
    BY <1>2
  <2>2. QED
    BY <1>2, <2>1, LastLoudAfter
<1>7. SoundAt(t, n + 1)
  BY <1>2, <1>3, <1>4 DEF SoundAt
<1>8. SoundAt(t, n + 2)
  <2>1. (n + 1) + 1 = n + 2 /\ n + 1 # 0 /\ ~(n + 2 > (n + 1) + 2)
    BY <1>2
  <2>2. Control(t, n + 2) = n + 1
    BY <1>5, <2>1
  <2>3. QED
    BY <1>2, <2>1, <2>2 DEF SoundAt
<1>9. \A i \in (Len(u) + 1)..(Len(u) + Len(q)) : SoundAt(t, i)
  <2>1. \A i \in (Len(u) + 1)..(Len(u) + Len(q)) : i = n + 1 \/ i = n + 2
    BY <1>1, <1>2 DEF n
  <2>2. QED
    BY <1>7, <1>8, <2>1
<1>10. Sound(t)
  BY <1>1, <1>9, SoundGrows DEF t
<1>11. InStep(t, w)
  <2>1. /\ Len(t) = n + 2 /\ n + 1 < n + 2 /\ n + 2 - (n + 1) - 1 = 0 /\ n + 2 - (n + 2) = 0
        /\ 0 * FrameMs = 0
    BY <1>2, ClientAssumption DEF ClientAssumption
  <2>2. QED
    BY <1>2, <1>5, <1>6, <2>1 DEF InStep
<1>12. QED
  BY <1>10, <1>11 DEF t, q

(* One message more while the VAD speaks: what its place sees before it.   *)
LEMMA OneMore ==
  ASSUME NEW u \in Wire, NEW x \in Controls \cup Levels, NEW v \in Vads, v.speaking, InStep(u, v)
  PROVE  LET t == u \o <<x>>
             n == Len(u)
             c == Control(u, n + 1)
             l == LastLoud(u, c, n + 1)
         IN /\ t \in Wire /\ n \in Nat /\ Len(t) = n + 1 /\ t[n + 1] = x
            /\ c \in 0..n /\ l \in c..n
            /\ Control(t, n + 1) = c /\ LastLoud(t, c, n + 1) = l
            /\ c # 0 => /\ t[c] = "start" /\ c < n
                        /\ v.speechMs = (n - c - 1) * FrameMs
                        /\ v.speechMs = 0 \/ v.speechMs < MaxSpeechMs
                        /\ v.silenceMs = (n - l) * FrameMs
                        /\ v.speechMs + FrameMs = (n - c) * FrameMs
                        /\ v.silenceMs + FrameMs = (n + 1 - l) * FrameMs
<1> DEFINE q == <<x>>
           t == u \o q
           n == Len(u)
           c == Control(u, n + 1)
           l == LastLoud(u, c, n + 1)
<1>1. q \in Wire /\ Len(q) = 1 /\ q[1] = x
  BY DEF Wire
<1>2. /\ t \in Wire /\ n \in Nat /\ Len(t) = n + 1 /\ t[n + 1] = x
      /\ \A i \in 1..n : t[i] = u[i]
  BY <1>1 DEF Wire
<1>3. n + 1 \in 1..(n + 1) /\ (n + 1) - 1 = n
  BY <1>2
<1>4. c \in 0..n
  <2>1. c \in 0..((n + 1) - 1)
    BY <1>2, <1>3, ControlIs
  <2>2. QED
    BY <1>3, <2>1
<1>5. l \in c..n
  <2>1. c \in 0..((n + 1) - 1)
    BY <1>3, <1>4
  <2> HIDE DEF c
  <2>2. l \in c..((n + 1) - 1)
    BY <1>2, <1>3, <2>1, LastLoudIs
  <2>3. QED
    BY <1>3, <2>2
<1>6. Control(t, n + 1) = c /\ LastLoud(t, c, n + 1) = l
  BY <1>1, <1>3, SameBefore
<1>7. c # 0 => /\ u[c] = "start" /\ c < n
               /\ v.speechMs = (n - c - 1) * FrameMs
               /\ v.speechMs = 0 \/ v.speechMs < MaxSpeechMs
               /\ v.silenceMs = (n - l) * FrameMs
  BY DEF InStep
<1>8. c # 0 => t[c] = "start"
  BY <1>2, <1>4, <1>7
<1> HIDE DEF c, l, n
<1>9. /\ (n - c - 1) * FrameMs + FrameMs = (n - c) * FrameMs
      /\ (n - l) * FrameMs + FrameMs = (n + 1 - l) * FrameMs
  <2>1. /\ n - c - 1 \in Int /\ n - l \in Int
        /\ (n - c - 1) + 1 = n - c /\ (n - l) + 1 = n + 1 - l
    BY <1>2, <1>4, <1>5
  <2>2. /\ ((n - c - 1) + 1) * FrameMs = (n - c - 1) * FrameMs + FrameMs
        /\ ((n - l) + 1) * FrameMs = (n - l) * FrameMs + FrameMs
    BY <2>1, Times
  <2>3. QED
    BY <2>1, <2>2
<1>10. c # 0 => /\ v.speechMs + FrameMs = (n - c) * FrameMs
                /\ v.silenceMs + FrameMs = (n + 1 - l) * FrameMs
  BY <1>7, <1>9
<1>11. QED
  BY <1>2, <1>4, <1>5, <1>6, <1>7, <1>8, <1>10 DEF n, c, l

(* A frame of an utterance that goes on. *)
LEMMA FrameSounds ==
  ASSUME NEW u \in Wire, NEW v \in Vads, NEW w \in Vads, NEW x \in Levels,
         InStep(u, v), Sound(u), v.speaking, w.speaking,
         w.speechMs = v.speechMs + FrameMs, w.speechMs < MaxSpeechMs,
         w.silenceMs = IF x = "loud" THEN 0 ELSE v.silenceMs + FrameMs,
         x # "loud" => w.silenceMs < HangoverMs
  PROVE  Sound(u \o <<x>>) /\ InStep(u \o <<x>>, w)
<1> DEFINE q == <<x>>
           t == u \o q
           n == Len(u)
           c == Control(u, n + 1)
           l == LastLoud(u, c, n + 1)
<1>0. x \in Controls \cup Levels /\ x \notin Controls /\ x \in {"loud", "quiet"}
      /\ q \in Wire /\ Len(q) = 1
  BY DEF Controls, Levels, Wire
<1>1. /\ t \in Wire /\ n \in Nat /\ Len(t) = n + 1 /\ t[n + 1] = x
      /\ c \in 0..n /\ l \in c..n
      /\ Control(t, n + 1) = c /\ LastLoud(t, c, n + 1) = l
      /\ c # 0 => /\ t[c] = "start" /\ c < n
                  /\ v.speechMs = (n - c - 1) * FrameMs
                  /\ v.speechMs = 0 \/ v.speechMs < MaxSpeechMs
                  /\ v.silenceMs = (n - l) * FrameMs
                  /\ v.speechMs + FrameMs = (n - c) * FrameMs
                  /\ v.silenceMs + FrameMs = (n + 1 - l) * FrameMs
  BY <1>0, OneMore
<1> HIDE DEF q, t, n, c, l
<1>2. SoundAt(t, n + 1)
  <2>1. c # 0 /\ n + 1 > c + 2 => (n + 1 - 2 - c) * FrameMs < MaxSpeechMs
    <3>1. n + 1 - 2 - c = n - c - 1
      BY <1>1
    <3>2. n + 1 > c + 2 => n - c - 1 > 0 /\ n - c - 1 \in Int
      BY <1>1
    <3>3. n + 1 > c + 2 => (n - c - 1) * FrameMs > 0
      BY <3>2, Times
    <3>4. QED
      BY <1>1, <3>1, <3>3
  <2>2. c # 0 /\ x = "quiet" => (n + 1 - l) * FrameMs < HangoverMs
    BY <1>1
  <2>3. QED
    BY <1>0, <1>1, <2>1, <2>2 DEF SoundAt
<1>3. \A i \in (Len(u) + 1)..(Len(u) + Len(q)) : SoundAt(t, i)
  <2>1. \A i \in (Len(u) + 1)..(Len(u) + Len(q)) : i = n + 1
    BY <1>0, <1>1 DEF n
  <2>2. QED
    BY <1>2, <2>1
<1>4. Sound(t)
  BY <1>0, <1>3, SoundGrows DEF t
<1>5. Control(t, (n + 1) + 1) = c
  <2>1. n + 1 \in 1..Len(t)
    BY <1>1
  <2>2. QED
    BY <1>0, <1>1, <2>1, ControlAfter
<1>6. LastLoud(t, c, (n + 1) + 1) = IF x = "loud" THEN n + 1 ELSE l
  <2>1. n + 1 \in 1..Len(t) /\ c \in 0..((n + 1) - 1)
    BY <1>1
  <2>2. QED
    BY <1>1, <2>1, LastLoudAfter
<1>7. InStep(t, w)
  <2>1. ASSUME c # 0
        PROVE  /\ c < n + 1
               /\ w.speechMs = (n + 1 - c - 1) * FrameMs
               /\ w.silenceMs = (n + 1 - (IF x = "loud" THEN n + 1 ELSE l)) * FrameMs
    <3>1. n + 1 - c - 1 = n - c /\ c < n + 1 /\ n + 1 - (n + 1) = 0 /\ 0 * FrameMs = 0
      BY <1>1, ClientAssumption DEF ClientAssumption
    <3>2. QED
      BY <1>1, <2>1, <3>1
  <2>2. QED
    BY <1>1, <1>5, <1>6, <2>1 DEF InStep
<1>8. QED
  BY <1>4, <1>7 DEF t, q

(* The end of one: the ceiling is reached, or the learner has been silent  *)
(* for the hangover. *)
LEMMA EndSounds ==
  ASSUME NEW u \in Wire, NEW v \in Vads, NEW w, NEW x \in Levels,
         InStep(u, v), Sound(u), v.speaking, ~w.speaking,
         \/ v.speechMs + FrameMs >= MaxSpeechMs
         \/ x # "loud" /\ v.silenceMs + FrameMs >= HangoverMs
  PROVE  Sound(u \o <<"end">>) /\ InStep(u \o <<"end">>, w)
<1> DEFINE q == <<"end">>
           t == u \o q
           n == Len(u)
           c == Control(u, n + 1)
           l == LastLoud(u, c, n + 1)
<1>0. "end" \in Controls \cup Levels /\ "end" \in Controls /\ q \in Wire /\ Len(q) = 1
  BY DEF Controls, Wire
<1>1. /\ t \in Wire /\ n \in Nat /\ Len(t) = n + 1 /\ t[n + 1] = "end"
      /\ c \in 0..n /\ l \in c..n
      /\ Control(t, n + 1) = c /\ LastLoud(t, c, n + 1) = l
      /\ c # 0 => /\ t[c] = "start" /\ c < n
                  /\ v.speechMs = (n - c - 1) * FrameMs
                  /\ v.speechMs = 0 \/ v.speechMs < MaxSpeechMs
                  /\ v.silenceMs = (n - l) * FrameMs
                  /\ v.speechMs + FrameMs = (n - c) * FrameMs
                  /\ v.silenceMs + FrameMs = (n + 1 - l) * FrameMs
  BY <1>0, OneMore
<1> HIDE DEF q, t, n, c, l
<1>2. SoundAt(t, n + 1)
  <2>1. c # 0 /\ n + 1 > c + 2 => (n + 1 - 2 - c) * FrameMs < MaxSpeechMs
    <3>1. n + 1 - 2 - c = n - c - 1
      BY <1>1
    <3>2. n + 1 > c + 2 => n - c - 1 > 0 /\ n - c - 1 \in Int
      BY <1>1
    <3>3. n + 1 > c + 2 => (n - c - 1) * FrameMs > 0
      BY <3>2, Times
    <3>4. QED
      BY <1>1, <3>1, <3>3
  <2>2. c # 0 => \/ (n + 1 - 1 - c) * FrameMs >= MaxSpeechMs
                 \/ (n + 1 - l) * FrameMs >= HangoverMs
    <3>1. n + 1 - 1 - c = n - c
      BY <1>1
    <3>2. QED
      BY <1>1, <3>1
  <2>3. QED
    BY <1>1, <2>1, <2>2 DEF SoundAt
<1>3. \A i \in (Len(u) + 1)..(Len(u) + Len(q)) : SoundAt(t, i)
  <2>1. \A i \in (Len(u) + 1)..(Len(u) + Len(q)) : i = n + 1
    BY <1>0, <1>1 DEF n
  <2>2. QED
    BY <1>2, <2>1
<1>4. Sound(t)
  BY <1>0, <1>3, SoundGrows DEF t
<1>5. Control(t, (n + 1) + 1) = n + 1
  <2>1. n + 1 \in 1..Len(t)
    BY <1>1
  <2>2. QED
    BY <1>0, <1>1, <2>1, ControlAfter
<1>6. InStep(t, w)
  BY <1>1, <1>5 DEF InStep
<1>7. QED
  BY <1>4, <1>6 DEF t, q

-----------------------------------------------------------------------------
(* Every step keeps the VAD in step with the socket, as long as no         *)
(* microphone is an orphan.                                                *)

Listening(s) == mic[s] = "live" /\ socket[s] = "open" => InStep(up[s], vad[s])

Unused(s) ==
  /\ socket[s] \in {"none", "connecting"} => up[s] = <<>>
  /\ mic[s] \in {"off", "granted"} => up[s] = <<>> /\ ~vad[s].speaking

SpeakInv == orphans = {} => \A s \in Sessions : Listening(s) /\ Unused(s) /\ Sound(up[s])

LEMMA NothingSent ==
  ASSUME NEW v
  PROVE  Sound(<<>>) /\ InStep(<<>>, v)
<1>1. <<>> \in Wire /\ Len(<<>>) = 0 /\ DOMAIN <<>> = {} /\ 0 + 1 = 1 /\ 1 \in 1..(0 + 1)
  BY DEF Wire
<1>2. Control(<<>>, 1) \in 0..(1 - 1)
  BY <1>1, ControlIs
<1>3. Control(<<>>, 1) = 0
  BY <1>2
<1>4. Sound(<<>>)
  BY <1>1, SoundIsSoundAt
<1>5. QED
  BY <1>1, <1>3, <1>4 DEF InStep

LEMMA SpeakInit == Init => SpeakInv
BY NothingSent DEF Init, SpeakInv, Listening, Unused, Quiet

(* What moves sockets and microphones only to where nothing was sent, or   *)
(* out of use. *)
LEMMA SpeakStays ==
  ASSUME SpeakInv, UNCHANGED <<up, vad>>, orphans \subseteq orphans',
         \A r \in Sessions :
           \/ mic'[r] = mic[r] /\ socket'[r] = socket[r]
           \/ mic'[r] = mic[r] /\ socket[r] = "none" /\ socket'[r] = "connecting"
           \/ mic'[r] = mic[r] /\ socket[r] = "connecting" /\ socket'[r] = "open"
           \/ mic'[r] = mic[r] /\ socket'[r] \in {"closing", "closed"}
           \/ mic[r] = "off" /\ mic'[r] = "granted" /\ socket'[r] = socket[r]
           \/ mic[r] = "granted" /\ mic'[r] = "live" /\ socket'[r] = socket[r]
           \/ mic'[r] = "stopped" /\ socket'[r] \in {socket[r], "closing", "closed"}
  PROVE  SpeakInv'
<1> SUFFICES ASSUME orphans' = {}, NEW r \in Sessions
             PROVE  Listening(r)' /\ Unused(r)' /\ Sound(up[r])'
  BY DEF SpeakInv
<1>1. Listening(r) /\ Unused(r) /\ Sound(up[r]) /\ up'[r] = up[r] /\ vad'[r] = vad[r]
  BY DEF SpeakInv
<1>2. InStep(<<>>, vad[r])
  BY NothingSent
<1>3. Unused(r)'
  BY <1>1 DEF Unused
<1>4. Listening(r)'
  BY <1>1, <1>2 DEF Listening, Unused
<1>5. QED
  BY <1>1, <1>3, <1>4

LEMMA SpeakFrames ==
  ASSUME Inv, DataTypes, SpeakInv, NEW s \in Sessions, NEW frame \in Levels, Frame(s, frame)
  PROVE  SpeakInv'
<1> DEFINE after == OnLevel(vad[s], frame = "loud")
           sent  == ToSend(vad[s], after, frame)
           silenceMs == IF frame = "loud" THEN 0 ELSE vad[s].silenceMs + FrameMs
<1> SUFFICES ASSUME orphans = {} PROVE SpeakInv'
  BY DEF Frame, SpeakInv
<1>1. /\ mic[s] = "live" /\ s = transport /\ transport # 0
      /\ UNCHANGED <<transport, socket, mic, orphans>>
  <2>1. stage[s] = "done" /\ s \in On /\ s \notin Pending
    BY DEF Frame, Inv, Progress, On, Pending
  <2>2. QED
    BY <2>1, NobodyIsZero DEF Frame, Inv, Owned
<1>2. /\ after.vad # vad[s]
      /\ vad' = [vad EXCEPT ![s] = after.vad]
      /\ up' = IF socket[s] = "open" THEN [up EXCEPT ![s] = @ \o sent] ELSE up
  BY <1>1 DEF Frame
<1>3. /\ vad[s] \in Vads /\ up[s] \in Wire /\ vad'[s] = after.vad
      /\ \A r \in Sessions : r # s => vad'[r] = vad[r] /\ up'[r] = up[r]
  BY <1>2 DEF DataTypes, Wire
<1>4. after.vad \in Vads /\ after.call \in {"none", "start", "end"}
  BY <1>3, OnLevelTyped
<1>5. /\ after.call = "start"
            => /\ ~vad[s].speaking /\ after.vad.speaking
               /\ after.vad.silenceMs = 0 /\ after.vad.speechMs = 0
               /\ sent = <<"start", "loud">>
      /\ after.call = "end" => vad[s].speaking /\ ~after.vad.speaking /\ sent = <<"end">>
      /\ after.call = "none" /\ vad[s].speaking => after.vad.speaking /\ sent = <<frame>>
  BY <1>3, OnLevelSends
<1>6. after.call = "none" => vad[s].speaking
  <2>1. ~vad[s].speaking /\ after.call = "none" => after.vad = vad[s]
    BY DEF OnLevel
  <2>2. QED
    BY <1>2, <2>1
<1>7. vad[s].speaking =>
        /\ after.call = "end" => \/ vad[s].speechMs + FrameMs >= MaxSpeechMs
                                 \/ frame # "loud" /\ vad[s].silenceMs + FrameMs >= HangoverMs
        /\ after.call = "none" =>
             /\ after.vad.speechMs = vad[s].speechMs + FrameMs
             /\ after.vad.silenceMs = silenceMs
             /\ after.vad.speechMs < MaxSpeechMs
             /\ frame # "loud" => after.vad.silenceMs < HangoverMs
  <2> HIDE DEF after, silenceMs
  <2>1. ASSUME vad[s].speaking
        PROVE  /\ after.call = "end" => \/ vad[s].speechMs + FrameMs >= MaxSpeechMs
                                        \/ frame # "loud" /\ silenceMs >= HangoverMs
               /\ after.call = "none" =>
                    /\ after.vad.speechMs = vad[s].speechMs + FrameMs
                    /\ after.vad.silenceMs = silenceMs
                    /\ after.vad.speechMs < MaxSpeechMs
                    /\ frame # "loud" => silenceMs < HangoverMs
    BY <1>3, <2>1, OnLevelCounts DEF after, silenceMs
  <2>2. frame # "loud" => silenceMs = vad[s].silenceMs + FrameMs
    BY DEF silenceMs
  <2>3. QED
    BY <2>1, <2>2
<1> HIDE DEF after, sent
<1>8. Listening(s) /\ Unused(s) /\ Sound(up[s])
  BY DEF SpeakInv
<1>9. \A r \in Sessions : r # s => Listening(r)' /\ Unused(r)' /\ Sound(up[r])'
  BY <1>1, <1>3 DEF SpeakInv, Listening, Unused
<1>10. CASE socket[s] # "open"
  <2>1. up' = up
    BY <1>2, <1>10
  <2>2. Listening(s)' /\ Unused(s)' /\ Sound(up[s])'
    BY <1>1, <1>8, <1>10, <2>1 DEF Listening, Unused
  <2>3. QED
    BY <1>9, <2>2 DEF SpeakInv
<1>11. CASE socket[s] = "open"
  <2>1. up'[s] = up[s] \o sent
    BY <1>2, <1>11 DEF DataTypes
  <2>2. InStep(up[s], vad[s])
    BY <1>1, <1>8, <1>11 DEF Listening
  <2>3. Sound(up'[s]) /\ InStep(up'[s], vad'[s])
    <3>1. CASE after.call = "start"
      BY <1>3, <1>5, <1>8, <2>1, <2>2, <3>1, StartSounds
    <3>2. CASE after.call = "end"
      BY <1>3, <1>5, <1>7, <1>8, <2>1, <2>2, <3>2, EndSounds
    <3>3. CASE after.call = "none"
      BY <1>3, <1>4, <1>5, <1>6, <1>7, <1>8, <2>1, <2>2, <3>3, FrameSounds
    <3>4. QED
      BY <1>4, <3>1, <3>2, <3>3
  <2>4. Listening(s)' /\ Unused(s)'
    BY <1>1, <1>11, <2>3 DEF Listening, Unused
  <2>5. QED
    BY <1>9, <2>3, <2>4 DEF SpeakInv
<1>12. QED
  BY <1>10, <1>11

LEMMA SpeakNext == Inv /\ DataTypes /\ SpeakInv /\ [Next]_vars => SpeakInv'
<1> SUFFICES ASSUME Inv, DataTypes, SpeakInv, [Next]_vars PROVE SpeakInv'
  OBVIOUS
<1> USE DEF Inv, Types
<1>1. ASSUME NEW s \in Sessions, OpenSession(s), UNCHANGED <<mic, soundVars, serverVars, orphans>>,
             stage[s] \in {"uncalled", "resuming"}
      PROVE  SpeakInv'
  <2>1. socket[s] = "none" /\ socket' = [socket EXCEPT ![s] = "connecting"]
    BY <1>1 DEF OpenSession, Progress
  <2>2. QED
    BY <1>1, <2>1, SpeakStays DEF soundVars, serverVars
<1>2. ASSUME NEW s \in Sessions, Connect(s) PROVE SpeakInv'
  <2>1. CASE resumed
    BY <1>1, <1>2, <2>1 DEF Connect
  <2>2. CASE ~resumed
    BY <1>2, <2>2, SpeakStays DEF Connect, soundVars, serverVars
  <2>3. QED
    BY <2>1, <2>2
<1>3. ASSUME NEW s \in Sessions, Resume(s) PROVE SpeakInv'
  BY <1>1, <1>3 DEF Resume
<1>4. CASE Disconnect
  <2>1. /\ UNCHANGED <<up, vad>> /\ orphans \subseteq orphans' /\ transport \in Sessions
        /\ socket' = [socket EXCEPT ![transport] = Closing(@)]
        /\ mic' = IF capture = 0 THEN mic ELSE [mic EXCEPT ![capture] = "stopped"]
    BY <1>4 DEF Disconnect, serverVars
  <2>2. ASSUME NEW r \in Sessions
        PROVE  /\ mic'[r] \in {mic[r], "stopped"}
               /\ socket'[r] \in {socket[r], "closing", "closed"}
    BY <2>1 DEF Closing
  <2>3. QED
    BY <2>1, <2>2, SpeakStays
<1>5. ASSUME NEW s \in Sessions, Grant(s) PROVE SpeakInv'
  <2>1. mic[s] = "off" /\ mic' = [mic EXCEPT ![s] = "granted"]
    BY <1>5 DEF Grant, Progress
  <2>2. QED
    BY <1>5, <2>1, SpeakStays DEF Grant, soundVars, serverVars
<1>6. ASSUME NEW s \in Sessions, Captured(s) PROVE SpeakInv'
  <2>1. mic[s] = "granted" /\ mic' = [mic EXCEPT ![s] = "live"]
    BY <1>6 DEF Captured, Progress
  <2>2. QED
    BY <1>6, <2>1, SpeakStays DEF Captured, soundVars, serverVars
<1>7. ASSUME NEW s \in Sessions, Refuse(s) PROVE SpeakInv'
  BY <1>7, SpeakStays DEF Refuse, soundVars, serverVars
<1>8. ASSUME NEW s \in Sessions, NEW frame \in {"loud", "quiet"}, Frame(s, frame) PROVE SpeakInv'
  BY <1>8, SpeakFrames DEF Levels
<1>9. ASSUME NEW s \in Sessions, Open(s) PROVE SpeakInv'
  BY <1>9, SpeakStays DEF Open, soundVars, serverVars
<1>10. ASSUME NEW s \in Sessions, Closed(s) PROVE SpeakInv'
  BY <1>10, SpeakStays DEF Closed, soundVars
<1>11. ASSUME NEW s \in Sessions, HandleMessage(s) PROVE SpeakInv'
  BY <1>11, SpeakStays DEF HandleMessage
<1>12. ASSUME NEW s \in Sessions, ServerReads(s) \/ ServerSpeaks(s) PROVE SpeakInv'
  BY <1>12, SpeakStays DEF ServerReads, ServerSpeaks, soundVars
<1>13. CASE SourceEnded
  BY <1>13, SpeakStays DEF SourceEnded, serverVars
<1>14. CASE UNCHANGED vars
  BY <1>14, SpeakStays DEF vars, soundVars, serverVars
<1>15. QED
  BY <1>2, <1>3, <1>4, <1>5, <1>6, <1>7, <1>8, <1>9, <1>10, <1>11, <1>12, <1>13, <1>14 DEF Next

LEMMA SpeakAlways == Spec => []SpeakInv
<1>1. Inv => Types
  BY DEF Inv
<1>2. QED
  BY InvInit, InvNext, DataInit, DataNext, SpeakInit, SpeakNext, <1>1, PTL DEF Spec

(* Whatever is clicked, granted and closed, and whenever: a socket is      *)
(* given speech between a start and an end only, each start followed at    *)
(* once by the frame that caused it.  The callbacks of connect() send on   *)
(* whatever transport is now, and it is always the one their VAD is in     *)
(* step with, unless a microphone is an orphan. *)
THEOREM SpeechStaysFramed == Spec => []SpeechIsFramed
<1>1. SpeakInv => SpeechIsFramed
  BY DEF SpeakInv, SpeechIsFramed, Sound
<1>2. QED
  BY SpeakAlways, <1>1, PTL

(* No utterance on the wire is longer than the ceiling, none goes on       *)
(* through a silence of the hangover, and each ends for one of the two     *)
(* reasons: EnergyVad.onLevel, for every frame length, hangover and        *)
(* ceiling. *)
THEOREM UtterancesStayShort == Spec => []UtterancesAreShort
<1>1. SpeakInv => UtterancesAreShort
  BY DEF SpeakInv, UtterancesAreShort, Sound
<1>2. QED
  BY SpeakAlways, <1>1, PTL

=============================================================================
