----------------------------- MODULE VoiceClient -----------------------------
(***************************************************************************)
(* The browser client (web/src): the Connect button and the two functions  *)
(* behind it, the WebSocket of each session, the microphone with its       *)
(* voice activity detection, and the playback of the reply.                *)
(*                                                                         *)
(* JavaScript is single-threaded: an action is a callback, from its event  *)
(* to its return or to the next await that really waits.  Sessions are     *)
(* the calls of connect(), numbered; what a call creates (transport,       *)
(* vad, capture) has its number, and the module-level variables transport  *)
(* and capture hold a number or 0 for null.                                *)
(*                                                                         *)
(* Times are in ms.  A frame is loud or quiet.  The server at the other    *)
(* end is main.py, as far as the client can see it.                        *)
(***************************************************************************)
EXTENDS Integers, Sequences, SequencesExt

CONSTANTS
  FrameMs, HangoverMs, MaxSpeechMs,   \* the VadOptions
  MaxSessions,  \* bound: calls of connect()
  MaxFrames,    \* bound: frames that the VAD takes notice of
  MaxClauses,   \* bound: clauses a session's server sends
  MaxInFlight   \* bound: messages on their way to the client

ASSUME ClientAssumption ==
  /\ FrameMs \in Nat \ {0} /\ HangoverMs \in Nat /\ MaxSpeechMs \in Nat
  /\ MaxSessions \in Nat
  /\ MaxFrames \in Nat /\ MaxClauses \in Nat /\ MaxInFlight \in Nat

Sessions == 1..MaxSessions

VARIABLES
  enabled, label,      \* the button
  resumed,             \* the playback context is running
  transport, capture,  \* the module-level variables
  stage,    \* where each connect() is: "uncalled", "resuming", "asking" for
            \* the microphone, "loading" the worklet, "done" or "failed"
  socket,   \* readyState: "none", "connecting", "open", "closing", "closed"
  mic,      \* "off", "granted", "live" (framing), "stopped"
  vad,      \* [speaking, silenceMs, speechMs] of each EnergyVad
  pendingMeta, \* pendingAudioMeta of each transport, 0 for null
  sources,  \* the scheduled sources, in the order they play
  up,       \* what each socket was given to send
  down,     \* what is on its way to the client
  server,   \* the server's session: [read, turn, clauses, half, ended]
  frames,   \* frames taken notice of
  orphans   \* sessions whose microphone nobody can stop, see MicrophoneOwned

buttonVars == <<enabled, label, resumed>>
serverVars == <<up, down, server>>
soundVars  == <<vad, sources, pendingMeta, frames>>
vars == <<buttonVars, transport, capture, stage, socket, mic, soundVars, serverVars, orphans>>

Quiet == [speaking |-> FALSE, silenceMs |-> 0, speechMs |-> 0]

Init ==
  /\ enabled = TRUE /\ label = "Connect" /\ resumed = FALSE
  /\ transport = 0 /\ capture = 0
  /\ stage = [s \in Sessions |-> "uncalled"]
  /\ socket = [s \in Sessions |-> "none"]
  /\ mic = [s \in Sessions |-> "off"]
  /\ vad = [s \in Sessions |-> Quiet]
  /\ pendingMeta = [s \in Sessions |-> 0]
  /\ sources = <<>>
  /\ up = [s \in Sessions |-> <<>>] /\ down = [s \in Sessions |-> <<>>]
  /\ server = [s \in Sessions |->
                 [read |-> 0, turn |-> FALSE, clauses |-> 0, half |-> FALSE, ended |-> FALSE]]
  /\ frames = 0 /\ orphans = {}

-----------------------------------------------------------------------------
(* The button. *)

(* connect() up to `await startCapture`: the socket is created and the     *)
(* microphone asked for in one go.                                         *)
OpenSession(s) ==
  /\ stage' = [stage EXCEPT ![s] = "asking"]
  /\ transport' = s
  /\ socket' = [socket EXCEPT ![s] = "connecting"]

(* A click while transport is null.  The first one waits for the playback  *)
(* context; later ones find it running.                                    *)
Connect(s) ==
  /\ enabled /\ transport = 0
  /\ stage[s] = "uncalled" /\ \A r \in Sessions : r < s => stage[r] # "uncalled"
  /\ enabled' = FALSE
  /\ IF resumed THEN OpenSession(s)
     ELSE /\ stage' = [stage EXCEPT ![s] = "resuming"]
          /\ UNCHANGED <<transport, socket>>
  /\ UNCHANGED <<label, resumed, capture, mic, soundVars, serverVars, orphans>>

Resume(s) ==
  /\ stage[s] = "resuming"
  /\ resumed' = TRUE
  /\ OpenSession(s)
  /\ UNCHANGED <<enabled, label, capture, mic, soundVars, serverVars, orphans>>

Pending == {s \in Sessions : stage[s] \in {"asking", "loading"}}

Closing(state) == IF state = "closed" THEN "closed" ELSE "closing"

(* Mutant: the capture is forgotten, not stopped. *)
DisconnectForgets ==
  /\ enabled /\ transport # 0
  /\ capture' = 0
  /\ socket' = [socket EXCEPT ![transport] = Closing(@)]
  /\ transport' = 0
  /\ sources' = <<>>
  /\ label' = "Connect"
  /\ orphans' = orphans \cup Pending
  /\ UNCHANGED <<enabled, resumed, stage, mic, vad, pendingMeta, frames, serverVars>>

(* A click while there is a transport: disconnect(). *)
Disconnect ==
  /\ enabled /\ transport # 0
  /\ mic' = IF capture = 0 THEN mic ELSE [mic EXCEPT ![capture] = "stopped"]
  /\ capture' = 0
  /\ socket' = [socket EXCEPT ![transport] = Closing(@)]
  /\ transport' = 0
  /\ sources' = <<>>
  /\ label' = "Connect"
  /\ orphans' = orphans \cup Pending
  /\ UNCHANGED <<enabled, resumed, stage, vad, pendingMeta, frames, serverVars>>

-----------------------------------------------------------------------------
(* startCapture. *)

Grant(s) ==
  /\ stage[s] = "asking"
  /\ stage' = [stage EXCEPT ![s] = "loading"]
  /\ mic' = [mic EXCEPT ![s] = "granted"]
  /\ UNCHANGED <<buttonVars, transport, capture, socket, soundVars, serverVars, orphans>>

(* The worklet is there: frames flow, and connect() returns. *)
Captured(s) ==
  /\ stage[s] = "loading"
  /\ stage' = [stage EXCEPT ![s] = "done"]
  /\ mic' = [mic EXCEPT ![s] = "live"]
  /\ capture' = s
  /\ enabled' = TRUE /\ label' = "Disconnect"
  /\ UNCHANGED <<resumed, transport, socket, soundVars, serverVars, orphans>>

(* getUserMedia or addModule rejects: connect().catch.  The transport      *)
(* stays, and in the second case the microphone's tracks too.              *)
Refuse(s) ==
  /\ stage[s] \in {"asking", "loading"}
  /\ stage' = [stage EXCEPT ![s] = "failed"]
  /\ enabled' = TRUE
  /\ orphans' = IF mic[s] = "granted" THEN orphans \cup {s} ELSE orphans
  /\ UNCHANGED <<label, resumed, transport, capture, socket, mic, soundVars, serverVars>>

-----------------------------------------------------------------------------
(* The microphone: one frame, onLevel first and then onFrame. *)

(* Mutant: the silences of an utterance add up. *)
OnLevelAddingUp(v, loud) ==
  LET silenceMs == IF loud THEN v.silenceMs ELSE v.silenceMs + FrameMs
      speechMs  == v.speechMs + FrameMs
  IN  IF ~v.speaking
      THEN IF loud THEN [vad |-> [Quiet EXCEPT !.speaking = TRUE], call |-> "start"]
           ELSE [vad |-> v, call |-> "none"]
      ELSE IF speechMs >= MaxSpeechMs \/ (~loud /\ silenceMs >= HangoverMs)
           THEN [vad |-> [v EXCEPT !.speaking = FALSE, !.silenceMs = 0, !.speechMs = speechMs],
                 call |-> "end"]
           ELSE [vad |-> [speaking |-> TRUE, silenceMs |-> silenceMs, speechMs |-> speechMs],
                 call |-> "none"]

(* EnergyVad.onLevel: the new state and the callback it makes. *)
OnLevel(v, loud) ==
  LET silenceMs == IF loud THEN 0 ELSE v.silenceMs + FrameMs
      speechMs  == v.speechMs + FrameMs
  IN  IF ~v.speaking
      THEN IF loud THEN [vad |-> [Quiet EXCEPT !.speaking = TRUE], call |-> "start"]
           ELSE [vad |-> v, call |-> "none"]
      ELSE IF speechMs >= MaxSpeechMs \/ (~loud /\ silenceMs >= HangoverMs)
           THEN [vad |-> [v EXCEPT !.speaking = FALSE, !.silenceMs = 0, !.speechMs = speechMs],
                 call |-> "end"]
           ELSE [vad |-> [speaking |-> TRUE, silenceMs |-> silenceMs, speechMs |-> speechMs],
                 call |-> "none"]

(* Mutant: onFrame before onLevel. *)
ToSendFrameFirst(v, after, frame) ==
  (IF v.speaking THEN <<frame>> ELSE <<>>)
    \o (IF after.call = "none" THEN <<>> ELSE <<after.call>>)

(* What the frame makes the client send, if the socket is open. *)
ToSend(v, after, frame) ==
  (IF after.call = "none" THEN <<>> ELSE <<after.call>>)
    \o (IF after.vad.speaking THEN <<frame>> ELSE <<>>)

(* Mutant: audio goes on playing when the learner begins to speak. *)
PlayingAfterAll(call) == sources

PlayingAfter(call) == IF call = "start" THEN <<>> ELSE sources

(* The callbacks name the variable transport, not the one they were made   *)
(* with.                                                                   *)
Frame(s, frame) ==
  /\ mic[s] = "live" /\ frames < MaxFrames
  /\ LET after == OnLevel(vad[s], frame = "loud") IN
       /\ after.vad # vad[s]
       /\ vad' = [vad EXCEPT ![s] = after.vad]
       /\ sources' = PlayingAfter(after.call)
       /\ up' = IF transport # 0 /\ socket[transport] = "open"
                THEN [up EXCEPT ![transport] = @ \o ToSend(vad[s], after, frame)]
                ELSE up
  /\ frames' = frames + 1
  /\ UNCHANGED <<buttonVars, transport, capture, stage, socket, mic, pendingMeta,
                 down, server, orphans>>

-----------------------------------------------------------------------------
(* The socket's events. *)

Open(s) ==
  /\ socket[s] = "connecting"
  /\ socket' = [socket EXCEPT ![s] = "open"]
  /\ UNCHANGED <<buttonVars, transport, capture, stage, mic, soundVars, serverVars, orphans>>

(* onclose, of whichever transport: refused, closed by the server, lost,   *)
(* or closed by disconnect() some time ago.                                *)
Closed(s) ==
  /\ socket[s] \in {"connecting", "open", "closing"}
  /\ socket' = [socket EXCEPT ![s] = "closed"]
  /\ down' = [down EXCEPT ![s] = <<>>]
  /\ enabled' = TRUE /\ label' = "Connect"
  /\ UNCHANGED <<resumed, transport, capture, stage, mic, soundVars, up, server, orphans>>

Starts(s) == Cardinality({i \in DOMAIN up[s] : up[s][i] = "start"})

(* handleMessage: text is kept for the bytes that follow, bytes are queued *)
(* with the text that is kept; the other messages only change the HUD.     *)
HandleMessage(s) ==
  /\ socket[s] = "open" /\ down[s] # <<>>
  /\ down' = [down EXCEPT ![s] = Tail(@)]
  /\ LET m == Head(down[s]) IN
       \/ /\ m.type = "assistant_text"
          /\ pendingMeta' = [pendingMeta EXCEPT ![s] = m.clause]
          /\ UNCHANGED sources
       \/ /\ m.type = "bytes" /\ pendingMeta[s] # 0
          /\ sources' = Append(sources, [session |-> s, text |-> pendingMeta[s],
                                         audio |-> m.clause, starts |-> Starts(s)])
          /\ pendingMeta' = [pendingMeta EXCEPT ![s] = 0]
       \/ /\ m.type = "bytes" /\ pendingMeta[s] = 0
          /\ UNCHANGED <<sources, pendingMeta>>
       \/ /\ m.type \in {"turn_interrupted", "error"}
          /\ UNCHANGED <<sources, pendingMeta>>
  /\ UNCHANGED <<buttonVars, transport, capture, stage, socket, mic, vad, frames,
                 up, server, orphans>>

(* The first of the sources has been played. *)
SourceEnded ==
  /\ sources # <<>>
  /\ sources' = Tail(sources)
  /\ UNCHANGED <<buttonVars, transport, capture, stage, socket, mic, vad, pendingMeta,
                 frames, serverVars, orphans>>

-----------------------------------------------------------------------------
(* The server. *)

Emit(s, type, clause) ==
  down' = [down EXCEPT ![s] = Append(@, [type |-> type, clause |-> clause])]

(* The receive loop takes one message.  A speech_start interrupts a turn;  *)
(* at a speech_end there is a turn, or an error if a ceiling is reached,   *)
(* even between the two halves of a clause.                                *)
ServerReads(s) ==
  /\ socket[s] = "open" /\ server[s].read < Len(up[s]) /\ ~server[s].ended
  /\ Len(down[s]) < MaxInFlight
  /\ LET m == up[s][server[s].read + 1]
         read == server[s].read + 1 IN
       \/ /\ m = "start" /\ server[s].turn
          /\ server' = [server EXCEPT ![s].read = read, ![s].turn = FALSE]
          /\ Emit(s, "turn_interrupted", 0)
       \/ /\ m = "end"
          /\ server' = [server EXCEPT ![s].read = read, ![s].turn = TRUE]
          /\ UNCHANGED down
       \/ /\ m = "end"
          /\ server' = [server EXCEPT ![s].turn = FALSE, ![s].ended = TRUE]
          /\ Emit(s, "error", 0)
       \/ /\ m \in {"loud", "quiet"} \/ (m = "start" /\ ~server[s].turn)
          /\ server' = [server EXCEPT ![s].read = read]
          /\ UNCHANGED down
  /\ UNCHANGED <<buttonVars, transport, capture, stage, socket, mic, soundVars, up, orphans>>

(* The sender: the text of the next clause, then its bytes. *)
ServerSpeaks(s) ==
  /\ socket[s] = "open" /\ Len(down[s]) < MaxInFlight
  /\ \/ /\ server[s].turn /\ ~server[s].half /\ server[s].clauses < MaxClauses
        /\ server' = [server EXCEPT ![s].half = TRUE, ![s].clauses = @ + 1]
        /\ Emit(s, "assistant_text", server[s].clauses + 1)
     \/ /\ server[s].half
        /\ server' = [server EXCEPT ![s].half = FALSE]
        /\ Emit(s, "bytes", server[s].clauses)
  /\ UNCHANGED <<buttonVars, transport, capture, stage, socket, mic, soundVars, up, orphans>>

Next ==
  \/ Disconnect \/ SourceEnded
  \/ \E s \in Sessions :
       \/ Connect(s) \/ Resume(s) \/ Grant(s) \/ Captured(s) \/ Refuse(s)
       \/ \E frame \in {"loud", "quiet"} : Frame(s, frame)
       \/ Open(s) \/ Closed(s) \/ HandleMessage(s)
       \/ ServerReads(s) \/ ServerSpeaks(s)

Spec == Init /\ [][Next]_vars

-----------------------------------------------------------------------------
(* Properties. *)

(* Of what a socket was given to send: the last start or end before place  *)
(* i, 0 if there is none, and the last loud frame after that place c.      *)
Control(u, i)     == Max({0} \cup {j \in 1..(i - 1) : u[j] \in {"start", "end"}})
LastLoud(u, c, i) == Max({c} \cup {j \in 1..(i - 1) : u[j] = "loud"})

Framed(u) ==
  \A i \in DOMAIN u :
    LET c == Control(u, i) IN
      IF u[i] = "start"
      THEN /\ i = 1 \/ (c # 0 /\ u[c] = "end")
           /\ i < Len(u) /\ u[i + 1] = "loud"
      ELSE c = 0 \/ u[c] = "start"

(* What a server receives is speech between a start and an end, whatever   *)
(* was clicked, granted and closed in between: every start is followed at  *)
(* once by the loud frame that caused it, starts and ends alternate, and   *)
(* no frame comes outside.  One utterance may lack its start, the first:   *)
(* speech can begin while the socket is connecting, and what is sent then  *)
(* is lost.  A microphone nobody owns any more voids this.                 *)
SpeechIsFramed == orphans = {} => \A s \in Sessions : Framed(up[s])

EndsInTime(u) ==
  \A i \in DOMAIN u :
    LET c    == Control(u, i)
        loud == LastLoud(u, c, i)
    IN  c # 0 /\ u[i] # "start" =>
          /\ i > c + 2 => (i - 2 - c) * FrameMs < MaxSpeechMs
          /\ u[i] = "quiet" => (i - loud) * FrameMs < HangoverMs
          /\ u[i] = "end" => \/ (i - 1 - c) * FrameMs >= MaxSpeechMs
                             \/ (i - loud) * FrameMs >= HangoverMs

(* Why an utterance ended.  Those with both ends on the wire are no longer *)
(* than the ceiling allows: only their last frame may reach it.  A shorter *)
(* one ended because the learner had been silent for the hangover, counted *)
(* from the last loud frame only; and no utterance goes on through such a  *)
(* silence.                                                                *)
UtterancesAreShort == orphans = {} => \A s \in Sessions : EndsInTime(up[s])

(* At most one session is in use, and the button reaches what it uses.  No *)
(* socket is left connecting or open but the transport's.  A microphone    *)
(* that is on is the capture, or is still being set up, for the session of *)
(* the transport, and the two stop together.  The exceptions are orphans:  *)
(* a session disconnected while startCapture was pending, whose microphone *)
(* comes later and takes the place of the capture in use, and one whose    *)
(* worklet would not load.  Each costs one microphone at most.             *)
(* "Disconnect" is the button's label only while there is a session.       *)
On == {s \in Sessions : mic[s] \in {"granted", "live"}}

MicrophoneOwned ==
  /\ \A s \in Sessions : socket[s] \in {"connecting", "open"} => s = transport
  /\ Cardinality(On) <= Cardinality(orphans) + 1
  /\ orphans = {} =>
       /\ \A s \in On : s = transport /\ (s \in Pending \/ s = capture)
       /\ capture # 0 => capture = transport /\ mic[capture] = "live"
       /\ label = "Disconnect" => capture # 0

(* What is scheduled to play belongs to the session in use, each clause's  *)
(* bytes have the text that was sent for them, in the order they were      *)
(* sent, none twice, even if an error came between the two; and nothing    *)
(* plays that had arrived when the learner last began to speak.  A clause  *)
(* that was still on its way then is played.                               *)
PlaybackIsCurrent ==
  \A i \in DOMAIN sources :
    /\ sources[i].session = transport
    /\ sources[i].text = sources[i].audio
    /\ sources[i].starts = Starts(transport)
    /\ i > 1 => sources[i - 1].audio < sources[i].audio

=============================================================================
