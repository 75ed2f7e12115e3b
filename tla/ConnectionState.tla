-------------------------- MODULE ConnectionState --------------------------
(***************************************************************************)
(* StateMachine of the camera core: the connection state of one camera,    *)
(* published on a watch channel, changed by callers that validate their    *)
(* step against the matrix of ConnectionState::allowed_transitions.        *)
(*                                                                         *)
(* transition() and transition_to_errored() take no lock around the whole: *)
(* they read the current state, then touch last_error under its mutex,     *)
(* then publish.  Each is a step of its own here, so that several callers, *)
(* take_last_error() and the subscribers interleave with it.               *)
(***************************************************************************)

CONSTANTS
  Callers,      \* threads that drive the machine
  Subscribers,  \* watch receivers
  Kinds,        \* the CameraError values passed to transition_to_errored
  NoError       \* the absence of an error

ASSUME ConnectionAssumption == NoError \notin Kinds

States ==
  {"Disconnected", "Discovering", "BlePairing", "BleConnected",
   "WifiActivating", "WifiConnected", "UsbcConnected", "ReadyForRecording",
   "Recording", "RecordingPaused", "FileTransferring", "Disconnecting",
   "Errored"}

VARIABLES
  state,      \* the value of the watch channel
  lastError,  \* last_error
  pc,         \* pc[c]: where caller c stands in its call
  want,       \* want[c]: the requested state
  kind,       \* kind[c]: the error it carries, or NoError for a plain transition
  result,     \* result[c]: what its last call returned
  unseen,     \* the receivers with a change they have not observed
  view,       \* view[s]: the state last observed by s, "none" before subscribe
  \* History, for the properties:
  kindless,   \* Errored was entered without a kind, or the kind was consumed
  transport   \* what the camera was joined by since BLE: "none", "wifi", "usbc"

connectionVars == <<state, lastError, pc, want, kind, result, unseen, view, kindless, transport>>
history == <<kindless, transport>>
published == <<state, unseen, view, transport>>

\* The transition matrix.
Moves(s) ==
  CASE s = "Disconnected" -> {"Discovering", "Errored"}
    [] s = "Discovering" -> {"BlePairing", "Errored", "Disconnecting"}
    [] s = "BlePairing" -> {"BleConnected", "Errored", "Disconnecting"}
    [] s = "BleConnected" ->
         {"WifiActivating", "UsbcConnected", "Disconnecting", "Errored"}
    [] s = "WifiActivating" -> {"WifiConnected", "Errored", "Disconnecting"}
    [] s = "WifiConnected" ->
         {"ReadyForRecording", "WifiActivating", "Disconnecting", "Errored"}
    [] s = "UsbcConnected" -> {"ReadyForRecording", "Disconnecting", "Errored"}
    [] s = "ReadyForRecording" -> {"Recording", "Disconnecting", "Errored"}
    [] s = "Recording" ->
         {"RecordingPaused", "FileTransferring", "Errored", "Disconnecting"}
    [] s = "RecordingPaused" ->
         {"Recording", "FileTransferring", "Errored", "Disconnecting"}
    [] s = "FileTransferring" -> {"Disconnecting", "Errored"}
    [] s = "Disconnecting" -> {"Disconnected", "Errored"}
    [] s = "Errored" -> {"Discovering", "BleConnected", "Disconnecting"}
-----------------------------------------------------------------------------
(* Faults, each the mutated form of the definition its comment names.        *)

\* CanMove: the federation shortcut of BleConnected skips the tethering too.
CanMoveUntethered(from, to) ==
  \/ to \in Moves(from)
  \/ from = "BleConnected" /\ to = "ReadyForRecording"

\* Record: the prior error is left in place when moving forward.
RecordKeeps(c) ==
  /\ pc[c] = "checked"
  /\ lastError' = IF want[c] = "Errored" /\ kind[c] # NoError THEN kind[c] ELSE lastError
  /\ pc' = [pc EXCEPT ![c] = "recorded"]
  /\ kindless' = (want[c] = "Errored" /\ kind[c] = NoError)
  /\ UNCHANGED <<want, kind, result, published>>
-----------------------------------------------------------------------------
CanMove(from, to) == to \in Moves(from)

ConnectionInit ==
  /\ state = "Disconnected" /\ lastError = NoError
  /\ pc = [c \in Callers |-> "idle"]
  /\ want = [c \in Callers |-> "Disconnected"]
  /\ kind = [c \in Callers |-> NoError]
  /\ result = [c \in Callers |-> "none"]
  /\ unseen = {} /\ view = [s \in Subscribers |-> "none"]
  /\ kindless = FALSE /\ transport = "none"
-----------------------------------------------------------------------------
Refuse(c) == result' = [result EXCEPT ![c] = "forbidden"] /\ UNCHANGED <<pc, want, kind>>

\* transition(to) with k = NoError, transition_to_errored(k) otherwise: read the
\* current state and consult the matrix.
Check(c, to, k) ==
  /\ pc[c] = "idle"
  /\ IF CanMove(state, to)
     THEN /\ pc' = [pc EXCEPT ![c] = "checked"]
          /\ want' = [want EXCEPT ![c] = to]
          /\ kind' = [kind EXCEPT ![c] = k]
          /\ result' = [result EXCEPT ![c] = "none"]
     ELSE Refuse(c)
  /\ UNCHANGED <<lastError, published, kindless>>

Call(c) ==
  \/ \E to \in States \ {"Errored"} : Check(c, to, NoError)
  \/ \E k \in Kinds \cup {NoError} : Check(c, "Errored", k)

\* Clear the error, or store the one carried; transition(Errored) does neither.
Record(c) ==
  /\ pc[c] = "checked"
  /\ lastError' = IF want[c] # "Errored" THEN NoError
                  ELSE IF kind[c] # NoError THEN kind[c] ELSE lastError
  /\ pc' = [pc EXCEPT ![c] = "recorded"]
  /\ kindless' = (want[c] = "Errored" /\ kind[c] = NoError)
  /\ UNCHANGED <<want, kind, result, published>>

\* send_replace: the slot is updated and every receiver marked changed.
Notified(to) ==
  /\ state' = to
  /\ unseen' = {s \in Subscribers : view[s] # "none"}
  /\ UNCHANGED view

Publish(c) ==
  /\ pc[c] = "recorded"
  /\ Notified(want[c])
  /\ pc' = [pc EXCEPT ![c] = "idle"]
  /\ result' = [result EXCEPT ![c] = "ok"]
  /\ transport' = CASE want[c] = "WifiConnected" -> "wifi"
                    [] want[c] = "UsbcConnected" -> "usbc"
                    [] want[c] \in {"ReadyForRecording", "Recording",
                         "RecordingPaused", "FileTransferring"} -> transport
                    [] OTHER -> "none"
  /\ UNCHANGED <<lastError, want, kind, kindless>>

\* take_last_error(): anybody may consume the error.
TakeLastError ==
  /\ lastError # NoError
  /\ lastError' = NoError /\ kindless' = TRUE
  /\ UNCHANGED <<pc, want, kind, result, published>>

\* subscribe() counts the current value as seen.
Subscribe(s) ==
  /\ view[s] = "none"
  /\ view' = [view EXCEPT ![s] = state]
  /\ UNCHANGED <<state, unseen, lastError, pc, want, kind, result, history>>

\* changed().await and borrow(): only the latest value is ever delivered.
Observe(s) ==
  /\ s \in unseen
  /\ view' = [view EXCEPT ![s] = state]
  /\ unseen' = unseen \ {s}
  /\ UNCHANGED <<state, lastError, pc, want, kind, result, history>>

ConnectionNext ==
  \/ \E c \in Callers : Call(c) \/ Record(c) \/ Publish(c)
  \/ \E s \in Subscribers : Subscribe(s) \/ Observe(s)
  \/ TakeLastError

ConnectionSpec == ConnectionInit /\ [][ConnectionNext]_connectionVars
-----------------------------------------------------------------------------
ConnectionTypeOK ==
  /\ state \in States
  /\ lastError \in Kinds \cup {NoError}
  /\ pc \in [Callers -> {"idle", "checked", "recorded"}]
  /\ want \in [Callers -> States]
  /\ kind \in [Callers -> Kinds \cup {NoError}]
  /\ result \in [Callers -> {"none", "ok", "forbidden"}]
  /\ unseen \subseteq Subscribers
  /\ view \in [Subscribers -> States \cup {"none"}]
  /\ kindless \in BOOLEAN
  /\ transport \in {"none", "wifi", "usbc"}

\* last_error matches the state for whoever consults both (struct doc): an
\* Errored machine has the kind it was given unless it was consumed or somebody is
\* on the way out, and no other state has one unless somebody is on the way in.
Going(s) == \E c \in Callers : pc[c] # "idle" /\ want[c] = s
ErrorKindKept ==
  /\ state = "Errored" /\ lastError = NoError
       => kindless \/ \E s \in Moves("Errored") : Going(s)
  /\ state # "Errored" /\ lastError # NoError => Going("Errored")

\* A receiver that has nothing unseen shows the current state.
ViewCurrent ==
  \A s \in Subscribers : view[s] # "none" /\ s \notin unseen => view[s] = state

\* What others see of the machine is right, at every await of a transition.
SeenRight == ErrorKindKept /\ ViewCurrent

\* Footage is only recorded or transferred over a transport joined since BLE
\* came up, by Wi-Fi or, for federation, USB-C (the comments of the matrix).
TransportUp ==
  state \in {"ReadyForRecording", "Recording", "RecordingPaused", "FileTransferring"}
    => transport # "none"
=============================================================================
