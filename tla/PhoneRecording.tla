--------------------------- MODULE PhoneRecording ---------------------------
(***************************************************************************)
(* Recording with the phone's camera: the reducer of phoneRecordingState,  *)
(* driven by the buttons and callbacks of CapturePhoneScreen.              *)
(*                                                                         *)
(* The screen only learns what the camera does from callbacks that wait    *)
(* their turn on the JavaScript thread, while the user goes on tapping.    *)
(* The operating system's prompt and react-native-vision-camera are not in *)
(* the repository: the promises of a prompt resolve or are rejected; the   *)
(* camera records one take at a time, refuses a start while it records and *)
(* a stop while it does not, and ends a take after a stop, or by itself (a *)
(* call, a full disk).                                                     *)
(***************************************************************************)
EXTENDS Naturals, Sequences

CONSTANT MaxTakes   \* a bound on the takes of a behaviour

ASSUME RecordingAssumption == MaxTakes \in Nat \ {0}

VARIABLES
  state,    \* RecordingState; a URI is the number of its take, 0 is null
  device,   \* useCameraDevice found a camera
  allowed,  \* what the OS granted
  asking,   \* a requestPermissions call waits for its promises
  cam,      \* the take the camera records, or 0
  stopped,  \* stopRecording was called for that take
  inbox,    \* callbacks and rejections on their way to the screen
  takes,    \* takes started so far
  \* History, of the visit to the screen:
  done,     \* the newest take whose file the screen was told of
  alone,    \* the camera has ended a take nobody stopped
  rejected  \* a promise of the prompt was rejected

screenVars == <<state, device, allowed, asking, cam, stopped, inbox, takes, done, alone,
                rejected>>
visit == <<done, alone, rejected>>
camera == <<cam, stopped, takes>>
Devices == {"camera", "microphone"}
Statuses == {"unknown", "permission-pending", "permission-denied", "ready",
             "recording", "stopping", "idle-with-recording", "error"}

InitialState ==
  [status |-> "unknown", uri |-> 0, started |-> FALSE, permissionGranted |-> FALSE]
-----------------------------------------------------------------------------
(* recordingReducer: an event is ignored outside the statuses that expect it. *)

From(kind) ==
  CASE kind = "request-permission"  -> {"unknown", "permission-denied"}
    [] kind \in {"permission-granted", "permission-denied"} -> {"permission-pending"}
    [] kind = "start-recording"     -> {"ready", "idle-with-recording"}
    [] kind \in {"recording-started", "stop-recording"} -> {"recording"}
    [] kind = "recording-finalized" -> {"stopping"}
    [] kind = "error"               -> {"permission-pending", "recording", "stopping"}
    [] kind = "reset"               -> Statuses

\* Where reset goes.
Rested(s) == IF s.permissionGranted THEN "ready" ELSE "unknown"

After(s, kind, take) ==
  CASE kind = "request-permission"  -> [s EXCEPT !.status = "permission-pending"]
    [] kind = "permission-granted"  -> [s EXCEPT !.status = "ready", !.permissionGranted = TRUE]
    [] kind = "permission-denied"   -> [s EXCEPT !.status = kind, !.permissionGranted = FALSE]
    [] kind = "start-recording"     -> [s EXCEPT !.status = "recording"]
    [] kind = "recording-started"   -> [s EXCEPT !.started = TRUE]
    [] kind = "stop-recording"      -> [s EXCEPT !.status = "stopping"]
    [] kind = "recording-finalized" ->
         [s EXCEPT !.status = "idle-with-recording", !.uri = take, !.started = FALSE]
    [] kind = "error"               -> [s EXCEPT !.status = "error", !.started = FALSE]
    [] kind = "reset"               ->
         [s EXCEPT !.status = Rested(s), !.started = FALSE]

(* Faults of Reduce.                                                         *)

\* Every event but one is dealt with.
ReduceBut(s, kind, take, ignored) ==
  IF s.status \in From(kind) /\ ~ignored THEN After(s, kind, take) ELSE s

\* A take that follows another one is not started.
ReduceFirstTake(s, kind, take) ==
  ReduceBut(s, kind, take, kind = "start-recording" /\ s.status = "idle-with-recording")

\* The file is expected before the stop.
ReduceEarlyFile(s, kind, take) ==
  IF kind = "recording-finalized" /\ s.status = "recording" THEN After(s, kind, take)
  ELSE ReduceBut(s, kind, take, kind = "recording-finalized")

Reduce(s, kind, take) == IF s.status \in From(kind) THEN After(s, kind, take) ELSE s
Dispatch(kind) == state' = Reduce(state, kind, 0)
-----------------------------------------------------------------------------
ScreenInit ==
  /\ state = InitialState
  /\ device \in BOOLEAN /\ allowed \in SUBSET Devices /\ asking = FALSE
  /\ cam = 0 /\ stopped = FALSE /\ inbox = <<>> /\ takes = 0
  /\ done = 0 /\ alone = FALSE /\ rejected = FALSE

Granted == allowed = Devices

\* requestPermissions up to its await.
RequestPermissions ==
  /\ state.status \in {"unknown", "permission-denied"}
  /\ Dispatch("request-permission")
  /\ asking' = TRUE
  /\ UNCHANGED <<device, allowed, camera, inbox, visit>>

\* The effect that watches the two permission hooks.
PermissionEffect ==
  /\ state.status = "permission-pending" /\ Granted
  /\ Dispatch("permission-granted")
  /\ UNCHANGED <<device, allowed, asking, camera, inbox, visit>>

\* The user grants one of the two, in a prompt or in the settings: the hooks see
\* it at once ...
Answer ==
  /\ \E d \in Devices \ allowed : allowed' = allowed \cup {d}
  /\ UNCHANGED <<state, device, asking, camera, inbox, visit>>

\* ... and requestPermissions when its promises resolve.
PermissionsResolved ==
  /\ asking
  /\ Dispatch(IF Granted THEN "permission-granted" ELSE "permission-denied")
  /\ asking' = FALSE
  /\ UNCHANGED <<device, allowed, camera, inbox, visit>>

\* Nothing catches a rejection: no event is dispatched.
PermissionsRejected ==
  /\ asking
  /\ asking' = FALSE /\ rejected' = TRUE
  /\ UNCHANGED <<state, device, allowed, camera, inbox, done, alone>>

\* startRecording: without a device the error is dispatched to a reducer that
\* ignores it here; otherwise start, the native call and the time stamp.
StartRecording ==
  /\ state.status \in {"ready", "idle-with-recording"}
  /\ IF ~device
     THEN Dispatch("error") /\ UNCHANGED <<camera, inbox>>
     ELSE /\ state' = Reduce(Reduce(state, "start-recording", 0), "recording-started", 0)
          /\ IF cam = 0
             THEN /\ takes < MaxTakes
                  /\ takes' = takes + 1 /\ cam' = takes + 1 /\ stopped' = FALSE
                  /\ UNCHANGED inbox
             ELSE /\ Len(inbox) < MaxTakes
                  /\ inbox' = Append(inbox, [kind |-> "error", take |-> 0])
                  /\ UNCHANGED camera
  /\ UNCHANGED <<device, allowed, asking, visit>>

\* stopRecording, whose rejection is dispatched as an error.
StopRecording ==
  /\ state.status = "recording"
  /\ Dispatch("stop-recording")
  /\ IF cam # 0
     THEN stopped' = TRUE /\ UNCHANGED inbox
     ELSE inbox' = Append(inbox, [kind |-> "error", take |-> 0]) /\ UNCHANGED stopped
  /\ UNCHANGED <<device, allowed, asking, cam, takes, visit>>

Reset ==
  /\ state.status = "error"
  /\ Dispatch("reset")
  /\ UNCHANGED <<device, allowed, asking, camera, inbox, visit>>

\* The camera ends the take: onRecordingFinished or onRecordingError.
TakeEnds ==
  /\ cam # 0
  /\ \E kind \in {"recording-finalized", "error"} :
       inbox' = Append(inbox, [kind |-> kind, take |-> cam])
  /\ cam' = 0 /\ stopped' = FALSE /\ alone' = (alone \/ ~stopped)
  /\ UNCHANGED <<state, device, allowed, asking, takes, done, rejected>>

\* A callback reaches the screen.
Callback ==
  /\ inbox # <<>>
  /\ state' = Reduce(state, Head(inbox).kind, Head(inbox).take)
  /\ inbox' = Tail(inbox)
  /\ done' = IF Head(inbox).kind = "recording-finalized" THEN Head(inbox).take ELSE done
  /\ UNCHANGED <<device, allowed, asking, camera, alone, rejected>>

\* The user leaves: the camera view goes, and with it the state and whatever
\* its callbacks would have said.  A new visit starts afresh.
Leave ==
  /\ state # InitialState
  /\ state' = InitialState /\ asking' = FALSE
  /\ cam' = 0 /\ stopped' = FALSE /\ inbox' = <<>>
  /\ done' = 0 /\ alone' = FALSE /\ rejected' = FALSE
  /\ UNCHANGED <<device, allowed, takes>>

ScreenNext ==
  \/ RequestPermissions \/ PermissionEffect \/ Answer
  \/ PermissionsResolved \/ PermissionsRejected
  \/ StartRecording \/ StopRecording \/ Reset \/ TakeEnds \/ Callback \/ Leave

ScreenSpec == ScreenInit /\ [][ScreenNext]_screenVars

\* The JavaScript thread runs callbacks and effects, the camera ends what was
\* stopped, and the OS settles its prompt one way or the other.
ScreenFairSpec ==
  /\ ScreenSpec
  /\ WF_screenVars(Callback) /\ WF_screenVars(PermissionEffect)
  /\ WF_screenVars(stopped /\ TakeEnds)
  /\ WF_screenVars(PermissionsResolved \/ PermissionsRejected)
-----------------------------------------------------------------------------
ScreenTypeOK ==
  /\ state \in [status : Statuses, uri : 0..MaxTakes, started : BOOLEAN,
                permissionGranted : BOOLEAN]
  /\ {device, asking, stopped, alone, rejected} \subseteq BOOLEAN /\ allowed \subseteq Devices
  /\ takes \in 0..MaxTakes /\ cam \in 0..takes /\ done \in 0..takes
  /\ \A i \in 1..Len(inbox) :
       /\ inbox[i].kind \in {"recording-finalized", "error"}
       /\ inbox[i].take \in 0..takes

\* permissionGranted: recording and what surrounds it imply the permission; the
\* screen never takes a denied or unanswered prompt for a grant.
PermissionHeld ==
  state.status \in {"ready", "recording", "stopping", "idle-with-recording"} =>
    state.permissionGranted /\ allowed = Devices

\* While the user stays, the recording on show is never lost (error and reset
\* keep lastRecordingUri) nor replaced by an older one.
NeverOlder ==
  [][state'.uri >= state.uri \/ state' = InitialState]_screenVars

\* A stop does not hang: the screen leaves "stopping", with a file or an error.
StopSettles == state.status = "stopping" ~> state.status # "stopping"

Pending == state.status = "permission-pending"

\* A prompt does not hang unless a promise of it is rejected, and not even then once
\* both permissions are granted (the effect sees them without the promises).
PromptSettles == (Pending ~> ~Pending \/ rejected) /\ (Pending /\ Granted ~> ~Pending)

\* The screen stays pending only "until the OS settles - the deny event arrives via
\* the requestPermission promise".  The code breaks it: a rejection is not caught.
PromptDecides == Pending ~> ~Pending

\* RecordingState.lastRecordingUri is the "most recent finalized recording".
LatestShown == state.uri = done

\* The reducer is "the source of truth": the camera records only while the
\* screen says so.
ScreenKnows == cam # 0 => state.status \in {"recording", "stopping"}

\* Both hold as long as only the user ends takes: the screen follows the camera
\* through every order of its callbacks, failed takes and second tries.
FollowsCamera == ~alone => LatestShown /\ ScreenKnows

\* What the screen says is right: of the permission and of the camera.
ScreenRight == PermissionHeld /\ FollowsCamera

\* The screen moves on, and never back to an older take: no stop hangs, whatever
\* the camera answers and in which order, and a prompt only after a rejection.
MovesOn == NeverOlder /\ StopSettles /\ PromptSettles
=============================================================================
