--------------------------- MODULE SessionRecords ---------------------------
(***************************************************************************)
(* The part of routers/session.py that the coach and the pipeline use      *)
(* around the shots: sessions, uploaded recordings and their files, their  *)
(* alignment and calibrations, coaching notes, and what is read of them.   *)
(*                                                                         *)
(* A row that a request inserts has the number of the request for its id;  *)
(* number 0 was there before.                                              *)
(***************************************************************************)
EXTENDS Requests, Functions

CONSTANTS
  TenantOf,     \* the tenant of a principal
  Coaches,      \* principals of rank coach or above
  Questions     \* the requests that may be made: [op, who, arg]

VARIABLES
  sessions,      \* id -> tenant
  recordings,    \* id -> [session, tenant, offset, confidence]
  calibrations,  \* the rows, appended only
  notes,         \* the rows, appended only
  files          \* the storage: recording id -> "part" or "whole"

rows == <<sessions, recordings, calibrations, notes>>
vars == <<reqs, faults, rows, files>>

Unaligned == [offset |-> 0, confidence |-> 0]
Trivial == [offset |-> 1, confidence |-> 1]
RecordingOf(session, tenant, pair) ==
  [session |-> session, tenant |-> tenant, offset |-> pair.offset, confidence |-> pair.confidence]

\* A session of one tenant is there, perhaps with a recording that is aligned.
Init ==
  /\ RequestsInit
  /\ calibrations = {} /\ notes = {}
  /\ \E who \in Coaches, n \in 0..1 :
       /\ sessions = [s \in {0} |-> TenantOf[who]]
       /\ recordings = [r \in 1 - n..0 |-> RecordingOf(0, TenantOf[who], Trivial)]
       /\ files = [r \in DOMAIN recordings |-> "whole"]
-----------------------------------------------------------------------------
SessionInTenant(who, s) == s \in DOMAIN sessions /\ sessions[s] = TenantOf[who]

\* A fault of RecordingInTenant: the two ids are looked up each for itself.
RecordingInTenantEach(who, s, r) == r \in DOMAIN recordings /\ SessionInTenant(who, s)

RecordingInTenant(who, s, r) ==
  r \in DOMAIN recordings /\ recordings[r].session = s /\ SessionInTenant(who, s)

Of(table, s) == {r \in DOMAIN table : table[r].session = s}

\* What the endpoints that only read answer; {} stands for 404.
ListSessions(who) == {s \in DOMAIN sessions : SessionInTenant(who, s)}
GetSession(who, s) == {s} \cap ListSessions(who)
ListRecordings(who, s) == IF SessionInTenant(who, s) THEN Of(recordings, s) ELSE {}
GetRecording(who, s, r) == IF RecordingInTenant(who, s, r) THEN {r} ELSE {}

History(who, s, r) ==
  {c \in calibrations : RecordingInTenant(who, s, r) /\ c.recording = r /\ c.session = s}
Newest(table) == {c \in table : \A d \in table : d.ts <= c.ts}
Oldest(table) == {c \in table : \A d \in table : c.ts <= d.ts}
GetCalibration(who, s, r) == Newest(History(who, s, r))

\* How often the first error makes a new calibration advisable.
TriggerRatio == 2

\* The first calibration and the last, and what they advise.
Health(who, s, r) ==
  {[baseline |-> c, latest |-> d, recommended |-> c.error > 0 /\ d.error >= TriggerRatio * c.error] :
      c \in Oldest(History(who, s, r)), d \in GetCalibration(who, s, r)}

\* The newest note is one of these; the time of creation is left out.
GetNote(who, s) == {n \in notes : n.session = s /\ SessionInTenant(who, s)}
-----------------------------------------------------------------------------
\* What the schemas ask of a payload: both halves of an alignment, and matrices and
\* vectors of their shapes with a number of frames.
AlignmentIn(value) == DOMAIN value = {"offset", "confidence"}
CameraCalibrationIn(value) == value.shaped /\ value.frames >= 1 /\ value.error >= 0 /\ value.ts >= 0

\* Why a handler refuses, 0 when it does not: the rank, the payload, then what it
\* looks up.
GateOf(q, fits, found) ==
  IF q.who \notin Coaches THEN 403 ELSE IF ~fits THEN 422 ELSE IF ~found THEN 404 ELSE 0
Gate(q, found) == GateOf(q, TRUE, found)

CreateSession(q) == Gate(q, q.arg.value.org = TenantOf[q.who] /\ q.arg.value.athlete)
UploadRecording(q) == Gate(q, SessionInTenant(q.who, q.arg.session))
TriggerProcess(q) == Gate(q, SessionInTenant(q.who, q.arg.session))
Alignment(q) ==
  GateOf(q, AlignmentIn(q.arg.value), RecordingInTenant(q.who, q.arg.session, q.arg.recording))
Calibration(q) ==
  GateOf(q, CameraCalibrationIn(q.arg.value), RecordingInTenant(q.who, q.arg.session, q.arg.recording))
Summary(q) == IF SessionInTenant(q.who, q.arg.session) THEN 0 ELSE 404

\* The note must have its keys and name the session of the path.
NoteFits(q) == q.arg.value.keys /\ q.arg.value.session = q.arg.session
CreateNote(q) ==
  LET code == Gate(q, SessionInTenant(q.who, q.arg.session)) IN
  IF code = 0 /\ ~NoteFits(q) THEN 422 ELSE code

Refusal(q) ==
  CASE q.op = "create"    -> CreateSession(q)
    [] q.op = "upload"    -> UploadRecording(q)
    [] q.op = "process"   -> TriggerProcess(q)
    [] q.op = "align"     -> Alignment(q)
    [] q.op = "calibrate" -> Calibration(q)
    [] q.op = "note"      -> CreateNote(q)
    [] q.op = "summary"   -> Summary(q)

\* There are requests to these endpoints.  An offset of 0 stands for a column that is
\* null, which no alignment sets.
ASSUME SessionRecordsAssumption ==
  \A q \in Questions :
    /\ q.op \in {"create", "upload", "process", "align", "calibrate", "note", "summary"}
    /\ q.op = "align" /\ AlignmentIn(q.arg.value) => q.arg.value.offset # 0

Ask(q) == Arrive(Asked(q.op, q.who, q.arg)) /\ UNCHANGED <<rows, files>>

\* The workflow client logs the request; nothing is started, and no row changes.
Triggered(i) == Answers(i, 202)

\* The first reads of a handler.
Look(i) ==
  LET q == reqs[i] IN
  /\ q.phase = "received"
  /\ IF Refusal(q) # 0 THEN Answers(i, Refusal(q))
     ELSE CASE q.op = "process" -> Triggered(i)
            [] q.op = "align" -> Reads(i, recordings[q.arg.recording])
            [] OTHER -> Reads(i, None)
  /\ UNCHANGED <<faults, rows, files>>

Uploading(i) == reqs[i].op = "upload" /\ reqs[i].phase = "read"

\* store_upload opens the file of the recording to be ...
OpenFile(i) ==
  /\ Uploading(i) /\ i \notin DOMAIN files
  /\ files' = Insert(files, i, "part")
  /\ UNCHANGED <<reqs, faults, rows>>

\* ... and fills it, or takes it away when the upload is too large or empty ...
Store(i) ==
  LET file == reqs[i].arg.value IN
  /\ Uploading(i) /\ i \in DOMAIN files /\ files[i] = "part"
  /\ IF file = "whole" THEN files' = [files EXCEPT ![i] = "whole"] /\ UNCHANGED reqs
     ELSE files' = Restrict(files, DOMAIN files \ {i}) /\ Answers(i, IF file = "large" THEN 413 ELSE 400)
  /\ UNCHANGED <<faults, rows>>

\* ... unless the disk fails.
DiskFails(i) ==
  /\ Uploading(i) /\ i \in DOMAIN files /\ files[i] = "part"
  /\ Crashes(i) /\ Fault
  /\ UNCHANGED <<rows, files>>

\* The flush: an UPDATE waits for the lock of its row.  A fault: a row is
\* inserted while its file is being written.
WriteEarly(i) ==
  LET q == reqs[i] IN
  /\ q.phase = "read" /\ q.op \in {"create", "upload", "align", "calibrate", "note"}
  /\ q.op = "upload" => i \in DOMAIN files
  /\ q.op = "align" =>
       \A j \in Ids : Locks(j) /\ reqs[j].op = "align" => reqs[j].arg.recording # q.arg.recording
  /\ Flushes(i)
  /\ UNCHANGED <<faults, rows, files>>

Write(i) ==
  LET q == reqs[i] IN
  /\ q.phase = "read" /\ q.op \in {"create", "upload", "align", "calibrate", "note"}
  /\ q.op = "upload" => i \in DOMAIN files /\ files[i] = "whole"
  /\ q.op = "align" =>
       \A j \in Ids : Locks(j) /\ reqs[j].op = "align" => reqs[j].arg.recording # q.arg.recording
  /\ Flushes(i)
  /\ UNCHANGED <<faults, rows, files>>

\* The columns that differ from what the handler read are written.
Aligned(row, seen, value) ==
  [row EXCEPT !.offset = IF value.offset = seen.offset THEN @ ELSE value.offset,
              !.confidence = IF value.confidence = seen.confidence THEN @ ELSE value.confidence]

\* The rows the handlers insert.
SessionRow(q) == TenantOf[q.who]
RecordingRow(q) == RecordingOf(q.arg.session, TenantOf[q.who], Unaligned)
CalibrationRow(i, q) ==
  [id |-> i, session |-> q.arg.session, recording |-> q.arg.recording,
   tenant |-> TenantOf[q.who], ts |-> q.arg.value.ts, error |-> q.arg.value.error]
NoteRow(i, q) == [id |-> i, session |-> q.arg.session, tenant |-> TenantOf[q.who]]

Commit(i) ==
  LET q == reqs[i] IN
  /\ Commits(i)
  /\ Committed(i)
  /\ sessions' = IF q.op = "create" THEN Insert(sessions, i, SessionRow(q)) ELSE sessions
  /\ recordings' =
       CASE q.op = "upload" -> Insert(recordings, i, RecordingRow(q))
         [] q.op = "align"  -> [recordings EXCEPT ![q.arg.recording] = Aligned(@, q.seen, q.arg.value)]
         [] OTHER -> recordings
  /\ calibrations' = IF q.op = "calibrate" THEN calibrations \cup {CalibrationRow(i, q)} ELSE calibrations
  /\ notes' = IF q.op = "note" THEN notes \cup {NoteRow(i, q)} ELSE notes
  /\ UNCHANGED <<faults, files>>

\* The summary reads its counts one query after the other.
Count(i) ==
  LET q == reqs[i] found == Of(recordings, q.arg.session) IN
  /\ q.op = "summary" /\ q.phase = "read" /\ q.seen = None
  /\ Reads(i, [recordings |-> Cardinality(found),
               aligned |-> Cardinality({r \in found : recordings[r].offset # 0})])
  /\ UNCHANGED <<faults, rows, files>>

AlignmentComplete(i) == reqs[i].seen.recordings <= 1 \/ reqs[i].seen.aligned = reqs[i].seen.recordings
Calibrated(s) == {c.recording : c \in {d \in calibrations : d.session = s}}
\* A fault of CalibrationComplete: one calibrated recording will do.
CalibrationSome(i) ==
  reqs[i].seen.recordings > 0 /\ Calibrated(reqs[i].arg.session) # {}
CalibrationComplete(i) ==
  reqs[i].seen.recordings > 0 /\ Cardinality(Calibrated(reqs[i].arg.session)) = reqs[i].seen.recordings

Conclude(i) ==
  /\ reqs[i].op = "summary" /\ reqs[i].phase = "read" /\ reqs[i].seen # None
  /\ Answers(i, 200)
  /\ UNCHANGED <<faults, rows, files>>

Settled(i) == reqs[i].phase \in {"answered", "told"} /\ reqs[i].txn # "due"

\* The process stops: what was not committed is lost, the files stay.
Halt ==
  /\ Fault
  /\ reqs' = [i \in Ids |-> IF Settled(i) THEN reqs[i]
                ELSE [reqs[i] EXCEPT !.phase = "told", !.txn = "lost", !.seen = None]]
  /\ UNCHANGED <<rows, files>>

\* The answer goes out before the commit; after it, it changes nothing more.
Tell(i) ==
  /\ reqs[i].phase = "answered" /\ reqs[i].txn = "due"
  /\ reqs' = [reqs EXCEPT ![i].phase = "told"]
  /\ UNCHANGED <<faults, rows, files>>

Next ==
  \/ \E q \in Questions : Ask(q)
  \/ \E i \in Ids : \/ Look(i) \/ OpenFile(i) \/ Store(i) \/ DiskFails(i) \/ Write(i) \/ Commit(i)
                    \/ Count(i) \/ Conclude(i) \/ Tell(i)
                    \/ (Respond(i) \/ Rollback(i)) /\ UNCHANGED <<rows, files>>
  \/ Halt

Spec == Init /\ [][Next]_vars
-----------------------------------------------------------------------------
TypeOK ==
  /\ DOMAIN sessions \subseteq 0..MaxRequests
  /\ DOMAIN recordings \subseteq 0..MaxRequests
  /\ \A r \in DOMAIN recordings : recordings[r].session \in DOMAIN sessions
  /\ \A c \in calibrations : c.recording \in DOMAIN recordings
  /\ DOMAIN files \subseteq 0..MaxRequests
  /\ faults \in 0..MaxFaults

(* Whatever stops an upload, a recording that has a row has its whole file *)
(* (upload_recording stores before it inserts); and a file without a row   *)
(* belongs to an upload that still runs or that was lost to a failure: a   *)
(* refused upload leaves nothing behind (store_upload takes it away).      *)
FilesAndRows ==
  /\ \A r \in DOMAIN recordings : r \in DOMAIN files /\ files[r] = "whole"
  /\ \A f \in DOMAIN files \ DOMAIN recordings : ~Settled(f) \/ reqs[f].txn = "lost"

(* What any endpoint shows is of the caller's tenant, and hangs below the  *)
(* ids of the path, although calibrations are looked up by ids alone.      *)
ReadsStayInTenant ==
  \A who \in {q.who : q \in Questions}, s \in DOMAIN sessions :
    /\ \A r \in ListRecordings(who, s) : recordings[r].tenant = TenantOf[who]
    /\ \A n \in GetNote(who, s) : n.tenant = TenantOf[who]
    /\ \A r \in DOMAIN recordings :
         /\ GetRecording(who, s, r) # {} => GetSession(who, recordings[r].session) # {}
         /\ \A h \in Health(who, s, r) : {h.baseline.tenant, h.latest.tenant} = {TenantOf[who]}

(* The queries of a summary are not one snapshot; still, unless a          *)
(* recording came in between them, a session that it calls calibrated has  *)
(* a calibration of every recording and one that it calls aligned has      *)
(* every offset, or a single recording (get_session_summary).              *)
Concluded(i) == reqs[i].op = "summary" /\ reqs[i].seen # None /\ reqs'[i].seen = None /\ reqs'[i].answer = 200
ReadyUnlessOvertaken ==
  [][\A i \in Ids : LET found == Of(recordings, reqs[i].arg.session) IN
       Concluded(i) /\ Cardinality(found) = reqs[i].seen.recordings =>
         /\ CalibrationComplete(i) => found \subseteq Calibrated(reqs[i].arg.session)
         /\ AlignmentComplete(i) => Cardinality(found) <= 1 \/ \A r \in found : recordings[r].offset # 0]_vars
=============================================================================
