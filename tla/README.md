# AIMVISION: models, checks and proofs

A verification project kept beside the AIMVISION monorepo. It contains TLA+ modules that
model the parts of the system that keep state and run concurrently, TLC configurations
that check them on small instances, and theorems that TLAPS proves for every value of the
constants. Paths below are relative to the repository; these prefixes are used:

| Prefix | Directory |
|---|---|
| `C/` | `aimvision-camera-core/crates` (Rust) |
| `M/` | `aimvision-mobile/src` (TypeScript, React Native) |
| `B/` | `aimvision-backend/app` (Python, FastAPI, SQLAlchemy, Temporal) |
| `L/` | `aimvision-ml/src/aimvision_ml` (Python) |

Contents: [1 The system](#1-the-system) · [2 Modules and code](#2-modules-and-code) ·
[3 Runs](#3-runs) · [4 Bounds](#4-bounds) · [5 Fairness](#5-fairness) ·
[6 Proofs](#6-proofs) · [7 Disagreements found](#7-disagreements-found) ·
[8 Not modelled](#8-not-modelled) · [9 Plan](#9-plan)

To repeat everything: `tlc -workers 2 -config X.cfg MC_Y` for each configuration (each
takes at most about two and a half minutes), `tlapm YProofs.tla` for each proof module.

## 1. The system

AIMVISION records athletes (clay shooting is the reference sport) with one or several
cameras, finds the shots in the recordings, and hands coaches drafts, diagnostics and
review queues. A phone controls external cameras through the Rust camera core or records
itself; it stores its rows offline and syncs them; the backend keeps sessions, shots and
events per tenant; ML workers and Temporal workflows process a session after it ended.

```
 CapturePhoneScreen ── frames ──> PhoneCamera (rings) ──> ML consumer
        │                              camera core:
        │                    StateMachine   CommandQueue ──> camera
        ▼
 SyncEngine (local rows) ──push/pull──> backend  <──POST shots, events, PATCH end── ML worker
                                          │  sessions, shots, events, review items,
                                          │  audit chain, erasure, consent
                                          └──trigger──> ProcessSession workflow ──finalize──┘
```

| Component | Code | State | Operations | Interacts with | Hard behaviour | What makes it correct |
|---|---|---|---|---|---|---|
| Camera command queue | `C/aimvision-camera-state/src/command_queue.rs` | bounded mpsc channel, one worker task, in-flight permit, oneshot replies | `submit`, `submit_with_retry`, drop of a future, drop of the queue | callers (UI, recording), camera closure | back pressure, a watchdog around all retries, abandoned callers, panicking closures, shutdown | every caller is answered once; retry budget; the camera is not asked again after the answer; one command is worked on at a time, in order |
| Connection state machine | `C/aimvision-camera-state/src/state_machine.rs`, `C/aimvision-camera-traits/src/state.rs` | watch channel value, `last_error` | `transition`, `transition_to_errored`, `take_last_error`, `subscribe` | camera drivers, UI observers | read, record and publish are not one step | transitions stay in the matrix; the error's kind goes with the state |
| Phone camera | `C/aimvision-camera-phone/src/phone_camera.rs` | two ring buffers, two atomic drop counters | push, poll, `stats` | frame-processor worklet, audio thread, ML consumer, metrics | overflow drops the oldest; counters outside of the locks; several threads | every push is accounted for; order; only the oldest go |
| Native frame sink | `aimvision-mobile/plugins/phone-frame-sink` | handle of the Rust camera, sequence counter | `callback` | vision-camera, Phone camera | library missing; several frame processors share the counter | numbering, no push without a handle |
| Phone capture screen | `M/capture/phoneRecordingState.ts`, `M/screens/capture/CapturePhoneScreen.tsx` | reducer state, camera ref | permissions, start, stop, reset, callbacks, unmount | OS prompt, react-native-vision-camera | callbacks queue behind taps; the camera ends takes by itself | screen and camera agree; no stop hangs, nor a prompt unless its promise is rejected |
| Mobile sync | `M/sync/{engine,conflict,protocol,schema}.ts` | local rows with `_status`, `_changed`, `server_id`; cursor | `syncOnce` (pull, resolve, push, acknowledge), user edits | local store, sync endpoint, other devices | edits at every await, conflicts, lost responses, rejected rows, partial acknowledgements | the cursor never skips; what is dirty stays until the server has it; the device converges; what goes astray does so in known ways only |
| Session ingest API | `B/routers/session.py`, `B/models/session.py`, `B/db.py` | sessions, shots, shot events | `ingest_shot`, `append_shot_event`, `end_session` (and the rest of the router) | ML worker, workflow, mobile app | read-decide-write over awaits; unique index as the backstop; commit before or after the answer | a shot and an event are stored once, never changed; the end time stays |
| Post-session pipeline | `L/ingest/`, `B/workflows/`, `B/services/ingest_client.py` | position of a run, retry attempts | `run_post_session`, `ProcessSession` | Session ingest API, Temporal | whole-run restarts while the abandoned handler still runs; several runs of a session | success means everything is stored; the partial badge is honest; runs end |
| Active learning queue | `B/routers/active_learning.py` | review items | enqueue, claim, label, discard | coaches, training, audit | two coaches act on one item they both read as pending | only the claimant labels; a labelled item is left only by a stale discard |
| Audit chain | `B/services/audit.py`, `B/middleware/audit.py` | hash chain per tenant | append, verify | every answer to a principal | read last hash, then insert, without a lock; a clock that need not advance; an append that fails | verification stumbles over nothing but overlaps and the clock; a write that was answered is in the trail (it is not, §7) |
| Session recordings and calibration | `B/routers/session.py`, `B/services/storage.py`, `B/services/workflows.py` | sessions, recordings, their files, alignments, calibrations, notes | create, upload, align, calibrate, note, summary, reads, trigger | storage, ML worker, coach | file written before its row; counts of a summary taken in several queries; PATCHes that overlap | a row has its whole file; nobody reads another tenant's rows; a summary does not claim what was not there |
| Accounts, tenancy | `B/routers/auth.py`, `B/services/{auth,auth_gotrue,authz,tenancy}.py`, `B/db.py`, `B/deps.py`, migrations 0003–0005 | users, memberships, tokens, pool connections with their setting | signup, login, exchange, every scoped session | every request | check then insert; settings of a pooled connection; policies that bind or not | a session sees its own tenant; ranks of roles |
| Erasure, crypto-shred | `B/services/erasure.py`, `B/services/crypto_shred.py` | tickets, tenant keys, users | submit, execute; ensure, encrypt, shred | accounts, every tenant row | overlapping executions; a key created during the shredding | no usable key and no live user after completion |
| Consent | `B/routers/consent.py` | grants | grant, revoke | guardians, mobile | several grants of one purpose | what was withdrawn stays withdrawn |
| Progress and federation reports | `B/services/longitudinal.py`, `B/routers/{athletes,federation,cohorts,orgs}.py` | none of their own | progress, overview, clubs, cohorts, orgs | sessions, memberships | rows that a join leaves out, newest-n windows, medians | the newest sessions in order; silent athletes are counted |
| ML notes | `L/llm/` | none between calls | strip, prompt, generate, validate, verify, degrade | LLM host | a retry loop whose every path must end well; the order of redactions | no unverified text is returned as verified; nothing personal leaves in the goal that the patterns and the record's name can find |
| ML shot detection and alignment | `L/inference/audio_shot.py`, `audio_xcorr.py`, `L/eval/audio_detection_eval.py` | none | detect, correlate, align, score | post-session run | refractory gap, windows at the ends, sign of the lag | no shot twice; the offset is the delay |
| ML evaluation and sampling | `L/eval/{metrics,gates,stratify,diagnostic_eval}.py`, `L/inference/{calibration,diagnostic}.py`, `L/training/active_learning.py` | none | metrics, gates, conformal sets, core sets, primary cause | training, promotion | bins, quantiles, small supports | a model that passes deserves it |
| ML exclusion list | `L/data/{exclusion_list,provenance}.py` | file of hashes, cache per process | add, contains, reload, filter | training processes | caches of several processes on one file | what a process knows to be excluded is not trained on |
| Camera mock | `C/aimvision-camera-mock` | windows, faults, virtual clock | advance, apply fault | tests | faults at the edges of windows | scripted faults fire |
| Camera calibration, pose, training, export, registry | `L/inference`, `L/training`, `L/export`, `L/registry` | files | batch computations | – | numeric | – |
| Web, screens, drills, infrastructure, migrations | `aimvision-web`, `M/screens`, `M/components`, `aimvision-infra`, `alembic` | – | pages, forms, lists, manifests | – | – | – |

PROJECT.json lists the same components with what is modelled of each, and the hazards of
the code, each at its line, with the properties that would catch it.

## 2. Modules and code

| Module | Models | Role |
|---|---|---|
| `SerialExecutor` | the promise of the command queue | abstract specification |
| `CommandQueue` | `command_queue.rs` | component, refines `SerialExecutor` |
| `ConnectionState` | `state_machine.rs`, `state.rs` | component |
| `CameraStateProofs` | – | theorems of `CommandQueue` and `ConnectionState` |
| `PhoneCamera` | `phone_camera.rs` and the native plugins that push into it | component |
| `PhoneRecording` | `phoneRecordingState.ts` and the callbacks of `CapturePhoneScreen.tsx` | component |
| `PhoneProofs` | – | theorems of `PhoneCamera` and `PhoneRecording` |
| `SyncEngine` | `M/sync` | component |
| `SyncEngineProofs` | – | theorems |
| `SessionApi` | three handlers of `routers/session.py` as transactions | component |
| `PostSession` | the clients of those handlers | composition: EXTENDS `SessionApi` |
| `PostSessionProofs` | – | theorems |
| `Requests` | the life of any request: one transaction, its answer and its commit (`db.py`, `deps.py`) | base of the modules below |
| `AuditChain` | `services/audit.py`, `middleware/audit.py` | EXTENDS `Requests` |
| `ReviewQueue` | `routers/active_learning.py` | composition: EXTENDS `AuditChain`, so that its requests are audited |
| `ReviewQueueProofs` | – | theorems |
| `SessionRecords` | the rest of `routers/session.py`, `services/storage.py`, `services/workflows.py` | component: EXTENDS `Requests` |
| `SessionRecordsProofs` | – | theorems |
| `Tenancy` | pool connections, settings and row-level policies | EXTENDS `Requests` |
| `Accounts` | auth, erasure and crypto-shred, consent, the federation overview | composition: EXTENDS `Tenancy` |
| `AccountsProofs` | – | theorems |
| `Sorting` | how Python's `sorted` and numpy's `sort` order what the operators below sort | operators |
| `Taxonomy`, `Evaluation` | `taxonomy.py`, `L/eval`, conformal sets, core sets, primary cause | operators |
| `ShotDetection` | `audio_shot.py`, `audio_xcorr.py`, `audio_detection_eval.py` | operators |
| `CoachingNotes` | `L/llm` | operators |
| `Reports` | `longitudinal.py` and the routers that report | operators |
| `ExclusionList` | `L/data` | component |
| `Analysis` | – | composition of the last seven: each task of a set gets its result, training processes run beside |
| `AnalysisProofs` | – | theorems |
| `MC_*` | – | instances for TLC |

Faults: every module begins (or, where a later definition is needed, continues) with a few
operators marked as faults. They are plausible mistakes in the code, written as the mutated
form of one definition; PROJECT.json pairs each property with the one that breaks it. No
specification uses them.

### CommandQueue

An action runs from one `await` to the next. `call[c]` is where the submit future of
command `c` stands: `idle`, `sending` (waiting in `tx.send().await`), `awaiting` (in
`reply_rx.await`), `returned` or `dropped`. Tokio grants free slots to waiting senders in
order, but a granted sender completes whenever it is polled: `Granted` counts the senders
ahead by their `ticket`. The worker goes `recv → acquire → attempt (↔ backoff) → finish →
release → recv`, following the loop of `CommandQueue::worker`; `stopped` is the end of the task,
by `RecvClosed` (all senders gone) or by `WorkPanics`.

* `tries[c]` counts the attempts begun, `applied[c]` holds those the camera really carried out. The camera carries out an attempt
  at any time after it was begun, or never (`Apply`): dropping a Rust future does not recall a request already sent. So
  an attempt can reach the camera and still be reported as failed, and it can arrive after the watchdog has fired, after the answer,
  and while the next command executes (`NoOverlap` states the opposite, §7).
* `WatchdogFires` ends the whole retry sequence, as `timeout` wraps the loop of
  `submit_with_retry` from outside. Time is not modelled: it may fire at any moment.
* `DropCall` is the cancellation of a submit future; the queued command stays and runs.
* `WorkPanics` is a panic in a command's closure: it unwinds the only worker, drops the
  receiver and every queued reply sender, and callers get `Cancelled`.

The refinement mapping to `SerialExecutor` takes the channel as `pending`, the command
under way as `executing`, the attempts begun as `asked` and those carried out as `touched`. The executor asks
only for the command it executes; the camera may touch at any time, at most as often as it was asked.

### ConnectionState

`transition()` reads the current state and consults the matrix (`Check`), clears or stores
`last_error` under its own mutex (`Record`) and publishes with `send_replace` (`Publish`):
three steps, between which other callers, `take_last_error` and receivers run. `Moves` is
`ConnectionState::allowed_transitions`. A receiver sees only the latest value (`Observe`).
The history variables `kindless` and `transport` serve the properties only.

### PhoneCamera

A push is three steps: number the frame (`Number`, the plugin's `nextMonotonicSeq`), lock
the ring and count a drop if it is full (`BeginPush`), evict, append and unlock (`EndPush`).
They are separate because the counter is an atomic that `stats()` reads without the lock.
`stats()` reads its four fields one after the other (`ReadQueued`, `ReadDropped`). A frame is
its sequence number and a chunk the rank of its timestamp. `available` is FALSE on a device
where the native library did not load.

### PhoneRecording

`Reduce` is `recordingReducer`: `From` says in which statuses an event is expected and
`After` what it does. The actions are the handlers of the screen; what the camera says waits
in `inbox` for its turn on the JavaScript thread. The prompt of the operating system and
vision-camera are external: one take at a time, a start is refused while recording, a stop
while not, and a take ends after a stop or by itself. `allowed` holds what was granted of camera and microphone, which the
permission hooks show (`PermissionEffect`) independently of the two promises that `requestPermissions` awaits
(`PermissionsResolved`, or `PermissionsRejected`, which nothing catches). `Leave` unmounts the screen.

### SyncEngine

`phase` is where `syncOnce` stands. `Pull`, `Find`/`ApplyFound` (the await of
`findByServerId`, then resolution and upsert), `ApplyTombstone`, `AdvanceCursor`, `Collect`,
`Push`, `Acknowledge` and `Finish` follow the function from top to bottom; `Fail` ends it at
any await and leaves only what was durable. The user's edits and other devices run at any
await, or only between syncs, by `WriteAnyTime`. Server and UI are external and follow
`protocol.ts`: the server refuses an update of a row that changed since `last_pulled_at`.
Every write has a stamp of one clock, which is value and `updated_at` at once, so a value
tells who wrote it when. Three history variables serve the properties: `stored` is every value the server has had, `seen` the version
of each server row that the device has dealt with, and `astray` the server rows to which something happened that the code does not make good:
a merge that kept edits and marked the row synced, an acknowledgement of a row that was rejected, and an acknowledgement of a row edited after it was collected.
A row comes back from `astray` when a later pull overwrites it or an acknowledgement agrees with it (`Agreed`).

### SessionApi and PostSession

`SessionApi` models a handler as one READ COMMITTED transaction with awaits: a read
(`Find`, `ReadSession`), a decision and a flush (`FlushInsert`, `FlushEnd`; the database
checks the unique index, which waits for a transaction that owns the entry, and locks the
row: `Blocked`), and the commit (`CommitInsert`, `CommitEnd`). Only the columns that differ from
what was read are written, as SQLAlchemy does: an `end_session` that changes nothing flushes
nothing. `db.py` commits in the exit of a dependency with `yield`. FastAPI runs that exit
before it sends the answer up to 0.117 and after it from 0.118 on, and the backend asks for
`fastapi>=0.115`: `Respond` may send the answer first, the commit actions may come first, and every
property is checked and proved for both. `Rollback` loses the transaction; if its success had
been answered already, the history variable `reneged` records it, and the properties about
what a client was told are conditional on its being FALSE. `Promised` is what clients may rely on:
stored rows, and rows they were told of that still wait for their commit.

`PostSession` adds the clients. `Before` and `ProceedsTo` are the loop of `run_post_session`:
shot, its diagnostic event if there is a model, next shot, end, with the partial flag TRUE
when no diagnostics ran. `Finalizers` are runs of `ProcessSession`, whose stub activities
change nothing before `finalize_session` ends the session. `run_post_session` has no retry policy: a worker is
an operator's command that makes one attempt (`ingest/cli.py`), its first error fails it, and `Rerun` is the operator who starts
it again from the first shot, up to `MaxRuns` times. Only the workflow's one call, `finalize_session`, is retried by
Temporal, whatever the error (`Again`, up to `MaxAttempts`). After `Timeout` the handler may go on in the backend, with
nobody waiting.

### Requests

Every handler of the backend runs in one READ COMMITTED transaction (`tenant_session`). A request
goes `received → read → flushed → answered → told`; `txn` says whether a commit is due, done or lost.
A refusal goes from its first reads straight to `answered`. As in `SessionApi`, the answer may go
before the commit or after it (`Respond` and `Tell`, or `Commit` first). `seen` is what the handler has
read and decides on; other requests commit in between. `Locks` is the row lock of a
flushed UPDATE. Requests stay in `reqs`, which is the history that properties refer to; rows
that a request inserts have the request's number for an id.

### ReviewQueue and AuditChain

The handlers of the review queue read the row (`Read`), refuse or decide, flush (`Write`, which waits for the
lock of another writer of the row) and commit only the columns they set (`Claimed`, `Labelled`,
`Discarded`): nothing compares the row with what was read. `Refusal` has every 403, 404 and 409 in the order of
the code. The middleware takes every answered request through `Link` (read of the last hash),
`Stamp` (time stamp) and `Publish` (insert and commit in a transaction of its own), or `Skip` when the append fails,
which is logged only, so that the client is told all the same. An event has the number of its request for a hash. Its time stamp is any of
`Times`, since `time.time_ns()` may return the same value twice, step back, or differ between processes; events with the latest
time are read as the last, and walked by verification, in any order. `raced` and `back` are history variables: an append of the same tenant was under way at the
same time; the time stamp was not after that of an event already in the chain.

### SessionRecords

`Refusal` says with which code an endpoint refuses, `Look` is the handler's first reads, `OpenFile`, `Store` and
`DiskFails` are `store_upload`, `Write` and `Commit` the insert or update. `Halt` stops the whole
process: files stay, transactions that were not committed are gone. `Aligned` writes only the columns that differ
from what was read, as the ORM does. The summary takes its counts in two steps
(`Count`, `Conclude`). The reading endpoints are operators (`ListSessions` … `GetNote`), which the properties apply
to every caller and every path. The workflow client logs a request and starts nothing (`Triggered`).

### Tenancy and Accounts

A request takes a connection (`Enter`) whose setting `app.current_principal` it sets for the transaction, and
gives it back without (`Leave`). `Policy` is the setting that the policy of a table compares with a row's
tenant: `app.current_principal` for the tables of migration 0003, `aimvision.tenant_id`, which nothing in the
backend sets, for those of 0004 and 0005. `enforced` says whether policies bind at all; it is chosen once, so
that every property is checked for both deployments. `Accounts` runs sign-up, login, the exchange of a GoTrue token
(its verification is an outcome: the sub it names, or none), erasure tickets, consent, encryption, the overview and an insert
into a table of migration 0004 on such sessions. `Touches` are the rows and index entries a flush locks, `Conflict` is what
a unique index or a policy refuses at the flush.

### Analysis and its operators

Pure computations are operators, translated step by step, over integers: probabilities in percent, scores in
units of 1/840 (a number that the small denominators divide), samples as small integers, and thresholds cross-multiplied
where the code divides. A task is a record of inputs; `Analysis` has one action per computation, and
the properties relate the result to the inputs by a definition that is independent of the algorithm.
Loops are folds of the community modules. A prompt is three texts of tokens: the features as the server wrote them, the history escaped
and the goal stripped and escaped, where an `alias` is a form of the name that the search for the whole name does not find. `Align` cuts the windows, raises for
those too short for the filter (`TooShort`), takes the mean away and correlates. `Sorting` gives an entry the rank that it has in a stable order (the number of entries
that do not come after it), which is what can be reasoned about. The exclusion list keeps state:
`lines` is the file, `cache` what each process has read, `toldAt` a history of how far each has read.

## 3. Runs

| Run | Shows | Distinct states |
|---|---|---|
| `command_queue` | replies are owed and given once (`AnswerOwed`), the camera is asked for nothing after the answer (`NothingAskedAfterReply`), refinement (`ImplementsSerialExecutor`), and every call returns and the channel drains (`EverySubmitReturns`), under watchdog, panics, cancellations, shutdown and a camera that may carry out a dropped request later, or never answer | 240 k |
| `phone_camera` | accounting of every push (`PushesAccounted`); order, only the oldest are dropped, what `stats()` may overstate (`ReadersRight`) | 179 k |
| `connection_state` | one caller: the error's kind goes with the state and receivers see the latest (`SeenRight`), recording needs a transport (`TransportUp`) | 3.8 k |
| `sync_storm` | edits and foreign writes at any await, rejections, lost responses and partial acknowledgements: the cursor skips nothing and one local row per server row (`StoreSound`), created rows are never lost (`CreateKept`), a synced row is confirmed or astray (`UnconfirmedIsAstray`), the device converges but for astray rows (`Converged`), tombstones and edits go in the listed ways only (`TombstoneKept`, `EditKept`) | 1.4 M |
| `sync_reject` | **violation** of `SyncedMeansConfirmed`: a rejected update is marked synced | – |
| `phone_recording` | permission is held and, as long as only the user ends takes, the screen follows the camera (`ScreenRight`); no older recording replaces a newer one, stops settle, and prompts unless a promise is rejected (`MovesOn`) | 1.6 k |
| `post_session` | a worker and a workflow over two shots, retries and abandoned handlers: one row per shot and event (`OneRow`), success leaves no hole (`DoneMeansStored`), `HonestBadge`, `EndKept`, and every workflow run, and every worker that is started again after each failure, succeeds (`EveryRunEnds`) | 503 k |
| `review_queue` | two coaches and an athlete of another club on one item, each request audited by a clock that may stand still or step back: who labels (`LabelledByClaimant`), what a stale discard may undo (`LabelledLeftByStale`), where the verification of the chain may stumble (`BrokenByOverlapOrClock`) | 3.5 M |
| `audit_outage` | **violation** of `WritesFailClosed`: a write is answered 200 though its audit event could not be stored | – |
| `session_records` | three requests of two clubs, a failing disk, a lost transaction or a halt: `FilesAndRows`, `ReadsStayInTenant`, `ReadyUnlessOvertaken` | 2.4 M |
| `accounts` | three requests on two connections, where policies bind and where not: `SeesOwnTenant`, `ShreddedForGood`, `TakenBackForGood` | 2.7 M |
| `analysis` | the computations over all small inputs: `NotesGrounded`, `GoalCleaned`, `ShotsCounted`, `OffsetRecovered`, `GateHolds`, `ConformalCovers`, `CoresetNearBest`, `ProgressInOrder`, `ReportsHonest`; two training processes: `ExcludedStaysOut` | 409 k |

What the properties of the backend say, in short. `LabelledLeftByStale` and `BrokenByOverlapOrClock` state how far
the code goes: a label can be discarded, but only by a request that had read the item before; verification can stumble, but
only at appends that overlapped or whose clock had not advanced. `ReadyUnlessOvertaken` says the same of the summary. `ShreddedForGood`
and `SeesOwnTenant` have no exception. `TakenBackForGood` covers re-entry after an erasure and consents withdrawn.

Each property of a passing run fails when one definition of the model is replaced by its
faulty form: the pairs are in PROJECT.json under `mutants`.

`EveryRunEnds` needs more than one attempt even without a fault: an answer sent before its commit makes the event of a shot
fail with 404 while the shot's commit is outstanding, and the repeated shot meet the unique index with a 500. A timeout can do the same: the
abandoned handler holds the index entry. A worker started once can therefore fail where nothing is wrong (§7); ten starts are enough
for what the run's one fault and its answers without a commit leave behind.

## 4. Bounds

| Constant | Value | Why it is enough |
|---|---|---|
| `Commands`, `Capacity` | 3 calls; capacity 2 | over two slots the order of the buffer shows, and a third sender is blocked on the full channel before the worker takes the first command. That a command executes while others fill the channel and one more is blocked needs a fourth call; the theorems hold for every capacity |
| `Retried`, `MaxAttempts` (queue) | one call; 2 | a retry that succeeds, one that is exhausted, one that the watchdog cuts; two calls without retry beside it |
| `Emitters`, `Capacity`, `MaxPushes` | two frame threads and one audio thread; rings of 1 and 2; 3 pushes each | overflow with one and with two entries, two threads in one push, order under `OneEmitter` for audio |
| `Callers`, `Kinds`, `Subscribers` | one; 2; 1 | one caller drives the whole matrix; two kinds tell a kept error from a replaced one |
| `Lids`, `Sids`, `MaxWrites` | 1 row of this device; 3 server ids (one foreign, a spare one for a second creation); 4 writes | create, edit, foreign write and delete of a row in any order; the spare id makes duplicates possible |
| `WriteAnyTime`, `MayReject`, `FailIn`, `Cols` | `sync_storm`: anything may be written and rejected at any await, and a sync may stop at each; `sync_reject`: only the rejection; one column | every conflict resolution, each way of going astray; a second column (a merge that keeps one edit and takes the other) is the theorems' |
| `MaxTakes` | 3 | a take that goes wrong, the next it disturbs, one that recovers |
| `Workers`, `Finalizers`, `NShots` | a worker with a model and a workflow; 2 shots | handlers that a run gave up go on beside the next attempt, as those of two workers would; a hole between two shots |
| `MaxAttempts`, `MaxRuns`, `MaxFaults` (post-session) | 10 attempts of the workflow, 10 starts of the worker, 1 fault | 10 is `_DEFAULT_RETRY.maximum_attempts`; one fault leaves an abandoned handler, a lost answer or a lost transaction at any step |
| `Times` | 3 (1 in `audit_outage`) | three events of one chain in every order of their time stamps, with ties |
| `MaxRequests`, `MaxOpen`, `MaxFaults` | 3 requests, 3 at a time (2 for accounts and `review_queue`), 1 fault | reader, overtaker and a third that sees the outcome; three appends of one chain; one failure at any step |
| `Items`, `Principals` | 1 item; two coaches of one club, an athlete of another | rows are independent of each other; claimant, rival and stranger |
| `Questions` (records, accounts) | each endpoint with arguments that fit, do not fit and name another's rows | every refusal and every pair of overlapping endpoints |
| `Conns`, `Granted` | 2 connections; memberships as coach of a club and as administrator of a federation, either or both | a connection used by one tenant, then another, then none; a choice between tenants. Two roles in one tenant, of which the token names the higher, do not occur |
| `Tasks` | texts and answers up to 3, six frames, three predictions, recordings of 30 samples, four samples of two classes or atoms, calibration sets up to 5, four points, three athletes | see below |
| `Trainers`, `Hashes`, `MaxLines` | 2; 2; 3 | one process adds what the other has cached as absent, also twice |

The bounds of `Tasks` were chosen so that the cases with a hazard occur (three candidates within
one gap, windows cut at either end or too short for the filter, a time of no shot, confidences on the edge of the last bin, a quantile beyond the sample, an empty cohort). Thresholds of the
gates are taken once as the code has them, where small samples nearly always fail, and once loose enough for models to pass.

Deadlock is checked except where calls, pushes, requests or tasks are bounded, so that the system
rightly stops when all are done (the queue, the phone camera, the runs on `Requests`, and `analysis`). `PostSession`
has an explicit final step (`Settled`), the others never stop.

## 5. Fairness

* `CommandQueue!FairSpec`: weak fairness of the worker's own steps (the runtime polls a ready
  task; the watchdog's timer fires, so an execution ends) and of each caller's enabled
  step (a woken future is polled, and Tokio's channel is fair to waiting senders). The camera
  gets no fairness: `AttemptOk`, `AttemptFails` and `Apply` may never happen.
* `PhoneRecording!ScreenFairSpec`: the JavaScript thread runs queued callbacks and effects, the camera ends a take
  that was stopped, the promises of the prompt are resolved or rejected. Nothing is assumed of the user, nor of a take nobody stopped.
* `PostSession!FairSpec`: a run that was started receives the answers to its calls, and the backend goes on with some handler
  of every run; nobody has to start a run. That an operator starts a failed worker again is a hypothesis of the part of `EveryRunEnds` that
  needs it (`WF_vars(Rerun(w))` on the left of the implication), not of the specification. Faults are bounded, not fair.

## 6. Proofs

Checked with TLAPS for every value of the constants, under named assumptions only. Every safety property
that a run checks is a theorem, except `OffsetRecovered`. The proofs of the concurrent components follow one plan: an
inductive invariant, which TLC first checked on the bounds of the run; one lemma per action, and one for all the steps
that leave what the invariant is about alone; the property as a consequence. What follows says why the property alone
would not do.

**CameraStateProofs**, the queue – `QueueInvariant`: `CommandQueueInv` is inductive. `AnswerOwed` alone is not:
to know that `Reply` answers exactly the right caller one needs where commands are.
The strengthening says that a queued command is fresh (`QueuedFresh`), that an unsent one is
untouched (`UnsentFresh`), what the worker holds in each of its states, with the permit
(`WorkerHolds`), and how far the work in it has come (`WorkProgress`); `QueueBounded` includes that no
command is queued twice. From it follow `NoCallerForgotten` (`AnswerOwed`),
`RetryBudgetKept` (`AttemptsBounded`) and the action property `AnsweredIsOver`
(`NothingAskedAfterReply`): the command in work has no reply yet, so no answered command is asked again, and what the camera still
carries out was asked before. Lemmas about `Append` and `Tail` of duplicate-free sequences carry the queue.
`QueueIsSerialExecutor` is the refinement: under the mapping, every step of a caller (`CallerRefines`) and of the worker
(`WorkerRefines`) is a step of `SerialExecutor` or none. An attempt that reaches the camera adds one element to a finite
set and so counts as one touch (`AppliedCounts`).

The connection – `ConnectionInvariant`: a caller in the middle of a transition was validated against the state that is still published, and
what it recorded is right for the state it is about to publish (`Validated`); when nobody is between recording and publishing, the error is the
one of the state (`Settled`); and a state with footage, or joined, has a transport (`Joined`), by the shape of the matrix (`MovesRight`).
`SeenStaysRight` (`SeenRight`) and `TransportStaysUp` (`TransportUp`) follow for any set of callers, receivers and kinds, under the hypothesis
`OneAtATime`: transitions do not overlap. Nothing in the repository lets them overlap, and where they do both properties fail (§7). `ViewsStayCurrent`, about
the receivers, does without.

**PhoneProofs**, the camera – `CameraInvariant`: the accounting equation is inductive only with the locking
discipline (`LocksHeld`: who is inside a push holds the lock) and with the fact that what a thread found
under the lock is still so when it uses it (`FoundStillTrue`). `NoPushUncounted`
(`PushesAccounted`) and `RingsStayBounded` follow, for any number of threads and capacities.
`ReadersStayRight` (`ReadersRight`) needs `ReadersInv`: every number handed out belongs to a finished push or one under
way (`NumbersUsed`, a count of threads), a thread that pushes alone pushes the number after the last (`NextPushed`),
what was polled is older than what is in the ring (`PolledOlder`), and a drop that `stats()` counts after it read the queue
belongs to a number handed out since (`StatsRead`).

The screen – `ScreenInvariant`: what the screen shows, was told, has in its inbox, and what the camera
records are takes in this order (`Ordered`); while only the user ends takes, screen and camera are in one of four
joint situations (`Together`); what the screen believes of the permission was granted (`Permitted`). `ScreenStaysRight`
(`ScreenRight`) and `NeverBack`, the part of `MovesOn` that says that no older take replaces a newer one, follow. One lemma per event of the reducer.

**SyncEngineProofs** – `SyncInvariant`: `CursorCovers` is about the cursor only, but a sync also carries the time stamps
it will make the cursor. `Applying`, `Pushing` and `Acking` say of each phase which server changes up to that stamp the
device has dealt with, and of the rest where they are: pulled and not applied, or pushed and not acknowledged. `Known`,
`OneKey` and `AcksRight` tie local rows, server ids and acknowledgements together. `SyncKeepsStoreSound` (`StoreSound`) and `CreatedNeverLost`
(`CreateKept`) follow, whatever is written, rejected or cut off. `ServerCreatesOnce` (`CreatedOnce`) has the hypothesis that no sync stops between the server's answer and the last
acknowledgement (`"ack" \notin FailIn`): a lost answer does create a row twice (§7), which the run `sync_storm` allows, so that `CreatedOnce` is proved and not model-checked.

What a device holds is `DeviceInvariant`, again with nothing assumed of the other writers, of rejections, of the moments at which the user writes or
of where a sync stops. What is on its way is no older than what the server has (`Fresh`, `Stamped`); the local row that `Find` read is still
the one there unless the user wrote since (`FoundRight`); a row in the payload was collected from the row it names (`Sent`) and one to be acknowledged is what the
server stored, if it did (`Answered`); only sessions are edited (`InTable`). The heart is `Mirror`: a server row whose version the device
has dealt with is on the device as the server has it (`Same`), or is dirty, or is in `astray`. `astray` is
not a hypothesis but a history of exactly three causes (§2), so the theorems say how far the code's conflict handling reaches and that nothing else breaks it:
`OnlyAstrayUnconfirmed` (`UnconfirmedIsAstray`), `AlwaysConverges` (`Converged`), `TombstonesKept` (`TombstoneKept`) and `EditsKept`
(`EditKept`). The last two are action properties with a closed list of exceptions, each a step that the code really takes.

**PostSessionProofs** – `StoreInvariant`: `OneRow` is not inductive, since a commit inserts
without looking. The strengthening `OwnsEntry` says that a flushed and uncommitted insert owns its
entry of the unique index: no stored row and no other flushed insert has its key. The steps that
store nothing are covered by one lemma (`QuietInv`); only `FlushInsert` and `CommitInsert`
need an argument of their own. `StoredOnce` (`OneRow`) and `StoredForGood` (`AppendOnly`) follow, for
any number of runs, attempts, faults, abandoned handlers and shots. `RunInvariant` adds what a run has left behind it at every place it can be
(`Right`) and, of each call, that a client waits only for the call its run is at (`Placed`), that what an `end_session` has read still holds or the session
was ended meanwhile (`EndRead`), that whoever ends it without the partial flag has diagnosed every shot (`Honest`), and that
an answer promises what it says (`Kept`). `Onward` lists what no step takes back, so that `Right` has to be shown only of the run that moves.
`SuccessMeansStored` (`DoneMeansStored`), `BadgeIsHonest` (`HonestBadge`) and `EndStays` (`EndKept`) follow.

**ReviewQueueProofs** – `QueueInvariant`: neither `LabelledByClaimant` nor `LabelledLeftByStale` is inductive,
since a commit writes without looking. The strengthening `Decided` says what a handler that still acts on its reads
(`Acting`) may rely on: it read a row that is not labelled, the item is in the table, and one that labels has
a committed claim of its own; `ClaimsKept` says that of the annotator of a claimed row. `EnqueuedOnce` and `Blank` keep
requests for an item that is not there yet away from it. Steps that leave the table alone are covered by one lemma
(`CarriesInv`), so that only `Read`, `Request` and `Commit` need an argument. `LabelsAreByClaimants`
(`LabelledByClaimant`) and `OnlyStaleReplaces` (`LabelledLeftByStale`) follow for any number of principals, items, requests
and faults. `TrailInvariant` is about the chain, for any clock: appends that overlap know it (`Alone`); one that
overlaps with none has read a last hash that is still one when it publishes (`Linked`); if its time had advanced too, the whole chain is older (`Stamped`); and of two
events with the same time one is marked (`Ties`), which bounds what verification may choose between. `StumblesAreExplained`
(`BrokenByOverlapOrClock`) follows.

**SessionRecordsProofs** – `RecordsInvariant`: what a handler has found in its tenant is there at its commit
(`ScopeRight`), every row hangs below a session of its tenant (`Hangs`), a row was committed by the request whose number it has (`Numbered`), a
file belongs to a row or to an upload (`Stored`), and a summary that counted every recording as aligned counted a
set of recordings that still are (`CountRight`). `FilesHaveRows` (`FilesAndRows`), `ReadsScoped` (`ReadsStayInTenant`) and `SummariesRight`
(`ReadyUnlessOvertaken`) follow.

**AccountsProofs** – `AccountsInvariant`: a connection carries the tenant of the request that has it, or nothing (`Pool`); no two transactions
wait for their commit with the same row (`Exclusive`); who inserts a tenant's key is alone with it (`Unkeyed`); an execution that goes on is of a ticket of
its tenant (`Executing`); the subject of an erasure is not somebody who signs up later (`Subjects`), and whoever was erased has no way in
(`Erased`). `ShreddedStays` (`ShreddedForGood`), `SessionsScoped` (`SeesOwnTenant`) and `TakenBack` (`TakenBackForGood`) follow.

**AnalysisProofs** – `Computed` is all the invariant there is for the pure computations: a result is what the operator gives for the task. What
has to be shown is that the operator does what the property says, for inputs of any length. A fold of the community modules is a
recursive function that TLA+ defines by CHOOSE: `FoldExists` shows that the function exists, and each loop then has its equations
(`EmitFoldIs`, `MatchFoldIs`, `CoreFoldIs`) and an invariant over the iterations. Induction is over a *set* of natural numbers (`EveryNat`, from the least
element of a set), since the library's induction takes an operator.

* `NotesAreAlwaysGrounded`: what the loop of `generate_coaching_note` returns is decided by the first good answer (`NotesAreGrounded`).
* `GoalAlwaysCleaned`: what each redaction does to a token, and that no later one undoes an earlier (`ReplacedIs`, `StrippedIs`, `EscapedIs`, `GoalIsClean`).
* `ShotsAreCounted`: `ShotsUpTo` says what the shots kept so far are for the frames read so far, and `PairsUpTo` that the pairs are a matching to
  which none of the predictions seen so far could be added; that no prediction is left out follows from ranks being a permutation (`InOrderIs`).
* `GateAlwaysHolds`: the error of the whole is at most the sum of the errors of the bins, by the triangle inequality over a finite sum, for the
  calibration error and, per atom, for the head's (`OverconfidenceIsBounded`, `GapsSplit`). It needs that sums over disjoint sets add up (`TotalUnion`) and that every sample is in
  exactly one bin (`BinIsOne`): a sample in no bin would escape the gate.
* `ConformalAlwaysCovers`: a class left out of a leave-one-out set has a rank above the quantile (`LeftOutIsCovered`), and only so many ranks are above it.
* `CoresetAlwaysNearBest`: were a point farther from the chosen ones than twice the best radius, the chosen points and it would be more points than the best
  choice has, pairwise too far apart to share one of its centres (`CoresetIsNear`).
* `ProgressAlwaysInOrder`: the newest sessions are those with the fewest later ones (`TopOf`, `NewestAre`), the rank of a session in a stable order is a permutation that
  keeps their order (`InOrderIs`, `NewestFirst`), and a rate is a share (`ShareIs`).
* `ReportsAlwaysHonest`: the lower half of a sorted cohort in which most have zero sessions is zero (`ZeroMedian`), and a club counts a part of what the federation counts.
* `ExcludedNeverSelected`: the file only grows, and a cache that was loaded holds every line up to the one its process has read to (`ListRight`).

Assumptions beyond types and positive bounds:

* `SyncAssumption`: local ids are no server ids, and `None` is no id and no row.
* `PostAssumption`: `None` is no time stamp. `PhoneCameraAssumption`: nor a thread.
* The review queue: coaches are principals, and no tenant is the placeholder `NoOne`.
* `SessionRecordsAssumption`: the operations are the seven endpoints, and a valid alignment does not have the offset 0,
  which stands for null in the model.
* `TasksAssumption` says of the tasks what the code's callers or signatures guarantee: percentages are 0 to 100, with a coverage strictly between; arrays that belong together have
  the same shape and are not empty; a budget is at most the number of points; `last_n` is 1 to 50, the bounds of the endpoint's `Query`; a tenant has one profile per user
  (`uq_athlete_profile_user_tenant`). Three clauses are about what the code leaves open: a tolerance of the scoring is positive, two sessions of an athlete do not start at the same
  time (the query has no second key, so their order is the database's), and a session has at most `Whole` = 840 shots (beyond which a rate in units of 1/840 would round to 0).
* In `Accounts`, a request names only users that are there, or none (`Ask`): ids are random UUIDs, which nobody guesses before they exist.

Only model-checked: liveness (`EverySubmitReturns`, `EveryRunEnds` and the eventualities of `MovesOn`), as fairness and ENABLED are out of the
prover's reach; and `OffsetRecovered`: that a correlation has its peak at the delay, and nowhere else, depends on the
signal, so the property is about the signals of the run and not about every one. The type invariants are proved as parts of the inductive
invariants (`Typed`, `TypeOK`, `ConnectionTypeOK`).

## 7. Disagreements found

With a run that shows it (PROJECT.json, `findings`, with the lines quoted):

* `sync_reject`: `engine.ts:176`, an updated row the server rejected is
  acknowledged all the same, though `engine.ts:48` and `schema.ts:36` call that state "accepted" and "server
  confirmed".
* `audit_outage`: the middleware logs a failed append and answers all the same (`middleware/audit.py:66`), and the writer holds no policy either; its own
  docstring (`:1-5`) and `docs/security/audit-logging-spec.md:357` promise that writes fail closed. An exception of the handler
  leaves no event either: the middleware audits responses, and a 500 of that kind passes it as an exception.

Stated in the modules as the documents say it, and checked by no run of its own: TLC refutes each within seconds when it is
given as a property in the `.cfg` of the component's passing run (`MC_CommandQueue`, `MC_PhoneRecording`, `MC_SyncEngineStorm`, `MC_PostSession`,
`MC_Analysis`).

* `NoOverlap`: the watchdog drops the future of a command and starts the next (`command_queue.rs:158`); the camera may carry out
  the request it was sent during that next one, which `docs/camera-integration-spec.md:186` calls unreachable.
* `PromptDecides`: `requestPermissions` awaits two promises without a `try` (`CapturePhoneScreen.tsx:101`); a rejection
  dispatches nothing, and the screen stays in `permission-pending`, which has no button, although `:93-95` relies on an event.
* `SyncedMeansConfirmed`, again: `engine.ts:112`, a merge that kept local edits is stored as synced, so that no later push collects
  them, against `schema.ts:36-38`.
* `BadgeAlwaysHonest`: a `ProcessSession` run with the default flag (`process_session.py:48`) ends the session as complete, though its
  diagnostics are stubs, and overwrites the worker's flag, against `post_session.py:18-21`.
* `LlmSeesNothingPersonal`: `pii.py:6` "The LLM never sees PII", but the name is replaced only if the record has one and where the whole name stands
  (`pii.py:80-83`).
* `CreatedOnce`: a push whose answer is lost is pushed again, and the server creates its rows a second time (`engine.ts:167`).

Seen while reading and modelling, without a run of their own. Camera and phone:

* `state_machine.rs:100`: check and publication are not atomic; two callers that were both
  validated take the machine along a forbidden edge, though `:96-98` promises that a forbidden
  transition leaves the state unchanged. `ConnectionState` has the three steps and shows it with two `Callers`; nothing in the
  repository calls `transition` from two tasks, so the run has one, and the theorems have the hypothesis `OneAtATime`.
* `CapturePhoneScreen.tsx:149`: the late rejection of a stop puts the screen in error while
  the next take is being recorded, though `:29-30` calls the reducer the source of truth
  (`ScreenKnows` without the condition of `FollowsCamera`).
* `command_queue.rs:8` says that overflow drops the oldest non-critical command; the code
  applies back pressure and drops nothing.
* `phone_camera.rs:146-149`: `stats()` is documented as an atomic snapshot; it is four reads.
* `state_machine.rs:105` against `:43-45`: `transition(Errored)` leaves no kind behind.
* `state.rs:149-150`: tearing down "always lands in `Disconnected`", but the matrix also lets it
  end in `Errored`. `state.rs:154-156`: `Errored → BleConnected` is for "BLE survived but Wi-Fi
  died", but the matrix allows it also when BLE was never connected.
* `phoneRecordingState.ts:130` against `:47`: a take the camera ended by itself is never shown.
  `CapturePhoneScreen.tsx:119`: the missing-camera error is dispatched to a reducer that ignores it.
* `engine.ts:171-176`: an edit made while a push is in flight is
  acknowledged with it. `engine.ts:208` against `schema.ts:39`: a pulled update resurrects a
  tombstone. `engine.ts:179` against `:51`: a rejected tombstone is removed.

Backend:

* `session.py:712-713` promises that a resubmit gets the existing row; one that overlaps its
  abandoned first handler gets a 500 from the unique index.
* `session.py:155-157` against `:178`: two overlapping end calls move the end time.
* `session.py:487-488` writes the alignment pair "atomically"; two overlapping PATCHes, each writing only the
  columns that differ from what it read, leave the offset of one with the confidence of the other.
* `get_session_summary` counts in several queries, between which others commit.
* `active_learning.py:163-167` refuses to discard a labelled item; a discard that read it before the label was
  committed overwrites it. Two overlapping claims are both answered 200.
* The audit writer is documented as the single writer of a chain, but overlapping requests fork it, in one
  process too; after that `verify_chain` fails for good. It also orders by `timestamp_ns`, which is `time.time_ns()` (`services/audit.py:84`) and
  may tie or step back, so that it can stumble over appends that never overlapped. Migration 0002 grants the writer's role INSERT only, while
  `append` selects the last hash.
* The policies of migrations 0004 and 0005 compare `aimvision.tenant_id`, which nothing sets, although 0004 says that
  it mirrors 0003; where policies bind, no shot event or review item can be inserted. Login and sign-up
  run without a principal: where policies bind, login sees no memberships and sign-up's insert of the solo organisation is refused.
* Login does not look at `is_active` (an erased user is kept out by the password hash). Two overlapping sign-ups of one email:
  500 instead of 409. The exchange's "no memberships → 401" cannot happen, the solo tenancy is always there.
* `erasure.py` calls the execution idempotent; two that overlap both write `completed_at`.
* The consent docstring says that revocations are new rows; the code edits the granted one.
* `longitudinal.py:98-99` "keep the latest": the first in an unspecified order is kept. The overview's
  `clubs_active` counts all clubs.
* Workflow ids are random, so that repeated triggers are not deduplicated, and the only client logs and starts nothing.
  `backend_client.py:40-41` and `ingest_client.py:31-32` say that 4xx are not retried; the one retry policy there is (`process_session.py:74`) names no error
  that is not to be retried.
* With an answer sent before its commit, the worker's next call (the event of the shot) can be refused with 404, which fails its single attempt.
* `ingest/cli.py` passes no `feature_fn` to `run_post_session`, so that a worker started by the command is partial even with `--diagnostic-model`.
* Migration 0003 has `revision = "0003_rls"` and 0004 `down_revision = "0003_rls_policies"`, an id that no migration has: `alembic upgrade`
  cannot build its chain.

ML:

* `build_prompt` strips the goal only. Notes of earlier sessions are escaped and trusted to be "already PII-stripped at indexing time"
  (`prompt.py:29`), which nothing in the repository does; the features go in as they are (`prompt.py:96`).
* `OllamaClient.generate` calls `.get` on whatever JSON the host returns (`client.py:137`): an answer that is no object
  raises `AttributeError`, which the loop of `generate_coaching_note` does not turn into the degraded note.
* `filtfilt` refuses windows of at most 27 samples (three times the nine coefficients of the band-pass), so that a window cut that short raises, though
  `audio_xcorr.py:387-389` calls a trimmed window still useful (`TooShort`).
* `conformal_prediction_sets` documents a fallback to the most likely class; it exists only for an empty
  calibration set. `select_coreset` reports scores that are always 0 and can choose coincident points twice.
* The shot detector can drop a chain of candidates each of which is near to the one before it.
* Selection without a hash function ignores the exclusion list (`datasets.py:58-59`); `filter_for_training` with the list's `contains`, which `Select`
  models, has no caller in the repository. Two processes can write one hash twice, and what one adds the
  other does not know until it reloads.

## 8. Not modelled

* Numeric code: camera calibration, pose, band-pass filters, spectral flux, sub-sample refinement, temperature scaling, BALD
  and the Brier score are floating-point arrays, out of TLC's reach; the models use their results as values.
* Training, export and the model registry: wrappers around frameworks, most of them stubs.
* Web pages, forms, lists, seeds, the Expo config plugin, schemas, charts and manifests:
  request–response, declarations or generated build files without a protocol.
* The camera mock, a deterministic double for tests.
* In the modelled parts: wall-clock time (any delay is possible), payloads (what properties do
  not tell apart), logging, tracing and metrics, the cryptography of tokens and keys, SQLite (the tests'
  database serialises writers; the model has the READ COMMITTED behaviour of PostgreSQL), and
  retries inside an HTTP client library.
* The sync server is not in the repository; `SyncEngine` follows the protocol file, and what it
  shows of the server holds for servers that keep that protocol.

## 9. Plan

The modules of the plan are written, and the safety properties are theorems but for one. What remains:

1. Operators for the camera mock and the frame statistics, which hold no concurrency.
2. A condition on signals (an autocorrelation with one peak) under which `OffsetRecovered` holds of any recording.
