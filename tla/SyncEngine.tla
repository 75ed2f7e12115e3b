----------------------------- MODULE SyncEngine -----------------------------
(***************************************************************************)
(* The offline-first sync of the mobile app: SyncEngine.syncOnce pulls the *)
(* server's changes since the cursor, resolves conflicts with local rows,  *)
(* advances the cursor, pushes the dirty rows and acknowledges them.       *)
(*                                                                         *)
(* Every await of syncOnce is a point where the user may edit rows, other  *)
(* devices may write to the server, and the call may fail for good (a      *)
(* rejected promise, the app killed).  The local store keeps what it was   *)
(* told.  Every write has a stamp from one clock, which is both the value  *)
(* it stores and its updated_at, so that a value tells who wrote it when.  *)
(*                                                                         *)
(* The server and the UI are not in the repository: Pull, Push, the        *)
(* writes of other devices and the user's edits follow protocol.ts and the *)
(* LocalStore contract, with a server that refuses an update of a row      *)
(* changed since last_pulled_at and never hands out a cursor that would    *)
(* skip somebody else's change.                                            *)
(***************************************************************************)
EXTENDS Naturals, FiniteSets

CONSTANTS
  Lids,          \* local primary keys of rows created on this device
  Sids,          \* server ids
  ForeignSids,   \* the server ids of rows other devices create
  TableOf,       \* TableOf[x]: the table of the row with that id
  Cols,          \* the data columns of a row
  ForeignTables, \* tables other devices write
  WriteAnyTime,  \* the user and other devices may write while a sync runs
  MayReject,     \* the server may reject any pushed row
  FailIn,        \* the phases in which a sync may stop for good
  MaxWrites,     \* a bound on the writes of a behaviour
  None

Tables == {"sessions", "shots", "consent_records"}
Keys == Lids \cup Sids   \* a pulled row is stored under the id auto-<server id>

LocalRows == [status : {"synced", "created", "updated", "deleted"}, sid : Sids \cup {None},
              cols : [Cols -> Nat], dirty : SUBSET Cols, at : Nat]
ServerRows == [cols : [Cols -> Nat], at : Nat, ver : Nat \ {0}, dead : BOOLEAN,
               origin : Keys \cup {None}]

ASSUME SyncAssumption ==
  /\ TableOf \in [Keys -> Tables]
  /\ ForeignSids \subseteq Sids /\ ForeignTables \subseteq Tables
  /\ {WriteAnyTime, MayReject} \subseteq BOOLEAN
  /\ FailIn \subseteq {"apply", "collect", "push", "ack"}
  /\ MaxWrites \in Nat
  /\ Lids \cap Sids = {}
  /\ None \notin Keys \cup LocalRows \cup ServerRows

VARIABLES
  local,   \* local[k]: the row stored under k, or None
  cursor,  \* the durable pull cursor
  phase,   \* where syncOnce stands
  pulled,  \* pulled[s]: the pulled state of row s, or None
  pullTs,  \* pullChanges.timestamp
  todo,    \* the pulled rows not applied yet
  found,   \* what findByServerId returned for the row being applied, or None
  payload, \* the rows to push
  acks,    \* the acknowledgements not written yet
  resTs,   \* result.timestamp
  server,  \* server[s]: the server's row, or None
  sver,    \* the server's version, one per transaction
  clock,   \* the stamp of the last write
  \* History, for the properties:
  stored,  \* the stamps the server has ever held
  seen,    \* seen[s]: the last server version of s this device has dealt with
  erased,  \* the local keys the user removed
  astray   \* the server ids whose row here was left unlike the server's

vars == <<local, cursor, phase, pulled, pullTs, todo, found, payload, acks, resTs,
          server, sver, clock, stored, seen, erased, astray>>
syncVars == <<pulled, pullTs, todo, found, payload, acks, resTs>>
serverVars == <<server, sver, stored>>
worldVars == <<serverVars, clock, erased>>

\* Where a row with this server id is stored, if it is.
KeysOf(s) == {k \in Keys : local[k] # None /\ local[k].sid = s}
KeyFor(s) == IF KeysOf(s) = {} THEN s ELSE CHOOSE k \in KeysOf(s) : TRUE

Row(status, s, cols, dirty, at) ==
  [status |-> status, sid |-> s, cols |-> cols, dirty |-> dirty, at |-> at]
-----------------------------------------------------------------------------
(* Faults, each the mutated form of the definition its comment names.        *)

\* Acks: every created row is acknowledged, the rejected ones with no id.
AcksAll(acc, ids) ==
  {[op |-> i.op, key |-> i.key, cols |-> i.cols, ver |-> 0,
    sid |-> IF i \in DOMAIN ids THEN ids[i] ELSE i.sid] : i \in payload}

\* Resolve: the local row always wins.
ResolveLocal(t, row, srv) == "use_local"

\* Resolve: the later of the two rows wins as a whole.
ResolveRows(t, row, srv) == IF row.at <= srv.at THEN "use_server" ELSE "use_local"

\* Cleared: a row is marked synced as soon as it is in the payload.
ClearedEarly(out) ==
  [k \in Keys |-> IF \E i \in out : i.key = k THEN [local[k] EXCEPT !.status = "synced"]
                                            ELSE local[k]]

\* AllApplied: the cursor is written before the pulled rows.
AllAppliedEarly == TRUE

\* Without: every tombstone of the table goes.
WithoutTombstones(s) ==
  [k \in Keys |-> IF local[k] # None /\ local[k].status = "deleted" THEN None ELSE local[k]]
-----------------------------------------------------------------------------
Init ==
  /\ local = [k \in Keys |-> None]
  /\ cursor = 0 /\ phase = "idle"
  /\ pulled = [s \in Sids |-> None] /\ pullTs = 0 /\ todo = {} /\ found = None
  /\ payload = {} /\ acks = {} /\ resTs = 0
  /\ server = [s \in Sids |-> None] /\ sver = 0
  /\ clock = 0 /\ stored = {} /\ seen = [s \in Sids |-> 0] /\ erased = {} /\ astray = {}
-----------------------------------------------------------------------------
MayWrite == (WriteAnyTime \/ phase = "idle") /\ clock < MaxWrites

(* The user.  Shots are append-only, consents are a read cache.            *)

UserCreates(l) ==
  /\ MayWrite /\ local[l] = None /\ l \notin erased
  /\ TableOf[l] # "consent_records"
  /\ \A s \in Sids : server[s] # None => server[s].origin # l
  /\ clock' = clock + 1
  /\ local' = [local EXCEPT ![l] =
       Row("created", None, [c \in Cols |-> clock + 1], {}, clock + 1)]
  /\ UNCHANGED <<cursor, phase, syncVars, serverVars, seen, erased, astray>>

UserEdits(k, c) ==
  /\ MayWrite /\ TableOf[k] = "sessions"
  /\ local[k] # None /\ local[k].status # "deleted"
  /\ clock' = clock + 1
  /\ local' = [local EXCEPT
       ![k].status = IF @ = "created" THEN @ ELSE "updated",
       ![k].cols[c] = clock + 1, ![k].dirty = @ \cup {c}, ![k].at = clock + 1]
  /\ UNCHANGED <<cursor, phase, syncVars, serverVars, seen, erased, astray>>

\* A row the server knows becomes a tombstone, another one is simply removed.
UserDeletes(k) ==
  /\ MayWrite /\ TableOf[k] = "sessions"
  /\ local[k] # None /\ local[k].status # "deleted"
  /\ clock' = clock + 1
  /\ local' = [local EXCEPT ![k] =
       IF @.status = "created" THEN None ELSE [@ EXCEPT !.status = "deleted"]]
  /\ erased' = erased \cup {k}
  /\ UNCHANGED <<cursor, phase, syncVars, serverVars, seen, astray>>
-----------------------------------------------------------------------------
(* Other devices, through the server.                                      *)

ServerRow(cols, at, origin) ==
  [cols |-> cols, at |-> at, ver |-> sver + 1, dead |-> FALSE, origin |-> origin]

ForeignWrites(s) ==
  /\ TableOf[s] \in ForeignTables /\ MayWrite
  /\ \/ server[s] = None /\ s \in ForeignSids
        /\ server' = [server EXCEPT ![s] =
             ServerRow([c \in Cols |-> clock + 1], clock + 1, None)]
     \/ server[s] # None /\ ~server[s].dead
        /\ \E c \in Cols : server' = [server EXCEPT ![s] =
             ServerRow([@.cols EXCEPT ![c] = clock + 1], clock + 1, @.origin)]
     \/ server[s] # None /\ ~server[s].dead
        /\ server' = [server EXCEPT ![s].dead = TRUE, ![s].ver = sver + 1]
  /\ sver' = sver + 1 /\ clock' = clock + 1 /\ stored' = stored \cup {clock + 1}
  /\ UNCHANGED <<local, cursor, phase, syncVars, seen, erased, astray>>
-----------------------------------------------------------------------------
(* syncOnce.                                                               *)

\* getCursor and pull: everything that changed since the cursor.
Pull ==
  /\ phase = "idle"
  /\ todo' = {s \in Sids : server[s] # None /\ server[s].ver > cursor}
  /\ pulled' = [s \in Sids |-> IF s \in todo' THEN server[s] ELSE None]
  /\ pullTs' = sver
  /\ phase' = "apply"
  /\ UNCHANGED <<local, cursor, found, payload, acks, resTs, worldVars, seen, astray>>

\* Tombstones come last within their table.
Find(s) ==
  /\ phase = "apply" /\ found = None /\ s \in todo /\ ~pulled[s].dead
  /\ found' = [sid |-> s, row |-> local[KeyFor(s)]]
  /\ UNCHANGED <<local, cursor, phase, pulled, pullTs, todo, payload, acks, resTs,
                 worldVars, seen, astray>>

\* resolveConflict.
Resolve(t, row, srv) ==
  IF t \in {"consent_records", "shots"} \/ row.dirty = {} THEN "use_server"
  ELSE IF row.at <= srv.at THEN "merge_fields" ELSE "use_local"

\* upsertSynced with the server's row or the merged one; what the user did to
\* the local row since findByServerId is overwritten.
ApplyFound ==
  LET s == found.sid
      srv == pulled[s]
      how == IF found.row = None THEN "use_server" ELSE Resolve(TableOf[s], found.row, srv)
      dirty == IF how = "merge_fields" THEN found.row.dirty ELSE {}
      cols == [c \in Cols |-> IF c \in dirty THEN found.row.cols[c] ELSE srv.cols[c]]
  IN  /\ phase = "apply" /\ found # None
      /\ local' = IF how = "use_local" THEN local
                  ELSE [local EXCEPT ![KeyFor(s)] = Row("synced", s, cols, {}, srv.at)]
      /\ todo' = todo \ {s} /\ found' = None
      /\ seen' = [seen EXCEPT ![s] = srv.ver]
      /\ astray' = IF how = "use_local" THEN astray
                   ELSE IF cols = srv.cols THEN astray \ {s} ELSE astray \cup {s}
      /\ UNCHANGED <<cursor, phase, pulled, pullTs, payload, acks, resTs, worldVars>>

Without(s) == [k \in Keys |-> IF k \in KeysOf(s) THEN None ELSE local[k]]

ApplyTombstone(s) ==
  /\ phase = "apply" /\ found = None /\ s \in todo /\ pulled[s].dead
  /\ \A r \in todo : TableOf[r] = TableOf[s] => pulled[r].dead
  /\ local' = Without(s)
  /\ todo' = todo \ {s}
  /\ seen' = [seen EXCEPT ![s] = pulled[s].ver]
  /\ astray' = astray \ {s}
  /\ UNCHANGED <<cursor, phase, pulled, pullTs, found, payload, acks, resTs, worldVars>>

AllApplied == todo = {} /\ found = None

AdvanceCursor ==
  /\ phase = "apply" /\ AllApplied
  /\ cursor' = pullTs
  /\ pulled' = [s \in Sids |-> None] /\ todo' = {} /\ found' = None
  /\ phase' = "collect"
  /\ UNCHANGED <<local, pullTs, payload, acks, resTs, worldVars, seen, astray>>

\* collectDirty over the pushable tables.  A tombstone travels without its row.
Item(k) ==
  LET row == local[k]
      op == CASE row.status = "created" -> "create"
              [] row.status = "updated" -> "update"
              [] row.status = "deleted" -> "delete"
  IN  [op |-> op, key |-> k, sid |-> row.sid, cols |-> row.cols, at |-> row.at]
Outgoing ==
  {Item(k) : k \in {j \in Keys :
    /\ local[j] # None /\ local[j].status # "synced"
    /\ TableOf[j] # "consent_records"
    /\ local[j].status = "created" \/ local[j].sid # None}}

\* The rows collected stay dirty until the server has answered.
Cleared(out) == local

\* Nothing to push: the result is a stub that carries the pulled cursor.
\* validatePushPayload lets every row of the schema's columns through.
Collect ==
  /\ phase = "collect"
  /\ payload' = Outgoing
  /\ local' = Cleared(Outgoing)
  /\ resTs' = pullTs
  /\ phase' = IF Outgoing = {} THEN "ack" ELSE "push"
  /\ UNCHANGED <<cursor, pulled, pullTs, todo, found, acks, worldVars, seen, astray>>

Conflicting(i) == i.op # "create" /\ server[i.sid].ver > pullTs

\* The ids the server may issue to the created rows it accepts.
Issues(acc) ==
  LET new == {i \in acc : i.op = "create"}
  IN  {f \in [new -> {s \in Sids \ ForeignSids : server[s] = None}] :
         /\ \A i \in new : TableOf[f[i]] = TableOf[i.key]
         /\ \A i, j \in new : f[i] = f[j] => i = j}

\* The server's rows after it accepted acc, with ids for the created ones.
Stored(acc, ids) ==
  [s \in Sids |->
    IF \E i \in DOMAIN ids : ids[i] = s
    THEN LET i == CHOOSE i \in DOMAIN ids : ids[i] = s
         IN  ServerRow(i.cols, i.at, i.key)
    ELSE IF \E i \in acc : i.op # "create" /\ i.sid = s
    THEN LET i == CHOOSE i \in acc : i.op # "create" /\ i.sid = s
         IN  IF i.op = "delete" THEN [server[s] EXCEPT !.dead = TRUE, !.ver = sver + 1]
                                ELSE ServerRow(i.cols, i.at, server[s].origin)
    ELSE server[s]]

\* What syncOnce will acknowledge: the created rows it got an id for, and every
\* updated and deleted row of the payload, accepted or not.
Acks(acc, ids) ==
  {[op |-> "create", key |-> i.key, cols |-> i.cols, sid |-> ids[i], ver |-> sver + 1] :
     i \in DOMAIN ids}
  \cup {[op |-> i.op, key |-> i.key, cols |-> i.cols, sid |-> i.sid,
         ver |-> IF i \in acc THEN sver + 1 ELSE 0] : i \in {j \in payload : j.op # "create"}}

\* The server carries the push out; if Fail comes next, the response was lost.
Push ==
  /\ phase = "push"
  /\ \E acc \in SUBSET {i \in payload : ~Conflicting(i)} : \E ids \in Issues(acc) :
       /\ MayReject \/ \A i \in payload : i \in acc \/ Conflicting(i)
       /\ server' = Stored(acc, ids)
       /\ sver' = IF acc = {} THEN sver ELSE sver + 1
       /\ stored' = stored \cup UNION {{i.cols[c] : c \in Cols} : i \in acc}
       /\ acks' = Acks(acc, ids)
  /\ resTs' = IF sver = pullTs THEN sver' ELSE pullTs
  /\ phase' = "ack"
  /\ payload' = {}
  /\ UNCHANGED <<local, cursor, pulled, pullTs, todo, found, clock, erased, seen, astray>>

Accepted(row, s) == [row EXCEPT !.sid = s, !.status = "synced", !.dirty = {}]

\* The server holds what the row acknowledged holds now: it took the row, and
\* the user has not touched it since it was collected.
Agreed(a) ==
  /\ a.ver > 0
  /\ \/ a.op = "delete"
     \/ a.op = "create" /\ local[a.key] # None /\ local[a.key].cols = a.cols
     \/ a.op = "update" /\ KeysOf(a.sid) # {} /\ local[KeyFor(a.sid)].cols = a.cols

Acknowledge(a) ==
  /\ phase = "ack" /\ a \in acks
  /\ a.op # "create" => \A b \in acks : b.op # "create"
  /\ local' = CASE a.op = "create" /\ local[a.key] # None ->
                     [local EXCEPT ![a.key] = Accepted(@, a.sid)]
                [] a.op = "update" /\ KeysOf(a.sid) # {} ->
                     [local EXCEPT ![KeyFor(a.sid)] = Accepted(@, a.sid)]
                [] a.op = "delete" -> Without(a.sid)
                [] OTHER -> local
  /\ acks' = acks \ {a}
  /\ seen' = [seen EXCEPT ![a.sid] = IF a.ver > 0 THEN a.ver ELSE @]
  /\ astray' = IF Agreed(a) THEN astray \ {a.sid} ELSE astray \cup {a.sid}
  /\ UNCHANGED <<cursor, phase, pulled, pullTs, todo, found, payload, resTs, worldVars>>

Finish ==
  /\ phase = "ack" /\ acks = {}
  /\ cursor' = resTs
  /\ phase' = "idle"
  /\ pullTs' = 0 /\ resTs' = 0
  /\ UNCHANGED <<local, pulled, todo, found, payload, acks, worldVars, seen, astray>>

\* An await throws, or the app is killed: only the store and the server remain.
\* In "ack" the response to the push was lost, or only a part of it written.
Fail ==
  /\ phase \in FailIn
  /\ phase' = "idle"
  /\ pulled' = [s \in Sids |-> None] /\ pullTs' = 0 /\ todo' = {} /\ found' = None
  /\ payload' = {} /\ acks' = {} /\ resTs' = 0
  /\ UNCHANGED <<local, cursor, worldVars, seen, astray>>

SyncStep ==
  \/ Pull \/ ApplyFound \/ AdvanceCursor \/ Collect \/ Push \/ Finish
  \/ \E s \in Sids : Find(s) \/ ApplyTombstone(s)
  \/ \E a \in acks : Acknowledge(a)

Next ==
  \/ SyncStep \/ Fail
  \/ \E l \in Lids : UserCreates(l)
  \/ \E k \in Keys : UserDeletes(k) \/ \E c \in Cols : UserEdits(k, c)
  \/ \E s \in Sids : ForeignWrites(s)

Spec == Init /\ [][Next]_vars
-----------------------------------------------------------------------------
TypeOK ==
  /\ local \in [Keys -> LocalRows \cup {None}]
  /\ server \in [Sids -> ServerRows \cup {None}] /\ pulled \in [Sids -> ServerRows \cup {None}]
  /\ {cursor, pullTs, resTs, sver, clock} \subseteq Nat
  /\ phase \in {"idle", "apply", "collect", "push", "ack"}
  /\ todo \subseteq Sids
  /\ found = None \/ found \in [sid : todo, row : LocalRows \cup {None}]
  /\ payload \subseteq [op : {"create", "update", "delete"}, key : Keys, sid : Sids \cup {None},
                       cols : [Cols -> Nat], at : Nat]
  /\ acks \subseteq [op : {"create", "update", "delete"}, key : Keys, cols : [Cols -> Nat],
                    sid : Sids, ver : Nat]
  /\ seen \in [Sids -> Nat] /\ astray \subseteq Sids

\* The cursor never runs ahead: every server change up to it has reached this
\* device, whatever failed in between (syncOnce writes it after the rows).
CursorCovers ==
  \A s \in Sids : server[s] # None /\ server[s].ver <= cursor => seen[s] = server[s].ver

\* Two local rows never stand for the same server row.
UniqueServerId == \A s \in Sids : Cardinality(KeysOf(s)) <= 1

\* The local store is sound, whatever overlaps and wherever a sync stops.
StoreSound == CursorCovers /\ UniqueServerId

\* A row created on the device is never lost: it waits for its push, or the
\* server has it, or the user removed it.
CreateKept ==
  [][\A l \in Lids :
       local[l] # None /\ local[l].status = "created" =>
         \/ local'[l] # None /\ local'[l].status = "created"
         \/ l \in erased'
         \/ \E s \in Sids : server[s] # None /\ server[s].origin = l]_vars

\* ... and, while no response is lost, the server creates it once.
CreatedOnce ==
  \A s, r \in Sids :
    server[s] # None /\ server[r] # None /\ server[s].origin # None
      /\ server[s].origin = server[r].origin => s = r

\* schema.ts, `synced`: "server confirmed last write": what a synced row holds
\* has been on the server.
Confirmed(k) == \A c \in Cols : local[k].cols[c] \in stored
SyncedMeansConfirmed ==
  \A k \in Keys : local[k] # None /\ local[k].status = "synced" => Confirmed(k)

\* There are three ways to a synced row the server never confirmed, and no other:
\* a merge that kept edits, the acknowledgement of a row the server rejected, and
\* the acknowledgement of a row edited after it was collected.
UnconfirmedIsAstray ==
  \A k \in Keys : local[k] # None /\ local[k].status = "synced" =>
    Confirmed(k) \/ local[k].sid \in astray

\* Conflicts resolved, rows rejected, answers lost: a device with the server's
\* latest cursor has every live row of the server, and what it calls synced is
\* what the server has, but for the rows that went astray.
Converged ==
  cursor = sver =>
    /\ \A s \in Sids \ astray : server[s] # None /\ ~server[s].dead => KeysOf(s) # {}
    /\ \A k \in Keys : local[k] # None /\ local[k].status = "synced" /\ local[k].sid \notin astray =>
         /\ ~server[local[k].sid].dead
         /\ local[k].cols = server[local[k].sid].cols

\* schema.ts, `deleted`: "tombstoned locally, awaiting server confirmation": a
\* tombstone stays until the server has the deletion, unless the server's row
\* is pulled over it, the server rejects the deletion (acceptDelete is called
\* all the same), or the user deleted the row while its update was in flight.
TombstoneKept ==
  [][\A k \in Keys :
       local[k] # None /\ local[k].status = "deleted" =>
         LET s == local[k].sid
         IN  \/ local'[k] # None /\ local'[k].status = "deleted"
             \/ local'[k] = None /\ server[s].dead
             \/ phase = "apply" /\ found # None /\ found.sid = s /\ local'[k] # None
             \/ \E a \in acks : a.sid = s /\ a.op = "delete" /\ a.ver = 0 /\ local'[k] = None
             \/ \E a \in acks : a.sid = s /\ a.op = "update" /\ local'[k] # None]_vars

\* A sync never overwrites an edit that waits to be pushed, whatever the server
\* has: the columns edited keep their values through conflict resolution and
\* acknowledgement, unless the edit came after findByServerId had read the row.
EditKept ==
  [][\A k \in Keys : \A c \in Cols :
       local[k] # None /\ local[k].status = "updated" /\ c \in local[k].dirty =>
         \/ local'[k] # None /\ local'[k].cols[c] = local[k].cols[c]
         \/ clock' > clock
         \/ server[local[k].sid].dead
         \/ found # None /\ found.sid = local[k].sid
            /\ found.row # None /\ found.row.at < local[k].at]_vars
=============================================================================
