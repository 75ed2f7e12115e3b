----------------------------- MODULE SessionApi -----------------------------
(***************************************************************************)
(* The backend's ingest of one session: POST /shots, POST /events and      *)
(* PATCH /end of routers/session.py, as any number of calls in flight.     *)
(*                                                                         *)
(* A handler is one READ COMMITTED transaction with awaits in it: it reads, *)
(* decides, flushes (the database checks the unique index and locks the    *)
(* row) and commits when the handler has returned.  Other handlers run     *)
(* between any two of these steps.  The commit is the exit of a dependency *)
(* with yield, which FastAPI runs before the answer is sent (up to 0.117)  *)
(* or after it (from 0.118 on); the backend asks for 0.115 or later, and   *)
(* the model allows both.  A row's identifier and a time stamp are the     *)
(* call that made them: no two calls make the same.                        *)
(***************************************************************************)
EXTENDS Naturals, Sequences, FiniteSets

CONSTANTS
  None,       \* no call, no row
  Error,      \* an answer that is not a success
  MaxFaults   \* a bound on rollbacks, timeouts and lost messages

ASSUME ApiAssumption == MaxFaults \in Nat

VARIABLES
  rows,      \* the committed rows of the tables "shot" and "event"
  session,   \* the columns ended_at and partial_session
  calls,     \* calls and answers in flight
  faults,    \* faults so far
  reneged    \* a success was answered for a transaction that was then lost (history)

Tables == {"shot", "event"}

\* A call as the client sends it.  key: <<monotonic_seq>>, or the id of the
\* event's shot; late: the session had ended by then (history); client: waits
\* for the answer, has given up ("gone"), or has been "told" it.
Sent(who, attempt, op, key, partial) ==
  [who |-> who, attempt |-> attempt, op |-> op, key |-> key, partial |-> partial,
   late |-> session.ended # None,
   phase |-> "received", seen |-> None, result |-> None, client |-> "waits"]

Id(c) == c.key \o <<c.who, c.attempt>>
Stamp(c) == [who |-> c.who, attempt |-> c.attempt, late |-> c.late]
Row(c) == [key |-> c.key, id |-> Id(c)]

ApiInit == /\ rows = [t \in Tables |-> {}]
           /\ session = [ended |-> None, partial |-> FALSE]
           /\ calls = {}
           /\ faults = 0
           /\ reneged = FALSE

Becomes(c, d) == calls' = (calls \ {c}) \cup {d}
Goes(c, phase, seen) == Becomes(c, [c EXCEPT !.phase = phase, !.seen = seen])

Answer(c, result) == [c EXCEPT !.phase = "replied", !.seen = None, !.result = result]

\* The handler is over; its answer reaches a client that still waits for it.
Reply(c, result) ==
  IF c.client = "waits" THEN Becomes(c, Answer(c, result)) ELSE calls' = calls \ {c}

Success(c) == IF c.op \in Tables THEN Row(c) ELSE None

Fault == faults < MaxFaults /\ faults' = faults + 1

Existing(c) == {r \in rows[c.op] : r.key = c.key}

\* Another transaction holds the row, or the index entry, this call writes.
Blocked(c) == \E d \in calls : d.phase = "flushed" /\ d.op = c.op
                               /\ (c.op = "end" \/ d.key = c.key)
-----------------------------------------------------------------------------
(* ingest_shot, append_shot_event *)

\* A fault of Find: a resubmit is not recognised.
FindNever(c) ==
  /\ c.op \in Tables /\ c.phase = "received"
  /\ Goes(c, "checked", None)
  /\ UNCHANGED <<rows, session, faults, reneged>>

\* The row of an earlier call is the answer; 404 for an event of an unknown shot.
Find(c) ==
  /\ c.op \in Tables /\ c.phase = "received"
  /\ IF c.op = "event" /\ c.key \notin {r.id : r \in rows["shot"]}
     THEN Reply(c, Error)
     ELSE IF Existing(c) # {} THEN \E r \in Existing(c) : Reply(c, r)
                              ELSE Goes(c, "checked", None)
  /\ UNCHANGED <<rows, session, faults, reneged>>

\* A fault of FlushInsert: there is no unique index.
FlushInsertTwice(c) ==
  /\ c.op \in Tables /\ c.phase = "checked"
  /\ Goes(c, "flushed", None)
  /\ UNCHANGED <<rows, session, faults, reneged>>

\* The unique index refuses the row, a 500; or the row waits for the commit.
FlushInsert(c) ==
  /\ c.op \in Tables /\ c.phase = "checked" /\ ~Blocked(c)
  /\ IF Existing(c) # {} THEN Reply(c, Error) ELSE Goes(c, "flushed", None)
  /\ UNCHANGED <<rows, session, faults, reneged>>

CommitInsert(c) ==
  /\ c.op \in Tables /\ c.phase = "flushed"
  /\ rows' = [rows EXCEPT ![c.op] = @ \cup {Row(c)}]
  /\ Reply(c, Success(c))
  /\ UNCHANGED <<session, faults, reneged>>
-----------------------------------------------------------------------------
(* end_session.  Only the columns that differ from what was read are       *)
(* written; when none does there is no UPDATE and no lock.                 *)

ReadSession(c) ==
  /\ c.op = "end" /\ c.phase = "received"
  /\ Goes(c, "checked", session)
  /\ UNCHANGED <<rows, session, faults, reneged>>

\* A fault of Ends: every call sets the time.
EndsAlways(c) == TRUE

Ends(c) == c.seen.ended = None
Flags(c) == c.seen.partial # c.partial

FlushEnd(c) ==
  /\ c.op = "end" /\ c.phase = "checked"
  /\ IF Ends(c) \/ Flags(c) THEN ~Blocked(c) /\ Goes(c, "flushed", c.seen)
                            ELSE Reply(c, None)
  /\ UNCHANGED <<rows, session, faults, reneged>>

CommitEnd(c) ==
  /\ c.op = "end" /\ c.phase = "flushed"
  /\ session' = [ended   |-> IF Ends(c) THEN Stamp(c) ELSE session.ended,
                 partial |-> IF Flags(c) THEN c.partial ELSE session.partial]
  /\ Reply(c, Success(c))
  /\ UNCHANGED <<rows, faults, reneged>>
-----------------------------------------------------------------------------
\* The answer is sent before the transaction commits.
Respond(c) ==
  /\ c.phase = "flushed" /\ c.client = "waits"
  /\ calls' = (calls \ {c}) \cup {[c EXCEPT !.client = "told"], Answer(c, Success(c))}
  /\ UNCHANGED <<rows, session, faults, reneged>>

\* The transaction is lost: a database error, a restart of the backend.
Rollback(c) ==
  /\ c.phase \in {"checked", "flushed"}
  /\ Reply(c, Error)
  /\ reneged' = (reneged \/ c.client = "told")
  /\ Fault
  /\ UNCHANGED <<rows, session>>

Handle(c) == \/ Find(c) \/ FlushInsert(c) \/ CommitInsert(c)
             \/ ReadSession(c) \/ FlushEnd(c) \/ CommitEnd(c)
             \/ Respond(c)
-----------------------------------------------------------------------------
\* What clients may count on: rows that are stored, or that they were told of
\* and that only wait for their commit.
Told(op) == {c \in calls : c.op = op /\ c.phase = "flushed" /\ c.client = "told"}
Promised(t) == rows[t] \cup {Row(c) : c \in Told(t)}
=============================================================================
