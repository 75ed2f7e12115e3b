---------------------------- MODULE PostSession ----------------------------
(***************************************************************************)
(* The clients of the ingest: runs of the ML worker's run_post_session and *)
(* of the ProcessSession workflow, all for one session.                    *)
(*                                                                         *)
(* A worker detects the same shots in the same order on every start.  It   *)
(* posts them one after the other, with a diagnostic event each when it    *)
(* has a model, and ends the session, partial when it has none.  The first *)
(* error, and a call that times out, fail the attempt, while the call that *)
(* timed out may still be running in the backend.  A worker is started by  *)
(* an operator's command, makes one attempt and may be started again, from *)
(* the first shot.  The workflow's only call, finalize_session, is retried *)
(* by Temporal whatever the error was: its policy names none to give up on.*)
(***************************************************************************)
EXTENDS SessionApi

CONSTANTS
  Workers,       \* runs of run_post_session
  Diagnosing,    \* those with a diagnostic model
  Finalizers,    \* runs of the ProcessSession workflow
  NShots,        \* shots the detector finds
  MaxAttempts,   \* maximum_attempts of the workflow's retry policy
  MaxRuns        \* a bound on how often the operator starts a worker

ASSUME PostAssumption == /\ Diagnosing \subseteq Workers
                         /\ Workers \cap Finalizers = {}
                         /\ NShots \in Nat /\ {MaxAttempts, MaxRuns} \subseteq Nat \ {0}
                         /\ None \notin [who : Workers \cup Finalizers, attempt : Nat, late : BOOLEAN]

VARIABLE run   \* the position of every run in its program

vars == <<rows, session, calls, faults, reneged, run>>

Runs == Workers \cup Finalizers
Seqs == 0..(NShots - 1)

Idle == [at |-> "idle", seq |-> 0, shot |-> None, attempt |-> 0, partial |-> FALSE]

Init == ApiInit /\ run = [w \in Runs |-> Idle]

\* The run is before its seq-th shot.
Before(w, r, seq) ==
  [r EXCEPT !.seq = seq, !.shot = None,
            !.at = IF w \in Workers /\ seq < NShots THEN "shot" ELSE "end"]

Attempt(w, r) == Before(w, [r EXCEPT !.attempt = @ + 1], 0)

Key(r) == CASE r.at = "shot" -> <<r.seq>> [] r.at = "event" -> r.shot [] r.at = "end" -> <<>>

\* A run moves on to r, and makes the call that is due there.
Moves(w, r, others) ==
  /\ run' = [run EXCEPT ![w] = r]
  /\ calls' = others \cup (IF r.at \in {"done", "failed"} THEN {}
                           ELSE {Sent(w, r.attempt, r.at, Key(r), r.partial)})

\* A worker's flag says that it ran no diagnostics, a workflow's is its input.
Start(w) ==
  /\ run[w].at = "idle"
  /\ \E partial \in IF w \in Workers THEN {w \notin Diagnosing} ELSE BOOLEAN :
       Moves(w, Attempt(w, [run[w] EXCEPT !.partial = partial]), calls)
  /\ UNCHANGED <<rows, session, faults, reneged>>

\* Where the answer c takes a run that may diagnose, with seq as the next shot.
ProceedsTo(w, r, c, diagnoses, seq) ==
  CASE r.at = "shot" /\ diagnoses  -> [r EXCEPT !.at = "event", !.shot = c.result.id]
    [] r.at = "shot" /\ ~diagnoses -> Before(w, r, seq)
    [] r.at = "event" -> Before(w, r, seq)
    [] r.at = "end"   -> [r EXCEPT !.at = "done"]

\* Faults of Proceeds: a later attempt skips shots; the session is ended before
\* the last event.
ProceedsSkipping(w, r, c) == ProceedsTo(w, r, c, w \in Diagnosing, r.seq + r.attempt)
ProceedsEarly(w, r, c) ==
  ProceedsTo(w, r, c, w \in Diagnosing /\ r.seq + 1 < NShots, r.seq + 1)

Proceeds(w, r, c) == ProceedsTo(w, r, c, w \in Diagnosing, r.seq + 1)

\* The attempt fails; the run with it, unless the policy allows another one.
Again(w, r) == IF w \in Finalizers /\ r.attempt < MaxAttempts THEN Attempt(w, r)
                                                              ELSE [r EXCEPT !.at = "failed"]

\* The operator, told of the error, starts the command again.
Rerun(w) ==
  /\ w \in Workers /\ run[w].at = "failed" /\ run[w].attempt < MaxRuns
  /\ Moves(w, Attempt(w, run[w]), calls)
  /\ UNCHANGED <<rows, session, faults, reneged>>

Receive(w, c) ==
  /\ c.who = w /\ c.phase = "replied"
  /\ Moves(w, IF c.result = Error THEN Again(w, run[w]) ELSE Proceeds(w, run[w], c), calls \ {c})
  /\ UNCHANGED <<rows, session, faults, reneged>>

\* The client gives up; the request was lost, or is still being handled, or
\* its answer was lost.
Timeout(w, c) ==
  /\ c.who = w /\ c.client = "waits"
  /\ \E rest \in {{}, {[c EXCEPT !.client = "gone"]}} :
       /\ rest = {} => c.phase \in {"received", "replied"}
       /\ rest # {} => c.phase # "replied"
       /\ Moves(w, Again(w, run[w]), (calls \ {c}) \cup rest)
  /\ Fault
  /\ UNCHANGED <<rows, session, reneged>>

Settled == calls = {} /\ \A w \in Runs : run[w].at \in {"done", "failed"}

Next == \/ \E w \in Runs : Start(w) \/ Rerun(w)
        \/ \E c \in calls : Receive(c.who, c) \/ Timeout(c.who, c)
        \/ \E c \in calls : Handle(c) /\ UNCHANGED run
        \/ \E c \in calls : Rollback(c) /\ UNCHANGED run
        \/ Settled /\ UNCHANGED vars

Spec == Init /\ [][Next]_vars
-----------------------------------------------------------------------------
\* A run that was started goes on, and the backend answers every call.
Proceed(w) == \E c \in calls : Receive(w, c)
Work(w) == \E c \in calls : c.who = w /\ Handle(c) /\ UNCHANGED run

FairSpec == Spec /\ \A w \in Runs : WF_vars(Proceed(w)) /\ WF_vars(Work(w))
-----------------------------------------------------------------------------
ShotIds == Seqs \X Workers \X (1..MaxRuns)

TypeOK ==
  /\ \A r \in rows["shot"] : r.id \in ShotIds /\ r.key = <<r.id[1]>>
  /\ \A e \in rows["event"] : e.key \in ShotIds
  /\ session.ended = None \/ session.ended.who \in Runs
  /\ session.partial \in BOOLEAN
  /\ faults \in 0..MaxFaults
  /\ \A w \in Runs : /\ run[w].at \in {"idle", "shot", "event", "end", "done", "failed"}
                     /\ run[w].seq \in 0..NShots
                     /\ run[w].attempt \in 0..(IF w \in Workers THEN MaxRuns ELSE MaxAttempts)
                     /\ Cardinality({c \in calls : c.who = w /\ c.client = "waits"}) <= 1

(* However runs, retries and abandoned handlers overlap, a shot of the     *)
(* session has one row, and a shot has one diagnostic event (the unique    *)
(* indexes behind the check of ingest_shot and append_shot_event).         *)
OneRow == \A t \in Tables : \A r, s \in rows[t] : r.key = s.key => r = s

(* What was ingested is never changed or removed: shots and events are     *)
(* append-only (ADR-0006), also for a resubmit from another run.           *)
AppendOnly == [][\A t \in Tables : rows[t] \subseteq rows'[t]]_vars

Diagnosed(seq) == \E r \in Promised("shot") : /\ r.key = <<seq>>
                                              /\ \E e \in Promised("event") : e.key = r.id

(* The id a run attaches its event to is that of the row of its shot.      *)
NamesItsRow(w) ==
  run[w].at = "event" => [key |-> <<run[w].seq>>, id |-> run[w].shot] \in Promised("shot")

(* A run names the row of the shot it is working on, whichever run or      *)
(* attempt stored it, and one that reports success has left the session    *)
(* ended with every shot stored and, if it had a model, every shot         *)
(* diagnosed, or on their way into the database: no failed attempt left a  *)
(* hole (run_post_session), unless the backend lost what it answered for.  *)
DoneMeansStored ==
  ~reneged => \A w \in Runs :
    /\ NamesItsRow(w)
    /\ run[w].at = "done" =>
         /\ session.ended # None \/ Told("end") # {}
         /\ w \in Workers => {<<seq>> : seq \in Seqs} \subseteq {r.key : r \in Promised("shot")}
         /\ w \in Diagnosing => \A seq \in Seqs : Diagnosed(seq)

(* A session that has ended without the partial flag has every shot        *)
(* diagnosed, so that the report renders an honest audio-only badge        *)
(* (post_session.py).  The code breaks it: a workflow ends the session     *)
(* with the flag of its input, whose default says full coverage.           *)
BadgeAlwaysHonest ==
  ~reneged /\ session.ended # None /\ ~session.partial => \A seq \in Seqs : Diagnosed(seq)

(* As long as no workflow run reported full coverage by its input, a       *)
(* session that has ended without the partial flag has every shot          *)
(* diagnosed: the report's badge is honest (post_session.py).              *)
HonestBadge ==
  ~reneged /\ session.ended # None /\ ~session.partial
    /\ (\A f \in Finalizers : run[f].at = "idle" \/ run[f].partial)
  => \A seq \in Seqs : Diagnosed(seq)

(* The end of a session is never taken back, and a call made after it      *)
(* leaves the original end time alone (end_session's idempotence).         *)
EndKept ==
  [][session.ended # None =>
       session'.ended = session.ended \/ (session'.ended # None /\ ~session'.ended.late)]_vars

(* The attempts of finalize_session outlast the faults, so every workflow  *)
(* run that was started is done; and an operator who starts a worker again *)
(* whenever its one attempt fails succeeds, whatever the attempts before   *)
(* left behind (rows, handlers that still run, answers whose commit is     *)
(* still due): no attempt hangs and none is refused for good.              *)
Started(w) == run[w].at # "idle"
EveryRunEnds ==
  /\ \A f \in Finalizers : Started(f) ~> run[f].at = "done"
  /\ \A w \in Workers : WF_vars(Rerun(w)) => (Started(w) ~> run[w].at = "done")
=============================================================================
