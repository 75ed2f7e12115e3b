-------------------------- MODULE PostSessionProofs --------------------------
(* However many runs, attempts and abandoned handlers there are: a shot and *)
(* a diagnostic event are stored once and stay, a run that reports success  *)
(* has left no hole, and the end of the session and its badge are honest.   *)
EXTENDS PostSession, TLAPS

\* The fields of a call that its updates go by.
IsCall(c) == {"who", "attempt", "op", "key", "partial", "late", "phase", "seen", "result", "client"}
               \subseteq DOMAIN c

Inserting == {c \in calls : c.phase = "flushed" /\ c.op \in Tables}

\* A flushed row owns its index entry: no row and no other flushed row has its key.
OwnsEntry ==
  \A c \in Inserting : /\ Existing(c) = {}
                       /\ \A d \in Inserting : d.op = c.op /\ d.key = c.key => d = c

StoreInv == /\ OneRow
            /\ OwnsEntry
            /\ rows = [t \in Tables |-> rows[t]]
            /\ \A c \in calls : IsCall(c)

\* What a step does that stores nothing: it may replace the call c by d, which
\* does not flush now, and add calls that have flushed nothing yet.
Quiet(c, d, new) ==
  /\ UNCHANGED rows
  /\ calls' \subseteq (calls \ {c}) \cup {d} \cup new
  /\ \A e \in new : IsCall(e) /\ e.phase # "flushed"
  /\ IsCall(d) /\ d.op = c.op /\ d.key = c.key
  /\ d.phase = "flushed" => c \in calls /\ c.phase = "flushed"

LEMMA InitInv ==
  ASSUME Init
  PROVE  StoreInv
  BY DEF Init, ApiInit, StoreInv, OneRow, OwnsEntry, Inserting, Existing

LEMMA QuietInv ==
  ASSUME StoreInv, NEW c, NEW d, NEW new, Quiet(c, d, new)
  PROVE  StoreInv'
<1> USE DEF StoreInv, Quiet
<1>1. OneRow' /\ (rows = [t \in Tables |-> rows[t]])'
  BY DEF OneRow
<1>2. (\A e \in calls : IsCall(e))'
  BY DEF IsCall
<1>3. \A e \in Inserting' : e \in Inserting \/ (e = d /\ c \in Inserting)
  BY DEF Inserting
<1>4. \A e \in Inserting' : e # d => e # c
  BY DEF Inserting
<1>5. OwnsEntry'
  <2> SUFFICES ASSUME NEW e \in Inserting'
               PROVE  /\ Existing(e)' = {}
                      /\ \A f \in Inserting' : f.op = e.op /\ f.key = e.key => f = e
    BY DEF OwnsEntry
  <2>1. Existing(e)' = {}
    BY <1>3 DEF OwnsEntry, Existing
  <2>2. ASSUME NEW f \in Inserting', f.op = e.op, f.key = e.key
        PROVE  f = e
    BY <1>3, <1>4, <2>2 DEF OwnsEntry
  <2> QED
    BY <2>1, <2>2
<1> QED
  BY <1>1, <1>2, <1>5

LEMMA GoesQuiet ==
  ASSUME StoreInv, NEW c \in calls, NEW phase, NEW seen, Goes(c, phase, seen),
         phase = "flushed" => c.phase = "flushed", UNCHANGED rows
  PROVE  StoreInv'
<1> DEFINE d == [c EXCEPT !.phase = phase, !.seen = seen]
<1>1. IsCall(c)
  BY DEF StoreInv
<1>2. IsCall(d) /\ d.op = c.op /\ d.key = c.key /\ d.phase = phase
  BY <1>1 DEF IsCall
<1>3. Quiet(c, d, {})
  BY <1>2 DEF Quiet, Goes, Becomes
<1> QED
  BY <1>3, QuietInv

LEMMA ReplyQuiet ==
  ASSUME StoreInv, NEW c \in calls, NEW result, Reply(c, result), UNCHANGED rows
  PROVE  StoreInv'
<1> DEFINE d == Answer(c, result)
<1>1. IsCall(c)
  BY DEF StoreInv
<1>2. IsCall(d) /\ d.op = c.op /\ d.key = c.key /\ d.phase = "replied"
  BY <1>1 DEF IsCall, Answer
<1>3. Quiet(c, d, {})
  BY <1>2 DEF Quiet, Reply, Becomes
<1> QED
  BY <1>3, QuietInv

\* The answer joins the calls; the flushed transaction only changes its client.
LEMMA RespondInv ==
  ASSUME StoreInv, NEW c \in calls, Respond(c)
  PROVE  StoreInv'
<1> DEFINE d == [c EXCEPT !.client = "told"]
           a == Answer(c, Success(c))
<1>1. IsCall(c) /\ c.phase = "flushed" /\ UNCHANGED rows
  BY DEF StoreInv, Respond
<1>2. IsCall(d) /\ d.op = c.op /\ d.key = c.key
  BY <1>1 DEF IsCall
<1>3. IsCall(a) /\ a.phase # "flushed"
  BY <1>1 DEF IsCall, Answer
<1>4. calls' = (calls \ {c}) \cup {d, a}
  BY DEF Respond
<1> HIDE DEF d, a
<1>5. Quiet(c, d, {a})
  BY <1>1, <1>2, <1>3, <1>4 DEF Quiet
<1> QED
  BY <1>5, QuietInv

LEMMA FlushInsertInv ==
  ASSUME StoreInv, NEW c \in calls, FlushInsert(c)
  PROVE  StoreInv'
<1>1. CASE Existing(c) # {}
  BY <1>1, ReplyQuiet DEF FlushInsert
<1>2. CASE Existing(c) = {}
  <2> DEFINE d == [c EXCEPT !.phase = "flushed", !.seen = None]
  <2>1. /\ calls' = (calls \ {c}) \cup {d} /\ rows' = rows
        /\ c.op \in Tables /\ ~Blocked(c)
    BY <1>2 DEF FlushInsert, Goes, Becomes
  <2>2. IsCall(c)
    BY DEF StoreInv
  <2>3. IsCall(d) /\ d.op = c.op /\ d.key = c.key
    BY <2>2 DEF IsCall
  <2> HIDE DEF d
  <2>4. \A e \in Inserting : ~(e.op = c.op /\ e.key = c.key)
    BY <2>1 DEF Blocked, Inserting
  <2>5. \A e \in Inserting' : e \in Inserting \/ e = d
    BY <2>1 DEF Inserting
  <2>6. Existing(d)' = {}
    BY <1>2, <2>1, <2>3 DEF Existing
  <2>7. \A e : Existing(e)' = Existing(e)
    BY <2>1 DEF Existing
  <2>8. OwnsEntry'
    <3> SUFFICES ASSUME NEW e \in Inserting'
                 PROVE  /\ Existing(e)' = {}
                        /\ \A f \in Inserting' : f.op = e.op /\ f.key = e.key => f = e
      BY DEF OwnsEntry
    <3> QED
      BY <2>3, <2>4, <2>5, <2>6, <2>7 DEF StoreInv, OwnsEntry
  <2> QED
    BY <2>1, <2>3, <2>8 DEF StoreInv, OneRow, IsCall
<1> QED
  BY <1>1, <1>2

LEMMA CommitInsertInv ==
  ASSUME StoreInv, NEW c \in calls, CommitInsert(c)
  PROVE  StoreInv'
<1> DEFINE d == Answer(c, Success(c))
<1>1. /\ c \in Inserting
      /\ rows' = [rows EXCEPT ![c.op] = @ \cup {Row(c)}]
      /\ calls' \subseteq (calls \ {c}) \cup {d}
  BY DEF CommitInsert, Inserting, Reply, Becomes
<1>2. IsCall(d) /\ d.phase = "replied"
  <2>1. IsCall(c)
    BY DEF StoreInv
  <2> QED
    BY <2>1 DEF IsCall, Answer
<1> HIDE DEF d
<1>3. Row(c).key = c.key /\ Existing(c) = {} /\ c.op \in Tables
  BY <1>1 DEF Row, StoreInv, OwnsEntry, Inserting
<1>4. /\ rows'[c.op] = rows[c.op] \cup {Row(c)}
      /\ \A t \in Tables : t # c.op => rows'[t] = rows[t]
      /\ rows' = [t \in Tables |-> rows'[t]]
  BY <1>1, <1>3 DEF StoreInv
<1>5. OneRow'
  BY <1>3, <1>4 DEF StoreInv, OneRow, Existing
<1>6. \A e \in Inserting' : e \in Inserting /\ e # c
  BY <1>1, <1>2 DEF Inserting
<1>7. OwnsEntry'
  <2> SUFFICES ASSUME NEW e \in Inserting'
               PROVE  /\ Existing(e)' = {}
                      /\ \A f \in Inserting' : f.op = e.op /\ f.key = e.key => f = e
    BY DEF OwnsEntry
  <2>1. e \in Inserting /\ e.op \in Tables /\ Existing(e) = {}
    BY <1>6 DEF StoreInv, OwnsEntry, Inserting
  <2>2. ~(e.op = c.op /\ e.key = c.key)
    BY <1>1, <1>6, <2>1 DEF StoreInv, OwnsEntry
  <2>3. Existing(e)' = {}
    BY <1>3, <1>4, <2>1, <2>2 DEF Existing
  <2> QED
    BY <1>6, <2>1, <2>3 DEF StoreInv, OwnsEntry
<1> QED
  BY <1>1, <1>2, <1>4, <1>5, <1>7 DEF StoreInv, IsCall

LEMMA HandleInv ==
  ASSUME StoreInv, NEW c \in calls, Handle(c) \/ Rollback(c)
  PROVE  StoreInv'
<1>1. CASE Find(c)
  <2>1. (\E r : Reply(c, r)) \/ Goes(c, "checked", None)
    BY <1>1 DEF Find
  <2>2. UNCHANGED rows
    BY <1>1 DEF Find
  <2> QED
    BY <2>1, <2>2, ReplyQuiet, GoesQuiet
<1>2. CASE FlushInsert(c)
  BY <1>2, FlushInsertInv
<1>3. CASE CommitInsert(c)
  BY <1>3, CommitInsertInv
<1>4. CASE ReadSession(c)
  BY <1>4, GoesQuiet DEF ReadSession
<1>5. CASE FlushEnd(c)
  <2>1. CASE Ends(c) \/ Flags(c)
    <3> DEFINE d == [c EXCEPT !.phase = "flushed", !.seen = c.seen]
    <3>1. IsCall(c) /\ c.op = "end"
      BY <1>5 DEF StoreInv, FlushEnd
    <3>2. /\ calls' = (calls \ {c}) \cup {d} /\ rows' = rows
      BY <1>5, <2>1 DEF FlushEnd, Goes, Becomes
    <3>3. IsCall(d) /\ d.op = "end"
      BY <3>1 DEF IsCall
    <3> HIDE DEF d
    <3>4. Inserting' \subseteq Inserting /\ \A e : Existing(e)' = Existing(e)
      BY <3>2, <3>3 DEF Inserting, Tables, Existing
    <3> QED
      BY <3>2, <3>3, <3>4 DEF StoreInv, OneRow, OwnsEntry, IsCall
  <2>2. CASE ~(Ends(c) \/ Flags(c))
    BY <1>5, <2>2, ReplyQuiet DEF FlushEnd
  <2> QED
    BY <2>1, <2>2
<1>6. CASE CommitEnd(c)
  BY <1>6, ReplyQuiet DEF CommitEnd
<1>7. CASE Rollback(c)
  BY <1>7, ReplyQuiet DEF Rollback
<1>8. CASE Respond(c)
  BY <1>8, RespondInv
<1> QED
  BY <1>1, <1>2, <1>3, <1>4, <1>5, <1>6, <1>7, <1>8 DEF Handle

\* A run that moves on adds at most one call, which the backend has yet to see.
LEMMA MovesAdds ==
  ASSUME NEW w, NEW r, NEW others, Moves(w, r, others)
  PROVE  \E new : /\ calls' = others \cup new
                  /\ \A e \in new : IsCall(e) /\ e.phase # "flushed"
<1> DEFINE new == IF r.at \in {"done", "failed"} THEN {}
                  ELSE {Sent(w, r.attempt, r.at, Key(r), r.partial)}
<1>1. calls' = others \cup new
  BY DEF Moves
<1>2. \A e \in new : IsCall(e) /\ e.phase # "flushed"
  BY DEF Sent, IsCall
<1> HIDE DEF new
<1> QED
  BY <1>1, <1>2

LEMMA StartInv ==
  ASSUME StoreInv, NEW w \in Runs, Start(w) \/ Rerun(w)
  PROVE  StoreInv'
<1>1. UNCHANGED rows
  BY DEF Start, Rerun
<1>2. PICK r : Moves(w, r, calls)
  BY DEF Start, Rerun
<1>3. PICK new : /\ calls' = calls \cup new
                 /\ \A e \in new : IsCall(e) /\ e.phase # "flushed"
  BY <1>2, MovesAdds
<1>4. (\A e \in calls : IsCall(e))' /\ Inserting' = Inserting
  BY <1>3 DEF StoreInv, Inserting, IsCall
<1>5. \A e : Existing(e)' = Existing(e)
  BY <1>1 DEF Existing
<1> QED
  BY <1>1, <1>4, <1>5 DEF StoreInv, OneRow, OwnsEntry

LEMMA ReceiveInv ==
  ASSUME StoreInv, NEW c \in calls, Receive(c.who, c)
  PROVE  StoreInv'
<1>1. UNCHANGED rows /\ c.phase = "replied"
  BY DEF Receive
<1>2. PICK r : Moves(c.who, r, calls \ {c})
  BY DEF Receive
<1>3. PICK new : /\ calls' = (calls \ {c}) \cup new
                 /\ \A e \in new : IsCall(e) /\ e.phase # "flushed"
  BY <1>2, MovesAdds
<1>4. Quiet(c, c, new)
  BY <1>1, <1>3 DEF Quiet, StoreInv
<1> QED
  BY <1>4, QuietInv

LEMMA TimeoutInv ==
  ASSUME StoreInv, NEW c \in calls, Timeout(c.who, c)
  PROVE  StoreInv'
<1> DEFINE d == [c EXCEPT !.client = "gone"]
<1>1. UNCHANGED rows
  BY DEF Timeout
<1>2. PICK rest \in {{}, {d}} : \E r : Moves(c.who, r, (calls \ {c}) \cup rest)
  BY DEF Timeout
<1>3. PICK new : /\ calls' = ((calls \ {c}) \cup rest) \cup new
                 /\ \A e \in new : IsCall(e) /\ e.phase # "flushed"
  BY <1>2, MovesAdds
<1>4. IsCall(c)
  BY DEF StoreInv
<1>5. IsCall(d) /\ d.op = c.op /\ d.key = c.key /\ d.phase = c.phase
  BY <1>4 DEF IsCall
<1> HIDE DEF d
<1>6. Quiet(c, d, new)
  BY <1>1, <1>2, <1>3, <1>5 DEF Quiet
<1> QED
  BY <1>6, QuietInv

LEMMA NextInv ==
  ASSUME StoreInv, [Next]_vars
  PROVE  StoreInv'
<1>1. CASE \E w \in Runs : Start(w) \/ Rerun(w)
  BY <1>1, StartInv
<1>2. CASE \E c \in calls : Receive(c.who, c) \/ Timeout(c.who, c)
  BY <1>2, ReceiveInv, TimeoutInv
<1>3. CASE \E c \in calls : (Handle(c) \/ Rollback(c)) /\ UNCHANGED run
  BY <1>3, HandleInv
<1>4. CASE UNCHANGED vars
  BY <1>4 DEF vars, StoreInv, OneRow, OwnsEntry, Inserting, Existing, IsCall
<1> QED
  BY <1>1, <1>2, <1>3, <1>4 DEF Next

(* The strengthened invariant: whatever a handler has flushed and not yet   *)
(* committed owns its entry of the unique index.                            *)
THEOREM StoreInvariant == Spec => []StoreInv
<1>1. Init => StoreInv
  BY InitInv
<1>2. StoreInv /\ [Next]_vars => StoreInv'
  BY NextInv
<1> QED
  BY <1>1, <1>2, PTL DEF Spec

(* A shot has one row and a shot one diagnostic event, for any number of    *)
(* runs, retries and shots (the unique indexes behind ingest_shot and       *)
(* append_shot_event).                                                      *)
THEOREM StoredOnce == Spec => []OneRow
<1>1. StoreInv => OneRow
  BY DEF StoreInv
<1> QED
  BY <1>1, StoreInvariant, PTL

(* No step of any run or handler takes a stored shot or event away or       *)
(* changes it (the append-only ingest of ADR-0006).                         *)
THEOREM StoredForGood == Spec => AppendOnly
<1>1. ASSUME StoreInv, Next
      PROVE  \A t \in Tables : rows[t] \subseteq rows'[t]
  <2>1. CASE \E c \in calls : CommitInsert(c)
    BY <1>1, <2>1 DEF CommitInsert, StoreInv
  <2>2. CASE UNCHANGED rows
    BY <2>2
  <2> QED
    BY <1>1, <2>1, <2>2 DEF Next, Start, Rerun, Receive, Timeout, Handle, Rollback, Find,
       FlushInsert, ReadSession, FlushEnd, CommitEnd, Respond, vars
<1>2. StoreInv /\ [Next]_vars => [\A t \in Tables : rows[t] \subseteq rows'[t]]_vars
  BY <1>1
<1> QED
  BY <1>2, StoreInvariant, PTL DEF Spec, AppendOnly

-----------------------------------------------------------------------------
(* What the runs may rely on, unless the backend lost what it answered for. *)

EndPromised == session.ended # None \/ Told("end") # {}
AllDiagnosed == \A seq \in Seqs : Diagnosed(seq)
Listed(seq) == \E r \in Promised("shot") : r.key = <<seq>>

\* The fields of a run.
IsRun(r) == {"at", "seq", "shot", "attempt", "partial"} \subseteq DOMAIN r

\* A run r of w is where its worker or workflow can be, and has left nothing behind it.
Right(w, r) ==
  /\ IsRun(r) /\ r.at \in {"idle", "shot", "event", "end", "done", "failed"}
  /\ r.seq \in Nat /\ r.attempt \in Nat /\ r.partial \in BOOLEAN
  /\ r.at = "shot" => w \in Workers /\ r.seq < NShots
  /\ r.at = "event" => w \in Diagnosing /\ r.seq < NShots
  /\ r.at \in {"end", "done"} /\ w \in Workers => r.seq >= NShots
  /\ r.at # "idle" /\ w \in Workers => r.partial = (w \notin Diagnosing)
  /\ ~reneged =>
       /\ w \in Workers => \A seq \in Seqs : seq < r.seq =>
            Listed(seq) /\ (w \in Diagnosing => Diagnosed(seq))
       /\ r.at = "event" => [key |-> <<r.seq>>, id |-> r.shot] \in Promised("shot")
       /\ r.at = "done" => EndPromised

\* A call whose client waits is the one that its run is at.
Placed(c) ==
  /\ IsCall(c) /\ c.who \in Runs /\ c.op \in {"shot", "event", "end"}
  /\ c.attempt \in Nat /\ c.partial \in BOOLEAN /\ c.late \in BOOLEAN
  /\ c.client = "waits" => c.op = run[c.who].at /\ c.key = Key(run[c.who])
  /\ c.phase = "replied" => c.client = "waits"
  /\ c.client = "told" => c.phase = "flushed"

\* What end_session has read is still so, or the session was ended meanwhile.
EndRead(c) ==
  /\ c.late => session.ended # None
  /\ c.op = "end" /\ c.phase \in {"checked", "flushed"} =>
       /\ c.seen.ended # None => session.ended # None
       /\ c.late => c.seen.ended # None
       /\ session.ended = None => c.seen.ended = None /\ c.seen.partial = FALSE

\* Who ends the session without the partial flag has diagnosed every shot, or is
\* a workflow with that input.
Honest(c) ==
  c.op = "end" /\ c.partial = FALSE =>
    IF c.who \in Workers THEN reneged \/ AllDiagnosed
                         ELSE run[c.who].at # "idle" /\ run[c.who].partial = FALSE

\* An answer promises what it says.
Kept(c) ==
  c.phase = "replied" /\ c.result # Error /\ ~reneged =>
    /\ c.op \in Tables => c.result \in Promised(c.op) /\ c.result.key = c.key
    /\ c.op = "end" => EndPromised

CallRight(c) == Placed(c) /\ EndRead(c) /\ Honest(c) /\ Kept(c)

\* A run waits for one call.
OneWaits == \A c, d \in calls :
  c.client = "waits" /\ d.client = "waits" /\ c.who = d.who => c = d

SessionRight ==
  /\ session.partial \in BOOLEAN /\ (session.ended = None => session.partial = FALSE)
  /\ reneged \in BOOLEAN /\ DOMAIN run = Runs
  /\ \A t \in Tables : \A r \in rows[t] : r = [key |-> r.key, id |-> r.id]

\* Whoever ended the session last without the flag was honest.
Badge ==
  session.ended # None /\ session.partial = FALSE /\ ~reneged =>
    AllDiagnosed \/ \E f \in Finalizers : run[f].at # "idle" /\ run[f].partial = FALSE

RunInv == /\ \A w \in Runs : Right(w, run[w])
          /\ \A c \in calls : CallRight(c)
          /\ OneWaits /\ SessionRight /\ Badge

\* What no step takes back.
Onward ==
  /\ reneged => reneged'
  /\ ~reneged' => /\ \A t \in Tables : Promised(t) \subseteq Promised(t)'
                  /\ EndPromised => EndPromised'
  /\ session.ended # None => session'.ended # None
  /\ session'.ended = None => session' = session
  /\ \A w \in Runs : run[w].at # "idle" => run'[w].at # "idle" /\ run'[w].partial = run[w].partial

LEMMA DiagnosedOnward ==
  ASSUME Onward, ~reneged'
  PROVE  /\ \A seq \in Seqs : (Listed(seq) => Listed(seq)') /\ (Diagnosed(seq) => Diagnosed(seq)')
         /\ AllDiagnosed => AllDiagnosed'
<1>1. Promised("shot") \subseteq Promised("shot")' /\ Promised("event") \subseteq Promised("event")'
  BY DEF Onward, Tables
<1>2. \A seq \in Seqs : (Listed(seq) => Listed(seq)') /\ (Diagnosed(seq) => Diagnosed(seq)')
  BY <1>1 DEF Listed, Diagnosed
<1> QED
  BY <1>2 DEF AllDiagnosed

LEMMA RightOnward ==
  ASSUME Onward, NEW w \in Runs, NEW r, Right(w, r)
  PROVE  Right(w, r)'
<1>1. CASE reneged'
  BY <1>1 DEF Right
<1>2. CASE ~reneged'
  <2>1. ~reneged /\ Promised("shot") \subseteq Promised("shot")' /\ (EndPromised => EndPromised')
    BY <1>2 DEF Onward, Tables
  <2> QED
    BY <1>2, <2>1, DiagnosedOnward DEF Right
<1> QED
  BY <1>1, <1>2

LEMMA CallOnward ==
  ASSUME Onward, NEW c, CallRight(c), c.client = "waits" => run'[c.who] = run[c.who]
  PROVE  CallRight(c)'
<1>1. c.who \in Runs
  BY DEF CallRight, Placed
<1>2. Placed(c)'
  BY DEF CallRight, Placed
<1>3. EndRead(c)'
  BY DEF CallRight, EndRead, Onward
<1>4. Honest(c)'
  <2>1. CASE c.who \in Workers
    BY <2>1, DiagnosedOnward DEF CallRight, Honest, Onward
  <2>2. CASE c.who \notin Workers
    BY <1>1, <2>2 DEF CallRight, Honest, Onward
  <2> QED
    BY <2>1, <2>2
<1>5. Kept(c)'
  BY DEF CallRight, Kept, Onward
<1> QED
  BY <1>2, <1>3, <1>4, <1>5 DEF CallRight

LEMMA BadgeOnward ==
  ASSUME Badge, Onward, UNCHANGED session
  PROVE  Badge'
<1>1. SUFFICES ASSUME session.ended # None, session.partial = FALSE, ~reneged'
               PROVE  AllDiagnosed' \/ \E f \in Finalizers : run'[f].at # "idle" /\ run'[f].partial = FALSE
  BY DEF Badge
<1>2. AllDiagnosed \/ \E f \in Finalizers : run[f].at # "idle" /\ run[f].partial = FALSE
  BY <1>1 DEF Badge, Onward
<1> QED
  BY <1>1, <1>2, DiagnosedOnward DEF Onward, Runs

LEMMA RunInit ==
  ASSUME Init
  PROVE  RunInv
<1>1. /\ rows = [t \in Tables |-> {}] /\ session = [ended |-> None, partial |-> FALSE] /\ calls = {}
      /\ reneged = FALSE /\ run = [w \in Runs |-> Idle]
  BY DEF Init, ApiInit
<1>2. /\ IsRun(Idle) /\ Idle.at = "idle" /\ Idle.seq = 0 /\ Idle.attempt = 0 /\ Idle.partial = FALSE
      /\ \A seq \in Seqs : ~(seq < 0)
  BY PostAssumption DEF Idle, IsRun, Seqs
<1>3. \A w \in Runs : run[w] = Idle
  BY <1>1
<1> HIDE DEF Idle
<1>4. \A w \in Runs : Right(w, run[w])
  <2>1. IsRun(Idle) /\ Idle.at = "idle" /\ Idle.partial \in BOOLEAN
    BY <1>2, Zenon
  <2>2. /\ Idle.seq \in Nat /\ Idle.attempt \in Nat
        /\ \A seq \in Seqs : ~(seq < Idle.seq)
    BY <1>2
  <2>3. Idle.at \in {"idle", "shot", "event", "end", "done", "failed"}
    BY <2>1
  <2>4. Idle.at \notin {"shot", "event", "end", "done"} /\ ~(Idle.at # "idle")
    BY <2>1
  <2>5. \A w \in Runs : Right(w, Idle)
    BY <2>1, <2>2, <2>3, <2>4, Zenon DEF Right
  <2> QED
    BY <1>3, <2>5
<1>5. SessionRight /\ Badge
  BY <1>1 DEF SessionRight, Badge
<1> QED
  BY <1>1, <1>4, <1>5 DEF RunInv, OneWaits
-----------------------------------------------------------------------------
(* The backend's steps. *)

\* A handler replaces its call by others; one of them waits if it did.
LEMMA BackendStep ==
  ASSUME RunInv, NEW c \in calls, UNCHANGED run, Onward, SessionRight', Badge', NEW new,
         calls' \subseteq (calls \ {c}) \cup new,
         \A d \in new : CallRight(d)' /\ (d.client = "waits" => c.client = "waits" /\ d.who = c.who),
         \A d, e \in new : d.client = "waits" /\ e.client = "waits" => d = e
  PROVE  RunInv'
<1>1. \A w \in Runs : Right(w, run[w])'
  <2>1. \A w \in Runs : \A r : Right(w, r) => Right(w, r)'
    BY RightOnward
  <2> QED
    BY <2>1 DEF RunInv, Right
<1>2. \A d \in calls' : CallRight(d)'
  BY CallOnward DEF RunInv
<1>3. OneWaits'
  BY DEF RunInv, OneWaits
<1> QED
  BY <1>1, <1>2, <1>3 DEF RunInv

\* Nothing promised goes when a handler leaves tables and session alone and its
\* client was not told anything yet.
LEMMA QuietOnward ==
  ASSUME RunInv, NEW c \in calls, c.client # "told", UNCHANGED <<rows, session, run, reneged>>,
         calls \ {c} \subseteq calls'
  PROVE  Onward /\ SessionRight' /\ Badge'
<1>1. \A op : Told(op) \subseteq Told(op)'
  BY DEF Told
<1>2. \A t \in Tables : Promised(t) \subseteq Promised(t)'
  BY <1>1 DEF Promised
<1>3. EndPromised => EndPromised'
  BY <1>1 DEF EndPromised
<1>4. Onward
  BY <1>2, <1>3 DEF Onward
<1> QED
  BY <1>4, BadgeOnward DEF RunInv, SessionRight

\* A call moves on that has flushed nothing: what it has read is right.
LEMMA GoesRight ==
  ASSUME RunInv, NEW c \in calls, NEW phase \in {"checked", "flushed"}, NEW seen,
         Goes(c, phase, seen), c.phase # "flushed", UNCHANGED <<rows, session, run, reneged>>,
         c.op = "end" => /\ seen.ended # None => session.ended # None
                         /\ c.late => seen.ended # None
                         /\ session.ended = None => seen.ended = None /\ seen.partial = FALSE
  PROVE  RunInv'
<1> DEFINE d == [c EXCEPT !.phase = phase, !.seen = seen]
<1>1. CallRight(c) /\ c.client # "told"
  BY DEF RunInv, CallRight, Placed
<1>2. IsCall(c)
  BY <1>1 DEF CallRight, Placed
<1>3. /\ IsCall(d) /\ d.phase = phase /\ d.seen = seen
      /\ d.who = c.who /\ d.attempt = c.attempt /\ d.op = c.op /\ d.key = c.key
      /\ d.partial = c.partial /\ d.late = c.late /\ d.client = c.client
  BY <1>2 DEF IsCall
<1>4. calls' = (calls \ {c}) \cup {d}
  BY DEF Goes, Becomes
<1> HIDE DEF d
<1>5. Onward /\ SessionRight' /\ Badge'
  BY <1>1, <1>4, QuietOnward
<1>6. CallRight(c)'
  BY <1>1, <1>5, CallOnward
<1>7. Placed(d)'
  BY <1>1, <1>3, <1>6 DEF CallRight, Placed
<1>8. EndRead(d)'
  BY <1>3, <1>6 DEF CallRight, EndRead
<1>9. Honest(d)' /\ Kept(d)'
  BY <1>3, <1>6 DEF CallRight, Honest, Kept
<1>10. CallRight(d)'
  BY <1>7, <1>8, <1>9 DEF CallRight
<1>11. /\ calls' \subseteq (calls \ {c}) \cup {d}
       /\ \A e \in {d} : CallRight(e)' /\ (e.client = "waits" => c.client = "waits" /\ e.who = c.who)
       /\ \A e, f \in {d} : e.client = "waits" /\ f.client = "waits" => e = f
  BY <1>3, <1>4, <1>10
<1> QED
  BY <1>5, <1>11, BackendStep

\* A handler ends with an answer that is kept.
LEMMA ReplyRight ==
  ASSUME RunInv, NEW c \in calls, NEW result, Reply(c, result), UNCHANGED run,
         Onward, SessionRight', Badge',
         result # Error /\ ~reneged' =>
           /\ c.op \in Tables => result \in Promised(c.op)' /\ result.key = c.key
           /\ c.op = "end" => EndPromised'
  PROVE  RunInv'
<1>1. CallRight(c)
  BY DEF RunInv
<1>2. CASE c.client # "waits"
  <2>1. PICK new : /\ calls' \subseteq (calls \ {c}) \cup new
                   /\ new = {}
    BY <1>2 DEF Reply
  <2>2. /\ \A d \in new : CallRight(d)' /\ (d.client = "waits" => c.client = "waits" /\ d.who = c.who)
        /\ \A d, e \in new : d.client = "waits" /\ e.client = "waits" => d = e
    BY <2>1
  <2> QED
    BY <2>1, <2>2, BackendStep
<1>3. CASE c.client = "waits"
  <2> DEFINE d == Answer(c, result)
  <2>1. IsCall(c)
    BY <1>1 DEF CallRight, Placed
  <2>2. /\ IsCall(d) /\ d.phase = "replied" /\ d.result = result
        /\ d.who = c.who /\ d.attempt = c.attempt /\ d.op = c.op /\ d.key = c.key
        /\ d.partial = c.partial /\ d.late = c.late /\ d.client = "waits"
    BY <1>3, <2>1 DEF IsCall, Answer
  <2>3. calls' = (calls \ {c}) \cup {d}
    BY <1>3 DEF Reply, Becomes
  <2> HIDE DEF d
  <2>4. CallRight(c)'
    BY <1>1, CallOnward
  <2>5. Placed(d)'
    BY <1>3, <2>2, <2>4 DEF CallRight, Placed
  <2>6. EndRead(d)' /\ Honest(d)'
    BY <2>2, <2>4 DEF CallRight, EndRead, Honest
  <2>7. Kept(d)'
    BY <2>2 DEF Kept
  <2>8. CallRight(d)'
    BY <2>5, <2>6, <2>7 DEF CallRight
  <2>9. /\ calls' \subseteq (calls \ {c}) \cup {d}
        /\ \A e \in {d} : CallRight(e)' /\ (e.client = "waits" => c.client = "waits" /\ e.who = c.who)
        /\ \A e, f \in {d} : e.client = "waits" /\ f.client = "waits" => e = f
    BY <1>3, <2>2, <2>3, <2>8
  <2> QED
    BY <2>9, BackendStep
<1> QED
  BY <1>2, <1>3

LEMMA FindRight ==
  ASSUME RunInv, NEW c \in calls, Find(c), UNCHANGED run
  PROVE  RunInv'
<1>1. /\ c.op \in Tables /\ c.op # "end" /\ c.phase # "flushed"
      /\ UNCHANGED <<rows, session, run, reneged>>
  BY DEF Find, Tables
<1>2. CASE Goes(c, "checked", None)
  BY <1>1, <1>2, GoesRight
<1>3. CASE \E result : Reply(c, result) /\ (result # Error => result \in Existing(c))
  <2>1. PICK result : Reply(c, result) /\ (result # Error => result \in Existing(c))
    BY <1>3
  <2>2. c.client # "told" /\ calls \ {c} \subseteq calls'
    BY <1>1, <2>1 DEF RunInv, CallRight, Placed, Reply, Becomes
  <2>3. Onward /\ SessionRight' /\ Badge'
    BY <1>1, <2>2, QuietOnward
  <2>4. result # Error => result \in Promised(c.op)' /\ result.key = c.key
    BY <1>1, <2>1 DEF Existing, Promised
  <2> QED
    BY <1>1, <2>1, <2>3, <2>4, ReplyRight
<1> QED
  BY <1>2, <1>3 DEF Find

LEMMA FlushInsertRight ==
  ASSUME RunInv, NEW c \in calls, FlushInsert(c), UNCHANGED run
  PROVE  RunInv'
<1>1. /\ c.op # "end" /\ c.phase # "flushed"
      /\ UNCHANGED <<rows, session, run, reneged>>
  BY DEF FlushInsert, Tables
<1>2. CASE Goes(c, "flushed", None)
  BY <1>1, <1>2, GoesRight
<1>3. CASE Reply(c, Error)
  <2>1. c.client # "told" /\ calls \ {c} \subseteq calls'
    BY <1>1, <1>3 DEF RunInv, CallRight, Placed, Reply, Becomes
  <2>2. Onward /\ SessionRight' /\ Badge'
    BY <1>1, <2>1, QuietOnward
  <2> QED
    BY <1>1, <1>3, <2>2, ReplyRight
<1> QED
  BY <1>2, <1>3 DEF FlushInsert

\* The row that was promised is stored.
LEMMA CommitInsertRight ==
  ASSUME StoreInv, RunInv, NEW c \in calls, CommitInsert(c), UNCHANGED run
  PROVE  RunInv'
<1>1. /\ c.op \in Tables /\ c.op # "end" /\ calls \ {c} \subseteq calls'
      /\ UNCHANGED <<session, run, reneged>>
  BY DEF CommitInsert, Tables, Reply, Becomes
<1>2. /\ rows'[c.op] = rows[c.op] \cup {Row(c)}
      /\ \A t \in Tables : t # c.op => rows'[t] = rows[t]
  BY <1>1 DEF CommitInsert, StoreInv
<1>3. \A t \in Tables : Promised(t) \subseteq Promised(t)'
  BY <1>1, <1>2 DEF Promised, Told
<1>4. EndPromised => EndPromised'
  BY <1>1 DEF EndPromised, Told
<1>5. Onward
  BY <1>1, <1>3, <1>4 DEF Onward
<1>6. Row(c) = [key |-> Row(c).key, id |-> Row(c).id] /\ Row(c).key = c.key
  BY DEF Row
<1>7. SessionRight'
  BY <1>1, <1>2, <1>6 DEF RunInv, SessionRight
<1>8. Badge'
  BY <1>1, <1>5, BadgeOnward DEF RunInv
<1>9. Reply(c, Row(c))
  BY <1>1 DEF CommitInsert, Success
<1>10. Row(c) \in Promised(c.op)'
  BY <1>2 DEF Promised
<1> QED
  BY <1>1, <1>5, <1>6, <1>7, <1>8, <1>9, <1>10, ReplyRight

LEMMA ReadSessionRight ==
  ASSUME RunInv, NEW c \in calls, ReadSession(c), UNCHANGED run
  PROVE  RunInv'
<1>1. /\ Goes(c, "checked", session) /\ c.phase # "flushed"
      /\ UNCHANGED <<rows, session, run, reneged>>
  BY DEF ReadSession
<1>2. /\ c.late => session.ended # None
      /\ session.ended = None => session.partial = FALSE
  BY DEF RunInv, CallRight, EndRead, SessionRight
<1> QED
  BY <1>1, <1>2, GoesRight

LEMMA FlushEndRight ==
  ASSUME RunInv, NEW c \in calls, FlushEnd(c), UNCHANGED run
  PROVE  RunInv'
<1>1. /\ c.op = "end" /\ c.op \notin Tables /\ c.phase = "checked"
      /\ UNCHANGED <<rows, session, run, reneged>>
  BY DEF FlushEnd, Tables
<1>2. /\ c.seen.ended # None => session.ended # None
      /\ c.late => c.seen.ended # None
      /\ session.ended = None => c.seen.ended = None /\ c.seen.partial = FALSE
  BY <1>1 DEF RunInv, CallRight, EndRead
<1>3. CASE Goes(c, "flushed", c.seen)
  BY <1>1, <1>2, <1>3, GoesRight
<1>4. CASE Reply(c, None) /\ ~Ends(c)
  <2>1. c.client # "told" /\ calls \ {c} \subseteq calls'
    BY <1>1, <1>4 DEF RunInv, CallRight, Placed, Reply, Becomes
  <2>2. Onward /\ SessionRight' /\ Badge'
    BY <1>1, <2>1, QuietOnward
  <2>3. EndPromised'
    BY <1>1, <1>2, <1>4 DEF EndPromised, Ends
  <2> QED
    BY <1>1, <1>4, <2>2, <2>3, ReplyRight
<1> QED
  BY <1>3, <1>4 DEF FlushEnd

\* A time stamp is not None.
LEMMA StampSet ==
  ASSUME NEW c, c.who \in Runs, c.attempt \in Nat, c.late \in BOOLEAN
  PROVE  Stamp(c) # None
  BY PostAssumption DEF Stamp, Runs

LEMMA CommitEndRight ==
  ASSUME RunInv, NEW c \in calls, CommitEnd(c), UNCHANGED run
  PROVE  RunInv'
<1>1. /\ c.op = "end" /\ c.op \notin Tables /\ c.phase = "flushed"
      /\ UNCHANGED <<rows, run, reneged>> /\ calls \ {c} \subseteq calls'
  BY DEF CommitEnd, Tables, Reply, Becomes
<1>2. CallRight(c) /\ Stamp(c) # None /\ c.partial \in BOOLEAN
  BY StampSet DEF RunInv, CallRight, Placed
<1>3. /\ c.seen.ended # None => session.ended # None
      /\ session.ended = None => c.seen.ended = None /\ c.seen.partial = FALSE
  BY <1>1, <1>2 DEF CallRight, EndRead
<1>4. /\ session'.ended = (IF Ends(c) THEN Stamp(c) ELSE session.ended)
      /\ session'.partial = (IF Flags(c) THEN c.partial ELSE session.partial)
  BY DEF CommitEnd
<1>5. session'.ended # None
  BY <1>2, <1>3, <1>4 DEF Ends
<1>6. \A t \in Tables : Promised(t) \subseteq Promised(t)'
  BY <1>1 DEF Promised, Told
<1>7. EndPromised'
  BY <1>5 DEF EndPromised
<1>8. Onward
  BY <1>1, <1>5, <1>6, <1>7 DEF Onward
<1>9. SessionRight'
  BY <1>1, <1>2, <1>4, <1>5 DEF RunInv, SessionRight
<1>10. Badge'
  <2>1. SUFFICES ASSUME session'.partial = FALSE, ~reneged'
                 PROVE  \/ AllDiagnosed'
                        \/ \E f \in Finalizers : run'[f].at # "idle" /\ run'[f].partial = FALSE
    BY DEF Badge
  <2>2. CASE c.partial = FALSE
    BY <1>1, <1>2, <1>8, <2>1, <2>2, DiagnosedOnward DEF CallRight, Placed, Honest, Runs
  <2>3. CASE c.partial # FALSE
    <3>1. session.partial = FALSE /\ session.ended # None
      BY <1>3, <1>4, <2>1, <2>3 DEF Flags
    <3> QED
      BY <1>1, <1>8, <2>1, <3>1, DiagnosedOnward DEF RunInv, Badge
  <2> QED
    BY <2>2, <2>3
<1>11. Reply(c, None)
  BY <1>1 DEF CommitEnd, Success
<1> QED
  BY <1>1, <1>7, <1>8, <1>9, <1>10, <1>11, ReplyRight

\* The client is told of what only waits for its commit.
LEMMA RespondRight ==
  ASSUME RunInv, NEW c \in calls, Respond(c), UNCHANGED run
  PROVE  RunInv'
<1>1. CallRight(c) /\ IsCall(c)
  BY DEF RunInv, CallRight, Placed
<1>2. PICK d, a : d = [c EXCEPT !.client = "told"] /\ a = Answer(c, Success(c))
  OBVIOUS
<1>3. /\ IsCall(d) /\ d.phase = "flushed" /\ d.seen = c.seen
      /\ d.who = c.who /\ d.attempt = c.attempt /\ d.op = c.op /\ d.key = c.key
      /\ d.partial = c.partial /\ d.late = c.late /\ d.client = "told"
  BY <1>1, <1>2 DEF IsCall, Respond
<1>4. /\ IsCall(a) /\ a.phase = "replied" /\ a.result = Success(c)
      /\ a.who = c.who /\ a.attempt = c.attempt /\ a.op = c.op /\ a.key = c.key
      /\ a.partial = c.partial /\ a.late = c.late /\ a.client = "waits"
  BY <1>1, <1>2 DEF IsCall, Respond, Answer
<1>5. /\ calls' = (calls \ {c}) \cup {d, a} /\ c.phase = "flushed" /\ c.client = "waits"
      /\ UNCHANGED <<rows, session, run, reneged>>
  BY <1>2 DEF Respond
<1>6. Onward /\ SessionRight' /\ Badge'
  BY <1>5, QuietOnward
<1>7. CallRight(c)'
  BY <1>1, <1>5, <1>6, CallOnward
<1>8. CallRight(d)'
  BY <1>3, <1>5, <1>7 DEF CallRight, Placed, EndRead, Honest, Kept
<1>9. d \in Told(c.op)'
  BY <1>3, <1>5 DEF Told
<1>10. Kept(a)'
  <2>1. CASE c.op \in Tables
    <3>1. Success(c) = Row(d) /\ Row(d).key = c.key /\ c.op # "end"
      BY <1>3, <2>1 DEF Success, Row, Id, Tables
    <3>2. Row(d) \in Promised(c.op)'
      BY <1>9 DEF Promised
    <3> QED
      BY <1>4, <3>1, <3>2 DEF Kept
  <2>2. CASE c.op \notin Tables
    <3>1. c.op = "end" => EndPromised'
      BY <1>9 DEF EndPromised
    <3> QED
      BY <1>4, <2>2, <3>1 DEF Kept
  <2> QED
    BY <2>1, <2>2
<1>11. CallRight(a)'
  BY <1>4, <1>5, <1>7, <1>10 DEF CallRight, Placed, EndRead, Honest
<1>12. /\ calls' \subseteq (calls \ {c}) \cup {d, a}
       /\ \A e \in {d, a} : CallRight(e)' /\ (e.client = "waits" => c.client = "waits" /\ e.who = c.who)
       /\ \A e, f \in {d, a} : e.client = "waits" /\ f.client = "waits" => e = f
  BY <1>3, <1>4, <1>5, <1>8, <1>11
<1> QED
  BY <1>5, <1>6, <1>12, BackendStep

LEMMA RollbackRight ==
  ASSUME RunInv, NEW c \in calls, Rollback(c), UNCHANGED run
  PROVE  RunInv'
<1>1. /\ Reply(c, Error) /\ reneged' = (reneged \/ c.client = "told")
      /\ UNCHANGED <<rows, session, run>> /\ calls \ {c} \subseteq calls'
  BY DEF Rollback, Reply, Becomes
<1>2. CASE c.client = "told"
  <2>1. reneged'
    BY <1>1, <1>2
  <2>2. Onward /\ Badge'
    BY <1>1, <2>1 DEF Onward, Badge
  <2>3. SessionRight'
    BY <1>1 DEF RunInv, SessionRight
  <2> QED
    BY <1>1, <2>2, <2>3, ReplyRight
<1>3. CASE c.client # "told"
  <2>1. UNCHANGED reneged
    BY <1>1, <1>3 DEF RunInv, SessionRight
  <2>2. Onward /\ SessionRight' /\ Badge'
    BY <1>1, <1>3, <2>1, QuietOnward
  <2> QED
    BY <1>1, <2>2, ReplyRight
<1> QED
  BY <1>2, <1>3
-----------------------------------------------------------------------------
(* The clients' steps. *)

LEMMA BeforeRight ==
  ASSUME NEW w \in Runs, NEW r, NEW seq \in Nat,
         IsRun(r), r.attempt \in Nat, r.partial \in BOOLEAN,
         w \in Workers => r.partial = (w \notin Diagnosing),
         ~reneged /\ w \in Workers =>
           \A n \in Seqs : n < seq => Listed(n) /\ (w \in Diagnosing => Diagnosed(n))
  PROVE  /\ Right(w, Before(w, r, seq))
         /\ Before(w, r, seq).at \in {"shot", "end"}
         /\ Before(w, r, seq).partial = r.partial
<1> DEFINE b == Before(w, r, seq)
<1>1. /\ IsRun(b) /\ b.seq = seq /\ b.attempt = r.attempt /\ b.partial = r.partial
      /\ b.at = (IF w \in Workers /\ seq < NShots THEN "shot" ELSE "end")
  BY DEF IsRun, Before
<1> HIDE DEF b
<1>2. /\ b.at \in {"shot", "end"}
      /\ b.at = "shot" => w \in Workers /\ b.seq < NShots
      /\ b.at = "end" /\ w \in Workers => b.seq >= NShots
  BY <1>1, PostAssumption
<1>3. Right(w, b)
  BY <1>1, <1>2 DEF Right
<1> QED
  BY <1>1, <1>2, <1>3 DEF b

LEMMA AttemptRight ==
  ASSUME NEW w \in Runs, NEW r, IsRun(r), r.attempt \in Nat, r.partial \in BOOLEAN,
         w \in Workers => r.partial = (w \notin Diagnosing)
  PROVE  /\ Right(w, Attempt(w, r))
         /\ Attempt(w, r).at \in {"shot", "end"}
         /\ Attempt(w, r).partial = r.partial
<1> DEFINE n == [r EXCEPT !.attempt = @ + 1]
<1>1. IsRun(n) /\ n.attempt = r.attempt + 1 /\ n.partial = r.partial
  BY DEF IsRun
<1>2. Attempt(w, r) = Before(w, n, 0)
  BY DEF Attempt
<1> HIDE DEF n
<1>3. \A m \in Seqs : ~(m < 0)
  BY PostAssumption DEF Seqs
<1>4. n.attempt \in Nat /\ 0 \in Nat
  BY <1>1
<1> QED
  BY <1>1, <1>2, <1>3, <1>4, BeforeRight

LEMMA AgainRight ==
  ASSUME NEW w \in Runs, NEW r, Right(w, r), r.at # "idle"
  PROVE  /\ Right(w, Again(w, r))
         /\ Again(w, r).at # "idle" /\ Again(w, r).partial = r.partial
<1>1. /\ IsRun(r) /\ r.attempt \in Nat /\ r.partial \in BOOLEAN
      /\ w \in Workers => r.partial = (w \notin Diagnosing)
  BY DEF Right
<1>2. CASE w \in Finalizers /\ r.attempt < MaxAttempts
  BY <1>1, <1>2, AttemptRight DEF Again
<1>3. CASE ~(w \in Finalizers /\ r.attempt < MaxAttempts)
  <2> DEFINE f == [r EXCEPT !.at = "failed"]
  <2>1. Again(w, r) = f
    BY <1>3 DEF Again
  <2>2. /\ IsRun(f) /\ f.at = "failed" /\ f.seq = r.seq /\ f.shot = r.shot
        /\ f.attempt = r.attempt /\ f.partial = r.partial
    BY <1>1 DEF IsRun
  <2> HIDE DEF f
  <2>3. Right(w, f)
    BY <2>2 DEF Right
  <2> QED
    BY <2>1, <2>2, <2>3
<1> QED
  BY <1>2, <1>3

\* A run goes on with the answer to the call it is at.
LEMMA ProceedsRight ==
  ASSUME SessionRight, NEW w \in Runs, NEW r, Right(w, r), NEW c, Kept(c),
         c.phase = "replied", c.result # Error,
         c.op \in {"shot", "event", "end"}, c.op = r.at, c.key = Key(r)
  PROVE  /\ Right(w, Proceeds(w, r, c))
         /\ Proceeds(w, r, c).at # "idle" /\ Proceeds(w, r, c).partial = r.partial
<1>1. /\ IsRun(r) /\ r.seq \in Nat /\ r.attempt \in Nat /\ r.partial \in BOOLEAN
      /\ w \in Workers => r.partial = (w \notin Diagnosing)
      /\ r.seq + 1 \in Nat
  BY DEF Right
<1>2. ~reneged => /\ c.op \in Tables => c.result \in Promised(c.op) /\ c.result.key = c.key
                  /\ c.op = "end" => EndPromised
  BY DEF Kept
<1>3. CASE r.at = "shot"
  <2>1. w \in Workers /\ r.seq < NShots /\ c.key = <<r.seq>>
    BY <1>3 DEF Right, Key
  <2>2. ~reneged => c.result \in Promised("shot") /\ c.result.key = <<r.seq>>
    BY <1>2, <1>3, <2>1 DEF Tables
  <2>3. CASE w \in Diagnosing
    <3> DEFINE e == [r EXCEPT !.at = "event", !.shot = c.result.id]
    <3>1. Proceeds(w, r, c) = e
      BY <1>3, <2>3 DEF Proceeds, ProceedsTo
    <3>2. /\ IsRun(e) /\ e.at = "event" /\ e.seq = r.seq /\ e.shot = c.result.id
          /\ e.attempt = r.attempt /\ e.partial = r.partial
      BY <1>1 DEF IsRun
    <3> HIDE DEF e
    <3>3. \A p \in Promised("shot") : p = [key |-> p.key, id |-> p.id]
      BY DEF SessionRight, Promised, Row, Tables
    <3>4. ~reneged => [key |-> <<e.seq>>, id |-> e.shot] \in Promised("shot")
      BY <2>2, <3>2, <3>3
    <3>5. Right(w, e)
      BY <2>1, <2>3, <3>2, <3>4 DEF Right
    <3> QED
      BY <3>1, <3>2, <3>5
  <2>4. CASE w \notin Diagnosing
    <3>1. Proceeds(w, r, c) = Before(w, r, r.seq + 1)
      BY <1>3, <2>4 DEF Proceeds, ProceedsTo
    <3>2. ~reneged => Listed(r.seq)
      BY <2>2 DEF Listed
    <3>3. ~reneged => \A n \in Seqs : n < r.seq + 1 => Listed(n)
      <4>1. \A n \in Seqs : n < r.seq + 1 => n < r.seq \/ n = r.seq
        BY <1>1, PostAssumption DEF Seqs
      <4> QED
        BY <2>1, <3>2, <4>1 DEF Right
    <3> QED
      BY <1>1, <2>4, <3>1, <3>3, BeforeRight
  <2> QED
    BY <2>3, <2>4
<1>4. CASE r.at = "event"
  <2>1. w \in Diagnosing /\ w \in Workers /\ c.key = r.shot
    BY <1>4, PostAssumption DEF Right, Key
  <2>2. Proceeds(w, r, c) = Before(w, r, r.seq + 1)
    BY <1>4 DEF Proceeds, ProceedsTo
  <2>3. ~reneged => c.result \in Promised("event") /\ c.result.key = r.shot
    BY <1>2, <1>4, <2>1 DEF Tables
  <2>4. ~reneged => [key |-> <<r.seq>>, id |-> r.shot] \in Promised("shot")
    BY <1>4 DEF Right
  <2>5. ~reneged => Listed(r.seq) /\ Diagnosed(r.seq)
    BY <2>3, <2>4 DEF Listed, Diagnosed
  <2>6. ~reneged => \A n \in Seqs : n < r.seq + 1 => Listed(n) /\ Diagnosed(n)
    <3>1. \A n \in Seqs : n < r.seq + 1 => n < r.seq \/ n = r.seq
      BY <1>1, PostAssumption DEF Seqs
    <3> QED
      BY <2>1, <2>5, <3>1 DEF Right
  <2> QED
    BY <1>1, <2>2, <2>6, BeforeRight
<1>5. CASE r.at = "end"
  <2> DEFINE f == [r EXCEPT !.at = "done"]
  <2>1. Proceeds(w, r, c) = f
    BY <1>5 DEF Proceeds, ProceedsTo
  <2>2. /\ IsRun(f) /\ f.at = "done" /\ f.seq = r.seq /\ f.shot = r.shot
        /\ f.attempt = r.attempt /\ f.partial = r.partial
    BY <1>1 DEF IsRun
  <2> HIDE DEF f
  <2>3. Right(w, f)
    BY <1>2, <1>5, <2>2 DEF Right
  <2> QED
    BY <2>1, <2>2, <2>3
<1> QED
  BY <1>3, <1>4, <1>5

\* The run w moves on to r, of its calls only abandoned ones are left.
LEMMA MovesRight ==
  ASSUME RunInv, NEW w \in Runs, NEW r, NEW others, Moves(w, r, others),
         UNCHANGED <<rows, session, reneged>>,
         Right(w, r), r.at # "idle", run[w].at # "idle" => r.partial = run[w].partial,
         \A c \in others : CallRight(c) /\ (c.client = "waits" => c \in calls /\ c.who # w),
         \A c \in calls : c.client = "told" => c \in others
  PROVE  RunInv'
<1>1. run' = [run EXCEPT ![w] = r] /\ DOMAIN run = Runs
  BY DEF Moves, RunInv, SessionRight
<1>2. run'[w] = r /\ \A v \in Runs : v # w => run'[v] = run[v]
  BY <1>1
<1>3. PICK new : /\ calls' = others \cup new
                 /\ new = IF r.at \in {"done", "failed"} THEN {}
                          ELSE {Sent(w, r.attempt, r.at, Key(r), r.partial)}
  BY DEF Moves
<1>4. \A op : Told(op) \subseteq Told(op)'
  BY <1>3 DEF Told
<1>5. \A t \in Tables : Promised(t) \subseteq Promised(t)'
  BY <1>4 DEF Promised
<1>6. EndPromised => EndPromised'
  BY <1>4 DEF EndPromised
<1>7. Onward
  BY <1>2, <1>5, <1>6 DEF Onward
<1>8. SessionRight'
  BY <1>1 DEF RunInv, SessionRight
<1>9. Badge'
  BY <1>7, BadgeOnward DEF RunInv
<1>10. \A v \in Runs : Right(v, run[v])'
  <2>1. \A v \in Runs : \A s : Right(v, s) => Right(v, s)'
    BY <1>7, RightOnward
  <2>2. \A v \in Runs : Right(v, run'[v])
    BY <1>2 DEF RunInv
  <2> QED
    BY <2>1, <2>2 DEF Right
<1>11. \A c \in others : CallRight(c)'
  BY <1>2, <1>7, CallOnward DEF CallRight, Placed
<1>12. \A c \in new : /\ c.who = w /\ c.client = "waits" /\ c.phase = "received" /\ IsCall(c)
                       /\ c.attempt = r.attempt /\ c.op = r.at /\ c.key = Key(r)
                       /\ c.partial = r.partial /\ c.late = (session.ended # None)
                       /\ r.at \in {"shot", "event", "end"}
  BY <1>3 DEF Sent, IsCall, Right
<1>13. \A c \in new : CallRight(c)'
  <2> SUFFICES ASSUME NEW c \in new
               PROVE  CallRight(c)'
    OBVIOUS
  <2>1. Placed(c)'
    BY <1>2, <1>12 DEF Placed, Right
  <2>2. EndRead(c)'
    BY <1>12 DEF EndRead
  <2>3. Honest(c)'
    <3>1. SUFFICES ASSUME r.at = "end", r.partial = FALSE
                   PROVE  IF w \in Workers THEN reneged' \/ AllDiagnosed'
                          ELSE run'[w].at # "idle" /\ run'[w].partial = FALSE
      BY <1>12 DEF Honest
    <3>2. CASE w \in Workers /\ ~reneged'
      <4>1. w \in Diagnosing /\ r.seq >= NShots /\ r.seq \in Nat
        BY <3>1, <3>2 DEF Right
      <4>2. \A seq \in Seqs : seq < r.seq
        BY <4>1, PostAssumption DEF Seqs
      <4>3. AllDiagnosed
        BY <3>2, <4>1, <4>2 DEF Right, AllDiagnosed
      <4> QED
        BY <1>7, <3>2, <4>3, DiagnosedOnward
    <3>3. CASE w \in Workers /\ reneged'
      BY <3>3
    <3>4. CASE w \notin Workers
      BY <1>2, <3>1, <3>4
    <3> QED
      BY <3>2, <3>3, <3>4
  <2>4. Kept(c)'
    BY <1>12 DEF Kept
  <2> QED
    BY <2>1, <2>2, <2>3, <2>4 DEF CallRight
<1>14. OneWaits'
  <2>1. \A c, d \in new : c = d
    BY <1>3
  <2> QED
    BY <1>3, <1>12, <2>1 DEF RunInv, OneWaits
<1> QED
  BY <1>3, <1>8, <1>9, <1>10, <1>11, <1>13, <1>14 DEF RunInv

LEMMA StartRight ==
  ASSUME RunInv, NEW w \in Runs, Start(w)
  PROVE  RunInv'
<1>1. run[w].at = "idle" /\ UNCHANGED <<rows, session, reneged>>
  BY DEF Start
<1>2. PICK partial \in IF w \in Workers THEN {w \notin Diagnosing} ELSE BOOLEAN :
        Moves(w, Attempt(w, [run[w] EXCEPT !.partial = partial]), calls)
  BY DEF Start
<1>3. partial \in BOOLEAN /\ (w \in Workers => partial = (w \notin Diagnosing))
  BY <1>2
<1>4. PICK r : r = [run[w] EXCEPT !.partial = partial]
  OBVIOUS
<1>5. IsRun(run[w]) /\ run[w].attempt \in Nat
  BY DEF RunInv, Right
<1>6. IsRun(r) /\ r.attempt \in Nat /\ r.partial = partial
  BY <1>4, <1>5 DEF IsRun
<1>7. Right(w, Attempt(w, r)) /\ Attempt(w, r).at # "idle"
  BY <1>3, <1>6, AttemptRight
<1>8. \A c \in calls : CallRight(c) /\ (c.client = "waits" => c.who # w)
  BY <1>1 DEF RunInv, CallRight, Placed
<1>9. Moves(w, Attempt(w, r), calls)
  BY <1>2, <1>4
<1> QED
  BY <1>1, <1>7, <1>8, <1>9, MovesRight

\* A worker that is started again has nothing in flight but what was given up.
LEMMA RerunRight ==
  ASSUME RunInv, NEW w \in Runs, Rerun(w)
  PROVE  RunInv'
<1>1. run[w].at = "failed" /\ UNCHANGED <<rows, session, reneged>>
  BY DEF Rerun
<1>2. Moves(w, Attempt(w, run[w]), calls)
  BY DEF Rerun
<1>3. /\ IsRun(run[w]) /\ run[w].attempt \in Nat /\ run[w].partial \in BOOLEAN
      /\ w \in Workers => run[w].partial = (w \notin Diagnosing)
  BY <1>1 DEF RunInv, Right
<1>4. Right(w, Attempt(w, run[w])) /\ Attempt(w, run[w]).at # "idle"
      /\ Attempt(w, run[w]).partial = run[w].partial
  BY <1>3, AttemptRight
<1>5. \A c \in calls : CallRight(c) /\ (c.client = "waits" => c.who # w)
  BY <1>1 DEF RunInv, CallRight, Placed
<1> QED
  BY <1>1, <1>2, <1>4, <1>5, MovesRight

LEMMA ReceiveRight ==
  ASSUME RunInv, NEW c \in calls, Receive(c.who, c)
  PROVE  RunInv'
<1>1. PICK w : w = c.who
  OBVIOUS
<1>2. /\ CallRight(c) /\ w \in Runs /\ c.phase = "replied" /\ c.client = "waits"
      /\ c.op \in {"shot", "event", "end"} /\ c.op = run[w].at /\ c.key = Key(run[w])
  BY <1>1 DEF RunInv, CallRight, Placed, Receive
<1>3. UNCHANGED <<rows, session, reneged>>
  BY DEF Receive
<1>4. PICK r : /\ Moves(w, r, calls \ {c})
               /\ r = IF c.result = Error THEN Again(w, run[w]) ELSE Proceeds(w, run[w], c)
  BY <1>1 DEF Receive
<1>5. Right(w, run[w]) /\ run[w].at # "idle"
  BY <1>2 DEF RunInv
<1>6. Right(w, r) /\ r.at # "idle" /\ r.partial = run[w].partial
  <2>1. CASE c.result = Error
    BY <1>2, <1>4, <1>5, <2>1, AgainRight
  <2>2. CASE c.result # Error
    BY <1>2, <1>4, <1>5, <2>2, ProceedsRight DEF RunInv, CallRight
  <2> QED
    BY <2>1, <2>2
<1>7. /\ \A d \in calls \ {c} : CallRight(d) /\ (d.client = "waits" => d \in calls /\ d.who # w)
      /\ \A d \in calls : d.client = "told" => d \in calls \ {c}
  BY <1>1, <1>2 DEF RunInv, OneWaits
<1> QED
  BY <1>2, <1>3, <1>4, <1>6, <1>7, MovesRight

LEMMA TimeoutRight ==
  ASSUME RunInv, NEW c \in calls, Timeout(c.who, c)
  PROVE  RunInv'
<1>1. PICK w, d : w = c.who /\ d = [c EXCEPT !.client = "gone"]
  OBVIOUS
<1>2. /\ CallRight(c) /\ IsCall(c) /\ w \in Runs /\ c.client = "waits"
      /\ c.op \in {"shot", "event", "end"} /\ c.op = run[w].at
  BY <1>1 DEF RunInv, CallRight, Placed, Timeout
<1>3. UNCHANGED <<rows, session, reneged>>
  BY DEF Timeout
<1>4. PICK rest \in {{}, {d}} : /\ rest # {} => c.phase # "replied"
                                /\ Moves(w, Again(w, run[w]), (calls \ {c}) \cup rest)
  BY <1>1 DEF Timeout
<1>5. Right(w, run[w]) /\ run[w].at # "idle"
  BY <1>2 DEF RunInv
<1>6. PICK r : /\ r = Again(w, run[w])
               /\ Right(w, r) /\ r.at # "idle" /\ r.partial = run[w].partial
  BY <1>2, <1>5, AgainRight
<1>7. /\ IsCall(d) /\ d.client = "gone" /\ d.phase = c.phase /\ d.seen = c.seen
      /\ d.result = c.result /\ d.who = c.who /\ d.attempt = c.attempt /\ d.op = c.op
      /\ d.key = c.key /\ d.partial = c.partial /\ d.late = c.late
  BY <1>1, <1>2 DEF IsCall
<1>8. c.phase # "replied" => CallRight(d)
  BY <1>2, <1>7 DEF CallRight, Placed, EndRead, Honest, Kept
<1>9. PICK others : /\ others = (calls \ {c}) \cup rest
                    /\ Moves(w, r, others)
  BY <1>4, <1>6
<1>10. /\ \A e \in others : CallRight(e) /\ (e.client = "waits" => e \in calls /\ e.who # w)
       /\ \A e \in calls : e.client = "told" => e \in others
  BY <1>1, <1>2, <1>4, <1>7, <1>8, <1>9 DEF RunInv, OneWaits
<1> QED
  BY <1>2, <1>3, <1>6, <1>9, <1>10, MovesRight

LEMMA NextRight ==
  ASSUME StoreInv, RunInv, [Next]_vars
  PROVE  RunInv'
<1>1. CASE \E w \in Runs : Start(w) \/ Rerun(w)
  BY <1>1, StartRight, RerunRight
<1>2. CASE \E c \in calls : Receive(c.who, c) \/ Timeout(c.who, c)
  BY <1>2, ReceiveRight, TimeoutRight
<1>3. CASE \E c \in calls : Handle(c) /\ UNCHANGED run
  BY <1>3, FindRight, FlushInsertRight, CommitInsertRight, ReadSessionRight, FlushEndRight,
     CommitEndRight, RespondRight DEF Handle
<1>4. CASE \E c \in calls : Rollback(c) /\ UNCHANGED run
  BY <1>4, RollbackRight
<1>5. CASE UNCHANGED vars
  <2>1. UNCHANGED <<rows, session, calls, reneged, run>>
    BY <1>5 DEF vars
  <2>2. \A t : Promised(t)' = Promised(t)
    BY <2>1 DEF Promised, Told
  <2>3. EndPromised' = EndPromised
    BY <2>1 DEF EndPromised, Told
  <2>4. Onward
    BY <2>1, <2>2, <2>3 DEF Onward
  <2>5. \A w \in Runs : Right(w, run[w])'
    <3>1. \A w \in Runs : \A r : Right(w, r) => Right(w, r)'
      BY <2>4, RightOnward
    <3> QED
      BY <2>1, <3>1 DEF RunInv, Right
  <2>6. \A c \in calls' : CallRight(c)'
    BY <2>1, <2>4, CallOnward DEF RunInv
  <2>7. Badge'
    BY <2>1, <2>4, BadgeOnward DEF RunInv
  <2> QED
    BY <2>1, <2>5, <2>6, <2>7 DEF RunInv, OneWaits, SessionRight
<1> QED
  BY <1>1, <1>2, <1>3, <1>4, <1>5 DEF Next

(* The invariant that carries what follows: a run has left no hole behind   *)
(* it, a call in flight is the one its run is at, an answer promises what   *)
(* it says, and what end_session has read still holds unless the session    *)
(* was ended meanwhile.                                                     *)
THEOREM RunInvariant == Spec => []RunInv
<1>1. Init => RunInv
  BY RunInit
<1>2. StoreInv /\ RunInv /\ [Next]_vars => RunInv'
  BY NextRight
<1> QED
  BY <1>1, <1>2, StoreInvariant, PTL DEF Spec

(* A run of run_post_session or ProcessSession that reports success leaves  *)
(* every shot stored, diagnosed if there was a model, and the session       *)
(* ended, whatever timeouts, retries and other runs came in between, unless *)
(* the backend lost a transaction it had answered for.                      *)
THEOREM SuccessMeansStored == Spec => []DoneMeansStored
<1>1. RunInv => DoneMeansStored
  <2>1. SUFFICES ASSUME RunInv, ~reneged, NEW w \in Runs
                 PROVE  /\ NamesItsRow(w)
                        /\ run[w].at = "done" =>
                             /\ EndPromised
                             /\ w \in Workers =>
                                  {<<seq>> : seq \in Seqs} \subseteq {r.key : r \in Promised("shot")}
                             /\ w \in Diagnosing => \A seq \in Seqs : Diagnosed(seq)
    BY DEF DoneMeansStored, EndPromised
  <2>2. Right(w, run[w]) /\ run[w].seq \in Nat /\ (w \in Diagnosing => w \in Workers)
    BY <2>1, PostAssumption DEF RunInv, Right
  <2>3. NamesItsRow(w) /\ (run[w].at = "done" => EndPromised)
    BY <2>1, <2>2 DEF Right, NamesItsRow
  <2>4. ASSUME run[w].at = "done", w \in Workers, NEW seq \in Seqs
        PROVE  Listed(seq) /\ (w \in Diagnosing => Diagnosed(seq))
    <3>1. seq < run[w].seq
      BY <2>2, <2>4, PostAssumption DEF Right, Seqs
    <3> QED
      BY <2>1, <2>2, <2>4, <3>1 DEF Right
  <2> QED
    BY <2>2, <2>3, <2>4 DEF Listed
<1> QED
  BY <1>1, RunInvariant, PTL

(* A session that has ended without the partial flag has every shot         *)
(* diagnosed, as long as no workflow's input claimed it: of two overlapping *)
(* end_session calls that write one column each, no order of their reads    *)
(* and commits leaves a false badge (post_session.py).                      *)
THEOREM BadgeIsHonest == Spec => []HonestBadge
<1>1. RunInv => HonestBadge
  BY DEF RunInv, Badge, HonestBadge, AllDiagnosed
<1> QED
  BY <1>1, RunInvariant, PTL

(* Once a session has ended no step of any run or handler takes the end     *)
(* back, and no call made after it moves the end time (end_session).        *)
THEOREM EndStays == Spec => EndKept
<1>1. ASSUME RunInv, Next, session.ended # None
      PROVE  \/ session'.ended = session.ended
             \/ session'.ended # None /\ ~session'.ended.late
  <2>1. CASE \E c \in calls : CommitEnd(c)
    <3>1. PICK c \in calls : CommitEnd(c)
      BY <2>1
    <3>2. CASE Ends(c)
      <4>1. session'.ended = Stamp(c)
        BY <3>1, <3>2 DEF CommitEnd
      <4>2. Stamp(c) # None
        BY <1>1, StampSet DEF RunInv, CallRight, Placed
      <4>3. ~c.late
        BY <1>1, <3>1, <3>2 DEF RunInv, CallRight, EndRead, CommitEnd, Ends
      <4> QED
        BY <4>1, <4>2, <4>3 DEF Stamp
    <3>3. CASE ~Ends(c)
      BY <3>1, <3>3 DEF CommitEnd
    <3> QED
      BY <3>2, <3>3
  <2>2. CASE UNCHANGED session
    BY <2>2
  <2> QED
    BY <1>1, <2>1, <2>2 DEF Next, Start, Rerun, Receive, Timeout, Handle, Rollback, Find,
       FlushInsert, CommitInsert, ReadSession, FlushEnd, Respond, vars
<1>2. RunInv /\ [Next]_vars =>
        [session.ended # None => \/ session'.ended = session.ended
                                 \/ session'.ended # None /\ ~session'.ended.late]_vars
  BY <1>1
<1> QED
  BY <1>2, RunInvariant, PTL DEF Spec, EndKept
=============================================================================
