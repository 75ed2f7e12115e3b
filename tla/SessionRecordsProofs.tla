------------------------ MODULE SessionRecordsProofs ------------------------
(* For any number of clubs, coaches and overlapping requests, failures and *)
(* restarts: a recording has its whole file, nothing is shown outside its  *)
(* tenant, and a summary is right unless a recording overtook it.          *)
EXTENDS SessionRecords, FiniteSetTheorems, TLAPS

Ops == {q.op : q \in Questions}
Whos == {q.who : q \in Questions}
Args == {q.arg : q \in Questions}
Clubs == {TenantOf[p] : p \in Whos \cup Coaches}
Pairs == {q.arg.value.offset : q \in Questions} \cup {q.arg.value.confidence : q \in Questions} \cup {0, 1}

RecordingRows ==
  [session : {q.arg.session : q \in Questions} \cup {0}, tenant : Clubs, offset : Pairs, confidence : Pairs]
Counts == [recordings : Nat, aligned : Nat]
Seens == RecordingRows \cup Counts \cup {None}

Requested ==
  [op : Ops, who : Whos, arg : Args,
   phase : {"received", "read", "flushed", "answered", "told"}, seen : Seens,
   txn : {"none", "due", "done", "lost"}, answer : Nat]

\* The request still acts on what it found, or its flush waits for the commit.
Goes(i) == reqs[i].phase = "read" \/ reqs[i].txn = "due"

Typed ==
  /\ reqs \in Seq(Requested) /\ Len(reqs) <= MaxRequests
  /\ DOMAIN recordings \subseteq 0..MaxRequests
  /\ \A r \in DOMAIN recordings : recordings[r] \in RecordingRows

\* How the phase of a request and its transaction go together.
PhaseRight(i) ==
  /\ reqs[i].phase \in {"received", "read"} => reqs[i].txn = "none"
  /\ reqs[i].phase = "flushed" => reqs[i].txn = "due"

\* What a handler has found in its tenant is there, and still is at its commit.
ScopeRight(i) ==
  /\ reqs[i].op \in {"upload", "calibrate", "note"} => SessionInTenant(reqs[i].who, reqs[i].arg.session)
  /\ reqs[i].op \in {"align", "calibrate"} =>
       RecordingInTenant(reqs[i].who, reqs[i].arg.session, reqs[i].arg.recording)
  /\ reqs[i].op = "align" => AlignmentIn(reqs[i].arg.value)

\* A summary that has counted every recording as aligned counted some that still are.
CountRight(i) ==
  reqs[i].op = "summary" /\ reqs[i].seen # None =>
    /\ reqs[i].seen \in Counts
    /\ reqs[i].seen.aligned = reqs[i].seen.recordings =>
         \E old \in SUBSET Of(recordings, reqs[i].arg.session) :
           /\ Cardinality(old) = reqs[i].seen.recordings
           /\ \A r \in old : recordings[r].offset # 0

\* Every row hangs below a session of its tenant.
Hangs ==
  /\ \A r \in DOMAIN recordings :
       recordings[r].session \in DOMAIN sessions /\ recordings[r].tenant = sessions[recordings[r].session]
  /\ \A c \in calibrations :
       /\ c.recording \in DOMAIN recordings /\ recordings[c.recording].session = c.session
       /\ c.session \in DOMAIN sessions /\ c.tenant = sessions[c.session]
  /\ \A n \in notes : n.session \in DOMAIN sessions /\ n.tenant = sessions[n.session]

\* A row that is there was committed by the request that has its number.
DoneBy(i, op) == i \in Ids /\ reqs[i].op = op /\ reqs[i].txn = "done"
Numbered ==
  /\ \A s \in DOMAIN sessions : s = 0 \/ DoneBy(s, "create")
  /\ \A r \in DOMAIN recordings : r = 0 \/ DoneBy(r, "upload")

\* A file belongs to a row or to an upload, and an upload that waits has its file.
Stored ==
  /\ \A r \in DOMAIN recordings : r \in DOMAIN files /\ files[r] = "whole"
  /\ \A f \in DOMAIN files \ DOMAIN recordings :
       f \in Ids /\ reqs[f].op = "upload" /\ (reqs[f].phase = "read" \/ reqs[f].txn \in {"due", "lost"})
  /\ \A i \in Ids : reqs[i].op = "upload" /\ reqs[i].txn = "due" => i \in DOMAIN files /\ files[i] = "whole"

\* What it asks is one of the questions.
Asks(i) == \E q \in Questions : reqs[i].op = q.op /\ reqs[i].arg = q.arg

Handled == \A i \in Ids : Asks(i) /\ PhaseRight(i) /\ (Goes(i) => ScopeRight(i)) /\ CountRight(i)

RowsInv == Typed /\ Handled /\ Hangs /\ Numbered
RecordsInv == RowsInv /\ Stored

\* The records that the steps of a request make of it.
LEMMA ReadRecord ==
  ASSUME NEW q \in Requested, NEW s \in Seens
  PROVE  LET r == [q EXCEPT !.phase = "read", !.seen = s] IN
         /\ r \in Requested /\ r.op = q.op /\ r.who = q.who /\ r.arg = q.arg
         /\ r.phase = "read" /\ r.seen = s /\ r.txn = q.txn
  BY DEF Requested

LEMMA AnsweredRecord ==
  ASSUME NEW q \in Requested, NEW code \in Nat
  PROVE  LET r == [q EXCEPT !.phase = "answered", !.answer = code, !.seen = None] IN
         /\ r \in Requested /\ r.op = q.op /\ r.who = q.who /\ r.arg = q.arg
         /\ r.phase = "answered" /\ r.seen = None /\ r.txn = q.txn
  BY DEF Requested, Seens

LEMMA FlushedRecord ==
  ASSUME NEW q \in Requested
  PROVE  LET r == [q EXCEPT !.phase = "flushed", !.txn = "due"] IN
         /\ r \in Requested /\ r.op = q.op /\ r.who = q.who /\ r.arg = q.arg
         /\ r.phase = "flushed" /\ r.seen = q.seen /\ r.txn = "due"
  BY DEF Requested

LEMMA RespondedRecord ==
  ASSUME NEW q \in Requested
  PROVE  LET r == [q EXCEPT !.phase = "answered", !.answer = 200] IN
         /\ r \in Requested /\ r.op = q.op /\ r.who = q.who /\ r.arg = q.arg
         /\ r.phase = "answered" /\ r.seen = q.seen /\ r.txn = q.txn
  BY DEF Requested

LEMMA ToldRecord ==
  ASSUME NEW q \in Requested
  PROVE  LET r == [q EXCEPT !.phase = "told"] IN
         /\ r \in Requested /\ r.op = q.op /\ r.who = q.who /\ r.arg = q.arg
         /\ r.phase = "told" /\ r.seen = q.seen /\ r.txn = q.txn
  BY DEF Requested

LEMMA LostRecord ==
  ASSUME NEW q \in Requested
  PROVE  LET r == [q EXCEPT !.txn = "lost", !.seen = None] IN
         /\ r \in Requested /\ r.op = q.op /\ r.who = q.who /\ r.arg = q.arg
         /\ r.phase = q.phase /\ r.seen = None /\ r.txn = "lost"
  BY DEF Requested, Seens

LEMMA FailedRecord ==
  ASSUME NEW q \in Requested
  PROVE  LET r == [q EXCEPT !.phase = "told", !.answer = 500] IN
         /\ r \in Requested /\ r.op = q.op /\ r.who = q.who /\ r.arg = q.arg /\ r.phase = "told"
<1> DEFINE p == [q EXCEPT !.phase = "told"]
           r == [p EXCEPT !.answer = 500]
<1>1. p \in Requested /\ p.op = q.op /\ p.who = q.who /\ p.arg = q.arg /\ p.phase = "told"
  BY ToldRecord
<1>2. [q EXCEPT !.phase = "told", !.answer = 500] = r
  OBVIOUS
<1> HIDE DEF p
<1>3. r \in Requested /\ r.op = p.op /\ r.who = p.who /\ r.arg = p.arg /\ r.phase = p.phase
  BY <1>1 DEF Requested
<1> HIDE DEF r
<1> QED
  BY <1>1, <1>2, <1>3

LEMMA HaltedRecord ==
  ASSUME NEW q \in Requested
  PROVE  LET r == [q EXCEPT !.phase = "told", !.txn = "lost", !.seen = None] IN
         /\ r \in Requested /\ r.op = q.op /\ r.who = q.who /\ r.arg = q.arg
         /\ r.phase = "told" /\ r.seen = None /\ r.txn = "lost"
  BY DEF Requested, Seens

LEMMA IdFacts ==
  ASSUME Typed, NEW i \in Ids
  PROVE  /\ reqs[i] \in Requested /\ i \in 1..MaxRequests
         /\ \E q \in Questions : q.op = reqs[i].op /\ reqs[i].op \in Ops
         /\ reqs[i].who \in Whos /\ reqs[i].arg \in Args /\ reqs[i].seen \in Seens
         /\ reqs[i].phase \in {"received", "read", "flushed", "answered", "told"}
         /\ reqs[i].txn \in {"none", "due", "done", "lost"} /\ reqs[i].answer \in Nat
<1>1. reqs[i] \in Requested /\ i \in 1..MaxRequests
  BY RequestsAssumption DEF Typed, Ids
<1> QED
  BY <1>1 DEF Requested, Ops

LEMMA KnownOp ==
  ASSUME NEW q \in Requested
  PROVE  q.op \in {"create", "upload", "process", "align", "calibrate", "note", "summary"}
  BY SessionRecordsAssumption DEF Requested, Ops

\* A change of one request's record leaves the others, and the numbers.
LEMMA OneRequest ==
  ASSUME Typed, NEW i \in Ids, NEW r \in Requested, reqs' = [reqs EXCEPT ![i] = r]
  PROVE  /\ reqs' \in Seq(Requested) /\ Len(reqs') = Len(reqs) /\ Ids' = Ids /\ reqs'[i] = r
         /\ \A j \in Ids \ {i} : reqs'[j] = reqs[j]
  BY DEF Typed, Ids

\* Request i goes on, or ends, without a commit: what it may become.
Becomes(i) ==
  /\ reqs'[i].op = reqs[i].op /\ reqs'[i].who = reqs[i].who /\ reqs'[i].arg = reqs[i].arg
  /\ reqs'[i].txn = "done" <=> reqs[i].txn = "done"
  /\ PhaseRight(i)' /\ (Goes(i)' => ScopeRight(i)) /\ CountRight(i)'

LEMMA BecomesInv ==
  ASSUME RowsInv, UNCHANGED rows, reqs' \in Seq(Requested), Len(reqs') = Len(reqs), Ids' = Ids,
         \A i \in Ids : Becomes(i)
  PROVE  RowsInv'
<1> USE DEF rows
<1>1. Typed' /\ Hangs'
  BY DEF RowsInv, Typed, Hangs
<1>2. \A i \in Ids : ScopeRight(i) => ScopeRight(i)'
  BY DEF Becomes, ScopeRight, SessionInTenant, RecordingInTenant
<1>3. Handled'
  BY <1>2 DEF RowsInv, Handled, Becomes, Asks
<1>4. Numbered'
  BY DEF RowsInv, Numbered, DoneBy, Becomes
<1> QED
  BY <1>1, <1>3, <1>4 DEF RowsInv

LEMMA Unmoved ==
  ASSUME RowsInv, UNCHANGED rows, NEW i \in Ids, reqs'[i] = reqs[i]
  PROVE  Becomes(i)
<1>1. PhaseRight(i) /\ (Goes(i) => ScopeRight(i)) /\ CountRight(i)
  BY DEF RowsInv, Handled
<1>2. PhaseRight(i)' /\ CountRight(i)' /\ (Goes(i)' <=> Goes(i))
  BY <1>1 DEF PhaseRight, CountRight, Goes, rows, Of
<1> QED
  BY <1>1, <1>2 DEF Becomes

\* The same for a step of one request.
LEMMA OneInv ==
  ASSUME RowsInv, UNCHANGED rows, NEW i \in Ids, NEW r \in Requested,
         reqs' = [reqs EXCEPT ![i] = r], Becomes(i)
  PROVE  RowsInv'
<1>1. /\ reqs' \in Seq(Requested) /\ Len(reqs') = Len(reqs) /\ Ids' = Ids
      /\ \A j \in Ids \ {i} : reqs'[j] = reqs[j]
  BY OneRequest DEF RowsInv
<1>2. \A j \in Ids : Becomes(j)
  BY <1>1, Unmoved
<1> QED
  BY <1>1, <1>2, BecomesInv

\* A step of a request that neither reads nor commits.
Proceeds(i, r) ==
  /\ r \in Requested /\ reqs' = [reqs EXCEPT ![i] = r]
  /\ r.op = reqs[i].op /\ r.who = reqs[i].who /\ r.arg = reqs[i].arg
  /\ r.txn = "done" <=> reqs[i].txn = "done"
  /\ r.phase \in {"received", "read"} => r.txn = "none"
  /\ r.phase = "flushed" => r.txn = "due"
  /\ r.phase = "read" \/ r.txn = "due" => Goes(i)
  /\ r.seen \in {None, reqs[i].seen}

LEMMA ProceedsInv ==
  ASSUME RowsInv, UNCHANGED rows, NEW i \in Ids, NEW r, Proceeds(i, r)
  PROVE  RowsInv'
<1> USE DEF Proceeds
<1>1. reqs'[i] = r /\ r \in Requested
  BY OneRequest DEF RowsInv
<1>2. (Goes(i) => ScopeRight(i)) /\ CountRight(i)
  BY DEF RowsInv, Handled
<1>3. PhaseRight(i)' /\ (Goes(i)' => ScopeRight(i))
  BY <1>1, <1>2 DEF PhaseRight, Goes
<1>4. CountRight(i)'
  BY <1>1, <1>2 DEF CountRight, rows, Of
<1>5. Becomes(i)
  BY <1>1, <1>3, <1>4 DEF Becomes
<1> QED
  BY <1>1, <1>5, OneInv

LEMMA AnswersProceeds ==
  ASSUME RowsInv, NEW i \in Ids, NEW code \in Nat, Answers(i, code), reqs[i].txn = "none"
  PROVE  \E r : Proceeds(i, r) /\ r.phase = "answered" /\ r.txn = "none"
<1>1. reqs[i] \in Requested
  BY IdFacts DEF RowsInv
<1> DEFINE r == [reqs[i] EXCEPT !.phase = "answered", !.answer = code, !.seen = None]
<1>2. reqs' = [reqs EXCEPT ![i] = r]
  BY DEF Answers
<1>3. /\ r \in Requested /\ r.op = reqs[i].op /\ r.who = reqs[i].who /\ r.arg = reqs[i].arg
      /\ r.phase = "answered" /\ r.seen = None /\ r.txn = "none"
  BY <1>1, AnsweredRecord
<1> HIDE DEF r
<1> QED
  BY <1>2, <1>3 DEF Proceeds

LEMMA CrashesProceeds ==
  ASSUME RowsInv, NEW i \in Ids, Crashes(i), reqs[i].txn # "done"
  PROVE  \E r : Proceeds(i, r) /\ r.phase = "told" /\ r.txn = "lost"
<1>1. reqs[i] \in Requested
  BY IdFacts DEF RowsInv
<1> DEFINE p == [reqs[i] EXCEPT !.phase = "told", !.answer = 500]
           r == [p EXCEPT !.txn = "lost", !.seen = None]
           first == [reqs EXCEPT ![i].phase = "told", ![i].answer = 500]
<1>2. reqs' = [first EXCEPT ![i].txn = "lost", ![i].seen = None]
  BY DEF Crashes
<1>3. first = [reqs EXCEPT ![i] = p]
  OBVIOUS
<1>4. p \in Requested /\ p.op = reqs[i].op /\ p.who = reqs[i].who /\ p.arg = reqs[i].arg /\ p.phase = "told"
  BY <1>1, FailedRecord
<1> HIDE DEF p
<1>5. first[i] = p /\ DOMAIN first = DOMAIN reqs
  BY <1>3 DEF Ids
<1> HIDE DEF first
<1>6. reqs' = [first EXCEPT ![i] = r]
  BY <1>2, <1>5
<1>7. /\ r \in Requested /\ r.op = p.op /\ r.who = p.who /\ r.arg = p.arg
      /\ r.phase = "told" /\ r.seen = None /\ r.txn = "lost"
  BY <1>4, LostRecord
<1> HIDE DEF r
<1>8. reqs' = [reqs EXCEPT ![i] = r]
  BY <1>3, <1>5, <1>6
<1> QED
  BY <1>4, <1>7, <1>8 DEF Proceeds

LEMMA InitInv ==
  ASSUME Init
  PROVE  RecordsInv
<1>1. reqs = <<>> /\ Ids = {} /\ reqs \in Seq(Requested) /\ Len(reqs) = 0 /\ calibrations = {} /\ notes = {}
  BY DEF Init, RequestsInit, Ids
<1>2. PICK who \in Coaches, n \in 0..1 :
         /\ sessions = [s \in {0} |-> TenantOf[who]]
         /\ recordings = [r \in 1 - n..0 |-> RecordingOf(0, TenantOf[who], Trivial)]
         /\ files = [r \in DOMAIN recordings |-> "whole"]
  BY DEF Init
<1>3. 1 - n..0 \subseteq {0} /\ DOMAIN recordings = 1 - n..0
  BY <1>2
<1>4. RecordingOf(0, TenantOf[who], Trivial) =
        [session |-> 0, tenant |-> TenantOf[who], offset |-> 1, confidence |-> 1]
  BY DEF RecordingOf, Trivial
<1>5. \A r \in DOMAIN recordings :
         r = 0 /\ recordings[r] \in RecordingRows /\ recordings[r].session = 0 /\ recordings[r].tenant = TenantOf[who]
  BY <1>2, <1>3, <1>4 DEF RecordingRows, Clubs, Pairs
<1>6. Typed
  BY <1>1, <1>5, RequestsAssumption DEF Typed
<1>7. Hangs /\ Numbered /\ Stored
  BY <1>1, <1>2, <1>5 DEF Hangs, Numbered, Stored
<1>8. Handled
  BY <1>1 DEF Handled
<1> QED
  BY <1>6, <1>7, <1>8 DEF RecordsInv, RowsInv

\* A step that leaves the files alone and, of an upload, at most loses it.
LEMMA StoredKept ==
  ASSUME Stored, UNCHANGED <<rows, files>>, NEW i \in Ids, Ids' = Ids,
         \A j \in Ids \ {i} : reqs'[j] = reqs[j],
         reqs'[i].op = reqs[i].op,
         reqs[i].op = "upload" =>
           /\ reqs[i].phase = "read" => reqs'[i].phase = "read" \/ reqs'[i].txn \in {"due", "lost"} \/ i \notin DOMAIN files
           /\ reqs[i].txn \in {"due", "lost"} => reqs'[i].txn \in {"due", "lost"}
           /\ reqs'[i].txn = "due" => reqs[i].txn = "due" \/ (i \in DOMAIN files /\ files[i] = "whole")
  PROVE  Stored'
  BY DEF Stored, rows

LEMMA AskInv ==
  ASSUME RecordsInv, NEW q \in Questions, Ask(q)
  PROVE  RecordsInv'
<1> DEFINE r == Asked(q.op, q.who, q.arg)
<1>1. /\ r \in Requested /\ r.op = q.op /\ r.arg = q.arg /\ r.txn = "none" /\ r.phase = "received"
      /\ r.seen = None
  BY DEF Asked, Requested, Ops, Whos, Args, Seens
<1>2. reqs' = Append(reqs, r) /\ reqs \in Seq(Requested) /\ Len(reqs) < MaxRequests /\ Len(reqs) \in Nat
      /\ UNCHANGED <<rows, files>>
  BY DEF Ask, Arrive, RecordsInv, RowsInv, Typed
<1> HIDE DEF r
<1>3. PICK n \in Nat : n = Len(reqs) + 1
  BY <1>2
<1>4. /\ reqs' \in Seq(Requested) /\ Len(reqs') <= MaxRequests /\ Ids' = Ids \cup {n} /\ n \notin Ids
      /\ reqs'[n] = r /\ \A j \in Ids : reqs'[j] = reqs[j]
  BY <1>1, <1>2, <1>3, RequestsAssumption DEF Ids
<1>5. \A j \in Ids : Becomes(j)
  BY <1>2, <1>4, Unmoved DEF RecordsInv
<1>6. \A j \in Ids : Asks(j)' /\ PhaseRight(j)' /\ (Goes(j)' => ScopeRight(j)') /\ CountRight(j)'
  <2>1. \A j \in Ids : ScopeRight(j) => ScopeRight(j)'
    BY <1>2, <1>4 DEF ScopeRight, SessionInTenant, RecordingInTenant, rows
  <2>2. \A j \in Ids : Asks(j)'
    BY <1>4 DEF RecordsInv, RowsInv, Handled, Asks
  <2> QED
    BY <1>5, <2>1, <2>2 DEF Becomes
<1>7. Asks(n)' /\ PhaseRight(n)' /\ ~Goes(n)' /\ CountRight(n)'
  BY <1>1, <1>4 DEF Asks, PhaseRight, Goes, CountRight
<1>8. Typed' /\ Hangs'
  BY <1>2, <1>4 DEF RecordsInv, RowsInv, Typed, Hangs, rows
<1>9. Handled'
  BY <1>4, <1>6, <1>7 DEF Handled
<1>10. Numbered'
  BY <1>2, <1>4 DEF RecordsInv, RowsInv, Numbered, DoneBy, rows
<1>11. Stored'
  <2>1. \A i \in Ids' : reqs'[i].op = "upload" /\ reqs'[i].txn = "due" => i \in DOMAIN files /\ files[i] = "whole"
    BY <1>1, <1>4 DEF RecordsInv, Stored
  <2>2. \A f \in DOMAIN files \ DOMAIN recordings :
           f \in Ids' /\ reqs'[f].op = "upload" /\ (reqs'[f].phase = "read" \/ reqs'[f].txn \in {"due", "lost"})
    BY <1>4 DEF RecordsInv, Stored
  <2> QED
    BY <1>2, <2>1, <2>2 DEF RecordsInv, Stored, rows
<1> QED
  BY <1>8, <1>9, <1>10, <1>11 DEF RecordsInv, RowsInv

\* Why a handler goes on: it has found what it was asked about.
LEMMA Granted ==
  ASSUME NEW i \in Ids, Refusal(reqs[i]) = 0
  PROVE  ScopeRight(i)
<1>1. CASE reqs[i].op \in {"align", "calibrate"}
  BY <1>1 DEF Refusal, Alignment, Calibration, GateOf, ScopeRight, RecordingInTenant
<1>2. CASE reqs[i].op = "upload"
  BY <1>2 DEF Refusal, UploadRecording, Gate, GateOf, ScopeRight
<1>3. CASE reqs[i].op = "note"
  BY <1>3 DEF Refusal, CreateNote, Gate, GateOf, ScopeRight
<1>4. CASE reqs[i].op \notin {"align", "calibrate", "upload", "note"}
  BY <1>4 DEF ScopeRight
<1> QED
  BY <1>1, <1>2, <1>3, <1>4

LEMMA LookInv ==
  ASSUME RecordsInv, NEW i \in Ids, Look(i)
  PROVE  RecordsInv'
<1>1. /\ reqs[i].phase = "received" /\ reqs[i] \in Requested /\ reqs[i].txn = "none" /\ RowsInv
      /\ UNCHANGED <<rows, files>> /\ reqs \in Seq(Requested)
  BY IdFacts DEF Look, RecordsInv, RowsInv, Handled, PhaseRight, Typed
<1>2. ASSUME NEW code \in Nat, Answers(i, code) PROVE RecordsInv'
  <2>1. PICK r : Proceeds(i, r) /\ r.phase = "answered" /\ r.txn = "none"
    BY <1>1, <1>2, AnswersProceeds
  <2>2. RowsInv'
    BY <1>1, <2>1, ProceedsInv
  <2>3. Stored'
    BY <1>1, <2>1, OneRequest, StoredKept DEF Proceeds, RecordsInv, RowsInv
  <2> QED
    BY <2>2, <2>3 DEF RecordsInv
<1>3. ASSUME NEW s \in Seens, Reads(i, s), Refusal(reqs[i]) = 0, reqs[i].op = "summary" => s = None
      PROVE  RecordsInv'
  <2> DEFINE r == [reqs[i] EXCEPT !.phase = "read", !.seen = s]
  <2>1. reqs' = [reqs EXCEPT ![i] = r]
    BY <1>3 DEF Reads
  <2>2. /\ r \in Requested /\ r.op = reqs[i].op /\ r.who = reqs[i].who /\ r.arg = reqs[i].arg
        /\ r.phase = "read" /\ r.seen = s /\ r.txn = "none"
    BY <1>1, <1>3, ReadRecord
  <2> HIDE DEF r
  <2>3. /\ reqs'[i] = r /\ Ids' = Ids /\ \A j \in Ids \ {i} : reqs'[j] = reqs[j]
    BY <1>1, <2>1, <2>2, OneRequest DEF RowsInv
  <2>4. Becomes(i)
    BY <1>1, <1>3, <2>2, <2>3, Granted DEF Becomes, PhaseRight, CountRight
  <2>5. RowsInv'
    BY <1>1, <2>1, <2>2, <2>4, OneInv
  <2>6. Stored'
    BY <1>1, <2>2, <2>3, StoredKept DEF RecordsInv
  <2> QED
    BY <2>5, <2>6 DEF RecordsInv
<1>4. Refusal(reqs[i]) \in Nat
  BY <1>1, KnownOp DEF Refusal, CreateSession, UploadRecording, TriggerProcess, Alignment, Calibration, CreateNote,
     Summary, Gate, GateOf
<1>5. CASE Refusal(reqs[i]) # 0 \/ reqs[i].op = "process"
  <2>1. Answers(i, Refusal(reqs[i])) \/ Answers(i, 202)
    BY <1>5 DEF Look, Triggered
  <2> QED
    BY <1>2, <1>4, <2>1
<1>6. CASE Refusal(reqs[i]) = 0 /\ reqs[i].op = "align"
  <2>1. Reads(i, recordings[reqs[i].arg.recording])
    BY <1>6 DEF Look
  <2>2. recordings[reqs[i].arg.recording] \in Seens
    BY <1>1, <1>6, Granted DEF ScopeRight, RecordingInTenant, RowsInv, Typed, Seens
  <2> QED
    BY <1>3, <1>6, <2>1, <2>2
<1>7. CASE Refusal(reqs[i]) = 0 /\ reqs[i].op \notin {"align", "process"}
  <2>1. Reads(i, None) /\ None \in Seens
    BY <1>7 DEF Look, Seens
  <2> QED
    BY <1>3, <1>7, <2>1
<1> QED
  BY <1>5, <1>6, <1>7

\* A step that leaves the rows and the files alone.
LEMMA FilesAloneInv ==
  ASSUME RecordsInv, UNCHANGED <<rows, files>>, NEW i \in Ids, NEW r, Proceeds(i, r),
         reqs[i].op = "upload" =>
           /\ reqs[i].phase = "read" => r.phase = "read" \/ r.txn \in {"due", "lost"} \/ i \notin DOMAIN files
           /\ reqs[i].txn \in {"due", "lost"} => r.txn \in {"due", "lost"}
           /\ r.txn = "due" => reqs[i].txn = "due" \/ (i \in DOMAIN files /\ files[i] = "whole")
  PROVE  RecordsInv'
<1>1. RowsInv' /\ r \in Requested /\ r.op = reqs[i].op /\ reqs' = [reqs EXCEPT ![i] = r]
  BY ProceedsInv DEF RecordsInv, Proceeds
<1>2. reqs'[i] = r /\ Ids' = Ids /\ \A j \in Ids \ {i} : reqs'[j] = reqs[j]
  BY <1>1, OneRequest DEF RecordsInv, RowsInv
<1>3. Stored'
  BY <1>1, <1>2, StoredKept DEF RecordsInv
<1> QED
  BY <1>1, <1>3 DEF RecordsInv

LEMMA TellInv ==
  ASSUME RecordsInv, NEW i \in Ids, Tell(i)
  PROVE  RecordsInv'
<1>1. reqs[i] \in Requested
  BY IdFacts DEF RecordsInv, RowsInv
<1> DEFINE r == [reqs[i] EXCEPT !.phase = "told"]
<1>2. reqs' = [reqs EXCEPT ![i] = r] /\ UNCHANGED <<rows, files>> /\ reqs[i].phase = "answered" /\ reqs[i].txn = "due"
  BY DEF Tell
<1>3. /\ r \in Requested /\ r.op = reqs[i].op /\ r.who = reqs[i].who /\ r.arg = reqs[i].arg
      /\ r.phase = "told" /\ r.seen = reqs[i].seen /\ r.txn = reqs[i].txn
  BY <1>1, ToldRecord
<1> HIDE DEF r
<1>4. Proceeds(i, r)
  BY <1>2, <1>3 DEF Proceeds, Goes
<1> QED
  BY <1>2, <1>3, <1>4, FilesAloneInv

LEMMA RespondInv ==
  ASSUME RecordsInv, NEW i \in Ids, Respond(i), UNCHANGED <<rows, files>>
  PROVE  RecordsInv'
<1>1. reqs[i] \in Requested /\ reqs[i].phase = "flushed" /\ reqs[i].txn = "due"
  BY IdFacts DEF RecordsInv, RowsInv, Handled, PhaseRight, Respond
<1> DEFINE r == [reqs[i] EXCEPT !.phase = "answered", !.answer = 200]
<1>2. reqs' = [reqs EXCEPT ![i] = r]
  BY DEF Respond
<1>3. /\ r \in Requested /\ r.op = reqs[i].op /\ r.who = reqs[i].who /\ r.arg = reqs[i].arg
      /\ r.phase = "answered" /\ r.seen = reqs[i].seen /\ r.txn = reqs[i].txn
  BY <1>1, RespondedRecord
<1> HIDE DEF r
<1>4. Proceeds(i, r)
  BY <1>1, <1>2, <1>3 DEF Proceeds, Goes
<1> QED
  BY <1>1, <1>3, <1>4, FilesAloneInv

LEMMA CrashInv ==
  ASSUME RecordsInv, NEW i \in Ids, Crashes(i), reqs[i].txn # "done", UNCHANGED <<rows, files>>
  PROVE  RecordsInv'
<1>1. PICK r : Proceeds(i, r) /\ r.phase = "told" /\ r.txn = "lost"
  BY CrashesProceeds DEF RecordsInv
<1> QED
  BY <1>1, FilesAloneInv

LEMMA RollbackInv ==
  ASSUME RecordsInv, NEW i \in Ids, Rollback(i), UNCHANGED <<rows, files>>
  PROVE  RecordsInv'
<1>1. reqs[i] \in Requested /\ reqs[i].txn = "due" /\ reqs[i].phase \in {"flushed", "told"}
  BY IdFacts DEF RecordsInv, RowsInv, Rollback, Commits
<1>2. CASE reqs[i].phase = "flushed"
  BY <1>1, <1>2, CrashInv DEF Rollback
<1>3. CASE reqs[i].phase = "told"
  <2> DEFINE r == [reqs[i] EXCEPT !.txn = "lost", !.seen = None]
  <2>1. reqs' = [reqs EXCEPT ![i] = r]
    BY <1>3 DEF Rollback
  <2>2. /\ r \in Requested /\ r.op = reqs[i].op /\ r.who = reqs[i].who /\ r.arg = reqs[i].arg
        /\ r.phase = "told" /\ r.seen = None /\ r.txn = "lost"
    BY <1>1, <1>3, LostRecord
  <2> HIDE DEF r
  <2>3. Proceeds(i, r)
    BY <1>1, <2>1, <2>2 DEF Proceeds
  <2> QED
    BY <2>2, <2>3, FilesAloneInv
<1> QED
  BY <1>1, <1>2, <1>3

LEMMA WriteInv ==
  ASSUME RecordsInv, NEW i \in Ids, Write(i)
  PROVE  RecordsInv'
<1>1. /\ reqs[i] \in Requested /\ reqs[i].phase = "read" /\ reqs[i].txn = "none" /\ UNCHANGED <<rows, files>>
      /\ reqs[i].op = "upload" => i \in DOMAIN files /\ files[i] = "whole"
  BY IdFacts DEF RecordsInv, RowsInv, Handled, PhaseRight, Write
<1> DEFINE r == [reqs[i] EXCEPT !.phase = "flushed", !.txn = "due"]
<1>2. reqs' = [reqs EXCEPT ![i] = r]
  BY DEF Write, Flushes
<1>3. /\ r \in Requested /\ r.op = reqs[i].op /\ r.who = reqs[i].who /\ r.arg = reqs[i].arg
      /\ r.phase = "flushed" /\ r.seen = reqs[i].seen /\ r.txn = "due"
  BY <1>1, FlushedRecord
<1> HIDE DEF r
<1>4. Proceeds(i, r)
  BY <1>1, <1>2, <1>3 DEF Proceeds, Goes
<1> QED
  BY <1>1, <1>3, <1>4, FilesAloneInv

LEMMA ConcludeInv ==
  ASSUME RecordsInv, NEW i \in Ids, Conclude(i)
  PROVE  RecordsInv'
<1>1. reqs[i].op = "summary" /\ reqs[i].txn = "none" /\ UNCHANGED <<rows, files>>
  BY DEF RecordsInv, RowsInv, Handled, PhaseRight, Conclude
<1>2. PICK r : Proceeds(i, r)
  BY <1>1, AnswersProceeds DEF RecordsInv, Conclude
<1> QED
  BY <1>1, <1>2, FilesAloneInv

\* An upload that is under way has no row yet.
LEMMA NoRow ==
  ASSUME RecordsInv, NEW i \in Ids, reqs[i].txn # "done"
  PROVE  i \notin DOMAIN recordings /\ i \notin DOMAIN sessions
  BY IdFacts DEF RecordsInv, RowsInv, Numbered, DoneBy

LEMMA OpenFileInv ==
  ASSUME RecordsInv, NEW i \in Ids, OpenFile(i)
  PROVE  RecordsInv'
<1>1. /\ reqs[i].op = "upload" /\ reqs[i].phase = "read" /\ UNCHANGED <<reqs, faults, rows>>
      /\ i \notin DOMAIN files /\ files' = Insert(files, i, "part")
  BY DEF OpenFile, Uploading
<1>2. /\ DOMAIN files' = DOMAIN files \cup {i} /\ \A f \in DOMAIN files : files'[f] = files[f]
  BY <1>1 DEF Insert
<1>3. Ids' = Ids /\ reqs' = reqs
  BY <1>1 DEF Ids
<1>4. \A j \in Ids : Becomes(j)
  BY <1>1, <1>3, Unmoved DEF RecordsInv
<1>5. RowsInv'
  BY <1>1, <1>3, <1>4, BecomesInv DEF RecordsInv, RowsInv, Typed
<1>6. Stored'
  BY <1>1, <1>2, <1>3 DEF RecordsInv, Stored, rows
<1> QED
  BY <1>5, <1>6 DEF RecordsInv

LEMMA StoreInv ==
  ASSUME RecordsInv, NEW i \in Ids, Store(i)
  PROVE  RecordsInv'
<1>1. /\ reqs[i].op = "upload" /\ reqs[i].phase = "read" /\ reqs[i].txn = "none" /\ UNCHANGED rows
      /\ i \in DOMAIN files /\ i \notin DOMAIN recordings
  BY NoRow DEF Store, Uploading, RecordsInv, RowsInv, Handled, PhaseRight
<1>2. CASE files' = [files EXCEPT ![i] = "whole"] /\ UNCHANGED reqs
  <2>1. /\ DOMAIN files' = DOMAIN files /\ files'[i] = "whole" /\ \A f \in DOMAIN files \ {i} : files'[f] = files[f]
        /\ Ids' = Ids /\ reqs' = reqs
    BY <1>1, <1>2 DEF Ids
  <2>2. RowsInv'
    BY <1>1, <2>1, Unmoved, BecomesInv DEF RecordsInv, RowsInv, Typed
  <2>3. Stored'
    BY <1>1, <2>1 DEF RecordsInv, Stored, rows
  <2> QED
    BY <2>2, <2>3 DEF RecordsInv
<1>3. ASSUME NEW code \in Nat, files' = Restrict(files, DOMAIN files \ {i}), Answers(i, code)
      PROVE  RecordsInv'
  <2>1. PICK r : Proceeds(i, r) /\ r.phase = "answered" /\ r.txn = "none"
    BY <1>1, <1>3, AnswersProceeds DEF RecordsInv
  <2>2. RowsInv' /\ r \in Requested /\ r.op = reqs[i].op
    BY <1>1, <2>1, ProceedsInv DEF RecordsInv, Proceeds
  <2>3. reqs'[i] = r /\ Ids' = Ids /\ \A j \in Ids \ {i} : reqs'[j] = reqs[j]
    BY <2>1, OneRequest DEF Proceeds, RecordsInv, RowsInv
  <2>4. DOMAIN files' = DOMAIN files \ {i} /\ \A f \in DOMAIN files \ {i} : files'[f] = files[f]
    BY <1>3 DEF Restrict
  <2>5. Stored'
    BY <1>1, <2>1, <2>3, <2>4 DEF RecordsInv, Stored, rows
  <2> QED
    BY <2>2, <2>5 DEF RecordsInv
<1> QED
  BY <1>2, <1>3 DEF Store

LEMMA DiskFailsInv ==
  ASSUME RecordsInv, NEW i \in Ids, DiskFails(i)
  PROVE  RecordsInv'
  BY CrashInv DEF DiskFails, Uploading, RecordsInv, RowsInv, Handled, PhaseRight

\* The recordings of a session are finitely many.
LEMMA Finite ==
  ASSUME Typed, NEW s, NEW T \in SUBSET Of(recordings, s)
  PROVE  IsFiniteSet(T) /\ Cardinality(T) \in Nat
<1>1. IsFiniteSet(0..MaxRequests)
  BY FS_Interval, RequestsAssumption
<1>2. T \in SUBSET (0..MaxRequests)
  BY DEF Typed, Of
<1>3. IsFiniteSet(T)
  BY <1>1, <1>2, FS_Subset
<1> QED
  BY <1>3, FS_CardinalityType

LEMMA CountInv ==
  ASSUME RecordsInv, NEW i \in Ids, Count(i)
  PROVE  RecordsInv'
<1> DEFINE found == Of(recordings, reqs[i].arg.session)
           aligned == {r \in found : recordings[r].offset # 0}
<1>1. /\ reqs[i].op = "summary" /\ reqs[i].phase = "read" /\ reqs[i].txn = "none" /\ reqs[i] \in Requested
      /\ UNCHANGED <<rows, files>> /\ RowsInv /\ Typed
      /\ Reads(i, [recordings |-> Cardinality(found), aligned |-> Cardinality(aligned)])
  BY IdFacts DEF RecordsInv, RowsInv, Handled, PhaseRight, Count
<1>2. PICK n \in Nat, m \in Nat : n = Cardinality(found) /\ m = Cardinality(aligned)
  BY <1>1, Finite
<1>3. PICK s \in Counts : s = [recordings |-> n, aligned |-> m]
  BY DEF Counts
<1>4. m = n => aligned = found
  <2>1. IsFiniteSet(found) /\ aligned \in SUBSET found
    BY <1>1, Finite
  <2> QED
    BY <1>2, <2>1, FS_Subset
<1>5. m = n => \E old \in SUBSET found : Cardinality(old) = n /\ \A r \in old : recordings[r].offset # 0
  BY <1>2, <1>4
<1> DEFINE r == [reqs[i] EXCEPT !.phase = "read", !.seen = s]
<1>6. reqs' = [reqs EXCEPT ![i] = r]
  BY <1>1, <1>2, <1>3 DEF Reads
<1>7. s \in Seens
  BY DEF Seens
<1>8. /\ r \in Requested /\ r.op = reqs[i].op /\ r.who = reqs[i].who /\ r.arg = reqs[i].arg
      /\ r.phase = "read" /\ r.seen = s /\ r.txn = "none"
  BY <1>1, <1>7, ReadRecord
<1> HIDE DEF r
<1>9. /\ reqs'[i] = r /\ Ids' = Ids /\ \A j \in Ids \ {i} : reqs'[j] = reqs[j]
  BY <1>1, <1>6, <1>8, OneRequest
<1>10. CountRight(i)'
  <2>1. UNCHANGED recordings /\ reqs'[i].seen = s /\ s.aligned = m /\ s.recordings = n
    BY <1>1, <1>3, <1>8, <1>9 DEF rows
  <2> QED
    BY <1>5, <1>8, <1>9, <2>1 DEF CountRight, Of
<1>11. Becomes(i)
  BY <1>1, <1>8, <1>9, <1>10 DEF Becomes, PhaseRight, ScopeRight
<1>12. RowsInv'
  BY <1>1, <1>6, <1>8, <1>11, OneInv
<1>13. Stored'
  BY <1>1, <1>8, <1>9, StoredKept DEF RecordsInv
<1> QED
  BY <1>12, <1>13 DEF RecordsInv

LEMMA HaltInv ==
  ASSUME RecordsInv, Halt
  PROVE  RecordsInv'
<1> DEFINE lost(i) == [reqs[i] EXCEPT !.phase = "told", !.txn = "lost", !.seen = None]
<1>1. /\ reqs' = [i \in Ids |-> IF Settled(i) THEN reqs[i] ELSE lost(i)]
      /\ UNCHANGED <<rows, files>> /\ RowsInv /\ reqs \in Seq(Requested)
  BY DEF Halt, RecordsInv, RowsInv, Typed
<1>2. \A i \in Ids : /\ reqs[i] \in Requested
                     /\ lost(i) \in Requested /\ lost(i).op = reqs[i].op /\ lost(i).who = reqs[i].who
                     /\ lost(i).arg = reqs[i].arg
                     /\ lost(i).phase = "told" /\ lost(i).seen = None /\ lost(i).txn = "lost"
  <2>1. SUFFICES ASSUME NEW i \in Ids
                 PROVE  /\ reqs[i] \in Requested
                        /\ lost(i) \in Requested /\ lost(i).op = reqs[i].op /\ lost(i).who = reqs[i].who
                        /\ lost(i).arg = reqs[i].arg
                        /\ lost(i).phase = "told" /\ lost(i).seen = None /\ lost(i).txn = "lost"
    OBVIOUS
  <2>2. PICK q \in Requested : q = reqs[i]
    BY IdFacts DEF RecordsInv, RowsInv
  <2> QED
    BY <2>2, HaltedRecord
<1> HIDE DEF lost
<1>3. \A i \in Ids : ~Settled(i) => reqs[i].txn # "done"
  <2>1. \A i \in Ids : PhaseRight(i) /\ reqs[i].phase \in {"received", "read", "flushed", "answered", "told"}
    BY <1>1, IdFacts DEF RowsInv, Handled
  <2> QED
    BY <2>1 DEF Settled, PhaseRight
<1>4. reqs' \in Seq(Requested) /\ Len(reqs') = Len(reqs) /\ Ids' = Ids
  BY <1>1, <1>2 DEF Ids
<1>5. \A i \in Ids : reqs'[i] = IF Settled(i) THEN reqs[i] ELSE lost(i)
  BY <1>1
<1>6. \A i \in Ids : Becomes(i)
  <2>1. SUFFICES ASSUME NEW i \in Ids PROVE Becomes(i)
    OBVIOUS
  <2>2. CASE Settled(i)
    BY <1>1, <1>5, <2>2, Unmoved
  <2>3. CASE ~Settled(i)
    BY <1>2, <1>3, <1>5, <2>3 DEF Becomes, PhaseRight, Goes, CountRight
  <2> QED
    BY <2>2, <2>3
<1>7. RowsInv'
  BY <1>1, <1>4, <1>6, BecomesInv
<1>8. Stored'
  <2>1. \A i \in Ids : /\ reqs'[i].op = reqs[i].op /\ (reqs'[i].txn = "due" => reqs[i].txn = "due")
                      /\ (reqs[i].phase = "read" \/ reqs[i].txn \in {"due", "lost"} =>
                            reqs'[i].txn \in {"due", "lost"})
    <3>1. SUFFICES ASSUME NEW i \in Ids
                   PROVE  /\ reqs'[i].op = reqs[i].op /\ (reqs'[i].txn = "due" => reqs[i].txn = "due")
                          /\ (reqs[i].phase = "read" \/ reqs[i].txn \in {"due", "lost"} =>
                                reqs'[i].txn \in {"due", "lost"})
      OBVIOUS
    <3>2. CASE Settled(i)
      BY <1>5, <3>2 DEF Settled
    <3>3. CASE ~Settled(i)
      BY <1>2, <1>5, <3>3
    <3> QED
      BY <3>2, <3>3
  <2>2. UNCHANGED <<recordings, files>>
    BY <1>1 DEF rows
  <2> QED
    BY <1>4, <2>1, <2>2 DEF RecordsInv, Stored
<1> QED
  BY <1>7, <1>8 DEF RecordsInv

\* What a commit makes of the recordings: an offset that was set stays set.
LEMMA RecordingsCommitted ==
  ASSUME RecordsInv, NEW i \in Ids, Commit(i)
  PROVE  /\ \A r : r \in DOMAIN recordings' <=> r \in DOMAIN recordings \/ (reqs[i].op = "upload" /\ r = i)
         /\ \A r \in DOMAIN recordings' : recordings'[r] \in RecordingRows
         /\ \A r \in DOMAIN recordings :
              /\ recordings'[r].session = recordings[r].session /\ recordings'[r].tenant = recordings[r].tenant
              /\ recordings[r].offset # 0 => recordings'[r].offset # 0
         /\ reqs[i].op = "upload" =>
              /\ recordings'[i].session = reqs[i].arg.session
              /\ recordings'[i].tenant = TenantOf[reqs[i].who]
<1>1. /\ i \notin DOMAIN recordings /\ \A r \in DOMAIN recordings : recordings[r] \in RecordingRows
      /\ reqs[i].who \in Whos
  BY IdFacts, NoRow DEF Commit, Commits, RecordsInv, RowsInv, Typed
<1>2. PICK q \in Questions : reqs[i].op = q.op /\ reqs[i].arg = q.arg
  BY DEF RecordsInv, RowsInv, Handled, Asks
<1>3. CASE reqs[i].op = "upload"
  <2>1. recordings' = Insert(recordings, i, RecordingRow(reqs[i]))
    BY <1>3 DEF Commit
  <2>2. RecordingRow(reqs[i]) = [session |-> q.arg.session, tenant |-> TenantOf[reqs[i].who],
                                 offset |-> 0, confidence |-> 0]
    BY <1>2 DEF RecordingRow, RecordingOf, Unaligned
  <2>3. /\ RecordingRow(reqs[i]) \in RecordingRows /\ RecordingRow(reqs[i]).session = reqs[i].arg.session
        /\ RecordingRow(reqs[i]).tenant = TenantOf[reqs[i].who]
    BY <1>1, <1>2, <2>2 DEF RecordingRows, Clubs, Pairs
  <2>4. /\ DOMAIN recordings' = DOMAIN recordings \cup {i} /\ recordings'[i] = RecordingRow(reqs[i])
        /\ \A r \in DOMAIN recordings : recordings'[r] = recordings[r]
    BY <1>1, <2>1 DEF Insert
  <2> QED
    BY <1>1, <1>3, <2>3, <2>4
<1>4. CASE reqs[i].op = "align"
  <2>1. PICK k \in DOMAIN recordings : k = reqs[i].arg.recording
    BY <1>4 DEF RecordsInv, RowsInv, Handled, Goes, ScopeRight, RecordingInTenant, Commit, Commits
  <2>2. PICK row \in RecordingRows : row = recordings[k]
    BY <1>1
  <2>3. recordings' = [recordings EXCEPT ![k] = Aligned(row, reqs[i].seen, q.arg.value)]
    BY <1>2, <1>4, <2>1, <2>2 DEF Commit
  <2>4. PICK a \in Pairs : a = IF q.arg.value.offset = reqs[i].seen.offset THEN row.offset ELSE q.arg.value.offset
    BY <2>2 DEF RecordingRows, Pairs
  <2>5. PICK b \in Pairs :
          b = IF q.arg.value.confidence = reqs[i].seen.confidence THEN row.confidence ELSE q.arg.value.confidence
    BY <2>2 DEF RecordingRows, Pairs
  <2>6. Aligned(row, reqs[i].seen, q.arg.value) = [row EXCEPT !.offset = a, !.confidence = b]
    BY <2>4, <2>5 DEF Aligned
  <2>7. AlignmentIn(q.arg.value)
    BY <1>2, <1>4 DEF RecordsInv, RowsInv, Handled, Goes, ScopeRight, Commit, Commits
  <2>8. q.arg.value.offset # 0
    BY <1>2, <1>4, <2>7, SessionRecordsAssumption
  <2> DEFINE r == [row EXCEPT !.offset = a, !.confidence = b]
  <2>9. r \in RecordingRows /\ r.session = row.session /\ r.tenant = row.tenant /\ r.offset = a
    BY <2>2, <2>4, <2>5 DEF RecordingRows
  <2>10. recordings' = [recordings EXCEPT ![k] = r]
    BY <2>3, <2>6
  <2> HIDE DEF r
  <2>11. /\ DOMAIN recordings' = DOMAIN recordings /\ recordings'[k] = r
         /\ \A j \in DOMAIN recordings \ {k} : recordings'[j] = recordings[j]
    BY <2>1, <2>10
  <2>12. row.offset # 0 => r.offset # 0
    BY <2>4, <2>8, <2>9
  <2> QED
    BY <1>1, <1>4, <2>1, <2>2, <2>9, <2>11, <2>12
<1>5. CASE reqs[i].op \notin {"upload", "align"}
  BY <1>1, <1>5 DEF Commit
<1> QED
  BY <1>3, <1>4, <1>5

LEMMA RequestCommitted ==
  ASSUME RecordsInv, NEW i \in Ids, Commit(i)
  PROVE  /\ reqs' \in Seq(Requested) /\ Len(reqs') = Len(reqs) /\ Ids' = Ids
         /\ \A j \in Ids \ {i} : reqs'[j] = reqs[j]
         /\ reqs'[i].op = reqs[i].op /\ reqs'[i].who = reqs[i].who /\ reqs'[i].arg = reqs[i].arg
         /\ reqs'[i].txn = "done" /\ reqs'[i].phase \in {"answered", "told"} /\ reqs'[i].seen = None
         /\ reqs[i].txn = "due"
<1>1. /\ reqs[i] \in Requested /\ reqs[i].txn = "due" /\ reqs[i].phase \in {"flushed", "told"}
      /\ Committed(i) /\ reqs[i].answer \in Nat
  BY IdFacts DEF Commit, Commits, RecordsInv, RowsInv
<1>2. PICK phase \in {"answered", "told"} : phase = IF reqs[i].phase = "flushed" THEN "answered" ELSE reqs[i].phase
  BY <1>1
<1>3. PICK code \in Nat : code = IF reqs[i].phase = "flushed" THEN 200 ELSE reqs[i].answer
  BY <1>1
<1> DEFINE a == [reqs[i] EXCEPT !.txn = "done", !.seen = None]
           r == [a EXCEPT !.phase = phase, !.answer = code]
           first == [reqs EXCEPT ![i].txn = "done", ![i].seen = None]
<1>4. reqs' = [first EXCEPT ![i].phase = IF @ = "flushed" THEN "answered" ELSE @,
                            ![i].answer = IF reqs[i].phase = "flushed" THEN 200 ELSE @]
  BY <1>1 DEF Committed
<1>5. first = [reqs EXCEPT ![i] = a]
  OBVIOUS
<1>6. /\ a \in Requested /\ a.op = reqs[i].op /\ a.who = reqs[i].who /\ a.arg = reqs[i].arg
      /\ a.txn = "done" /\ a.seen = None /\ a.phase = reqs[i].phase /\ a.answer = reqs[i].answer
  BY <1>1 DEF Requested, Seens
<1> HIDE DEF a
<1>7. first[i] = a /\ DOMAIN first = DOMAIN reqs
  BY <1>5 DEF Ids
<1> HIDE DEF first
<1>8. reqs' = [first EXCEPT ![i].phase = phase, ![i].answer = code]
  BY <1>2, <1>3, <1>4, <1>6, <1>7
<1>9. reqs' = [first EXCEPT ![i] = r]
  BY <1>7, <1>8
<1>10. /\ r \in Requested /\ r.op = a.op /\ r.who = a.who /\ r.arg = a.arg
       /\ r.txn = a.txn /\ r.seen = a.seen /\ r.phase = phase
  BY <1>2, <1>3, <1>6 DEF Requested
<1> HIDE DEF r
<1>11. reqs' = [reqs EXCEPT ![i] = r]
  BY <1>5, <1>7, <1>9
<1> QED
  BY <1>1, <1>2, <1>6, <1>10, <1>11, OneRequest DEF RecordsInv, RowsInv

LEMMA CommitInv ==
  ASSUME RecordsInv, NEW i \in Ids, Commit(i)
  PROVE  RecordsInv'
<1>1. /\ reqs' \in Seq(Requested) /\ Len(reqs') = Len(reqs) /\ Ids' = Ids
      /\ \A j \in Ids \ {i} : reqs'[j] = reqs[j]
      /\ reqs'[i].txn = "done" /\ reqs'[i].phase \in {"answered", "told"} /\ reqs'[i].seen = None
      /\ reqs[i].txn = "due" /\ UNCHANGED files
      /\ \A j \in Ids : reqs'[j].op = reqs[j].op /\ reqs'[j].who = reqs[j].who /\ reqs'[j].arg = reqs[j].arg
  BY RequestCommitted DEF Commit
<1>2. /\ i \notin DOMAIN recordings /\ i \notin DOMAIN sessions /\ i \in 1..MaxRequests /\ ScopeRight(i)
  BY <1>1, IdFacts, NoRow DEF RecordsInv, RowsInv, Handled, Goes
<1>3. /\ \A s : s \in DOMAIN sessions' <=> s \in DOMAIN sessions \/ (reqs[i].op = "create" /\ s = i)
      /\ \A s \in DOMAIN sessions : sessions'[s] = sessions[s]
  <2>1. CASE reqs[i].op = "create"
    BY <1>2, <2>1 DEF Commit, Insert
  <2>2. CASE reqs[i].op # "create"
    BY <2>2 DEF Commit
  <2> QED
    BY <2>1, <2>2
<1>4. \A j \in Ids : ScopeRight(j) => ScopeRight(j)'
  BY <1>1, <1>3, RecordingsCommitted DEF ScopeRight, SessionInTenant, RecordingInTenant
<1>5. \A j \in Ids : Asks(j)' /\ PhaseRight(j)'
  BY <1>1 DEF RecordsInv, RowsInv, Handled, Asks, PhaseRight
<1>6. \A j \in Ids : CountRight(j)'
  <2>1. SUFFICES ASSUME NEW j \in Ids, reqs'[j].op = "summary", reqs'[j].seen # None
                 PROVE  CountRight(j)'
    BY <1>1 DEF CountRight
  <2>2. reqs'[j] = reqs[j]
    BY <1>1, <2>1
  <2>3. Of(recordings, reqs[j].arg.session) \subseteq Of(recordings', reqs[j].arg.session)
    BY RecordingsCommitted DEF Of
  <2>4. \A r \in Of(recordings, reqs[j].arg.session) : recordings[r].offset # 0 => recordings'[r].offset # 0
    BY RecordingsCommitted DEF Of
  <2>5. CountRight(j)
    BY DEF RecordsInv, RowsInv, Handled
  <2>6. reqs[j].seen.aligned = reqs[j].seen.recordings =>
          \E old \in SUBSET Of(recordings', reqs[j].arg.session) :
            Cardinality(old) = reqs[j].seen.recordings /\ \A r \in old : recordings'[r].offset # 0
    <3>1. SUFFICES ASSUME reqs[j].seen.aligned = reqs[j].seen.recordings
                   PROVE  \E old \in SUBSET Of(recordings', reqs[j].arg.session) :
                            Cardinality(old) = reqs[j].seen.recordings /\ \A r \in old : recordings'[r].offset # 0
      OBVIOUS
    <3>2. PICK old \in SUBSET Of(recordings, reqs[j].arg.session) :
             Cardinality(old) = reqs[j].seen.recordings /\ \A r \in old : recordings[r].offset # 0
      BY <2>1, <2>2, <2>5, <3>1 DEF CountRight
    <3>3. old \in SUBSET Of(recordings', reqs[j].arg.session)
      BY <2>3, <3>2
    <3>4. \A r \in old : recordings'[r].offset # 0
      BY <2>4, <3>2
    <3> QED
      BY <3>2, <3>3, <3>4
  <2> QED
    BY <2>1, <2>2, <2>5, <2>6 DEF CountRight
<1>7. Handled'
  BY <1>1, <1>4, <1>5, <1>6 DEF RecordsInv, RowsInv, Handled, Goes
<1>8. Typed'
  BY <1>1, <1>2, RecordingsCommitted, RequestsAssumption DEF RecordsInv, RowsInv, Typed
<1>9. Hangs'
  <2>1. \A r \in DOMAIN recordings' :
          recordings'[r].session \in DOMAIN sessions' /\ recordings'[r].tenant = sessions'[recordings'[r].session]
    BY <1>2, <1>3, RecordingsCommitted DEF RecordsInv, RowsInv, Hangs, ScopeRight, SessionInTenant
  <2>2. ASSUME NEW c \in calibrations'
        PROVE  /\ c.recording \in DOMAIN recordings' /\ recordings'[c.recording].session = c.session
               /\ c.session \in DOMAIN sessions' /\ c.tenant = sessions'[c.session]
    <3>1. CASE c \in calibrations
      BY <1>3, <3>1, RecordingsCommitted DEF RecordsInv, RowsInv, Hangs
    <3>2. CASE reqs[i].op = "calibrate" /\ c = CalibrationRow(i, reqs[i])
      <4>1. c.session = reqs[i].arg.session /\ c.recording = reqs[i].arg.recording /\ c.tenant = TenantOf[reqs[i].who]
        BY <3>2 DEF CalibrationRow
      <4>2. RecordingInTenant(reqs[i].who, reqs[i].arg.session, reqs[i].arg.recording)
        BY <1>2, <3>2 DEF ScopeRight
      <4> QED
        BY <1>3, <4>1, <4>2, RecordingsCommitted DEF RecordingInTenant, SessionInTenant
    <3> QED
      BY <2>2, <3>1, <3>2 DEF Commit
  <2>3. ASSUME NEW n \in notes'
        PROVE  n.session \in DOMAIN sessions' /\ n.tenant = sessions'[n.session]
    <3>1. CASE n \in notes
      BY <1>3, <3>1 DEF RecordsInv, RowsInv, Hangs
    <3>2. CASE reqs[i].op = "note" /\ n = NoteRow(i, reqs[i])
      BY <1>2, <1>3, <3>2 DEF NoteRow, ScopeRight, SessionInTenant
    <3> QED
      BY <2>3, <3>1, <3>2 DEF Commit
  <2> QED
    BY <2>1, <2>2, <2>3 DEF Hangs
<1>10. Numbered'
  <2>1. \A s \in DOMAIN sessions' : s = 0 \/ DoneBy(s, "create")'
    BY <1>1, <1>3 DEF RecordsInv, RowsInv, Numbered, DoneBy
  <2>2. \A r \in DOMAIN recordings' : r = 0 \/ DoneBy(r, "upload")'
    BY <1>1, RecordingsCommitted DEF RecordsInv, RowsInv, Numbered, DoneBy
  <2> QED
    BY <2>1, <2>2 DEF Numbered
<1>11. Stored'
  <2>1. \A r \in DOMAIN recordings' : r \in DOMAIN files' /\ files'[r] = "whole"
    BY <1>1, RecordingsCommitted DEF RecordsInv, Stored
  <2>2. \A f \in DOMAIN files' \ DOMAIN recordings' :
           f \in Ids' /\ reqs'[f].op = "upload" /\ (reqs'[f].phase = "read" \/ reqs'[f].txn \in {"due", "lost"})
    BY <1>1, RecordingsCommitted DEF RecordsInv, Stored
  <2>3. \A j \in Ids' : reqs'[j].op = "upload" /\ reqs'[j].txn = "due" => j \in DOMAIN files' /\ files'[j] = "whole"
    BY <1>1 DEF RecordsInv, Stored
  <2> QED
    BY <2>1, <2>2, <2>3 DEF Stored
<1> QED
  BY <1>7, <1>8, <1>9, <1>10, <1>11 DEF RecordsInv, RowsInv

LEMMA StepInv ==
  ASSUME RecordsInv, [Next]_vars
  PROVE  RecordsInv'
<1>1. ASSUME NEW q \in Questions, Ask(q) PROVE RecordsInv'
  BY <1>1, AskInv
<1>2. ASSUME NEW i \in Ids, \/ Look(i) \/ OpenFile(i) \/ Store(i) \/ DiskFails(i) \/ Write(i) \/ Commit(i)
                            \/ Count(i) \/ Conclude(i) \/ Tell(i)
      PROVE  RecordsInv'
  BY <1>2, LookInv, OpenFileInv, StoreInv, DiskFailsInv, WriteInv, CommitInv, CountInv, ConcludeInv, TellInv
<1>3. ASSUME NEW i \in Ids, Respond(i) \/ Rollback(i), UNCHANGED <<rows, files>> PROVE RecordsInv'
  BY <1>3, RespondInv, RollbackInv
<1>4. CASE Halt
  BY <1>4, HaltInv
<1>5. CASE UNCHANGED vars
  BY <1>5 DEF vars, rows, RecordsInv, RowsInv, Typed, Handled, Asks, PhaseRight, ScopeRight, CountRight, Hangs, Numbered,
     Stored, Goes, DoneBy, Ids, Of, SessionInTenant, RecordingInTenant
<1> QED
  BY <1>1, <1>2, <1>3, <1>4, <1>5 DEF Next

(* Whatever overlaps, fails or stops, the requests, the rows and the files *)
(* stay of their types and consistent: what a handler has found in its     *)
(* tenant is there at its commit, and every row hangs below a session of   *)
(* its tenant (routers/session.py, store_upload).                          *)
THEOREM RecordsInvariant == Spec => []RecordsInv
<1>1. Init => RecordsInv
  BY InitInv
<1>2. RecordsInv /\ [Next]_vars => RecordsInv'
  BY StepInv
<1> QED
  BY <1>1, <1>2, PTL DEF Spec

(* Whatever stops an upload, a recording with a row has its whole file, and *)
(* a file without a row is of an upload that runs or was lost              *)
(* (upload_recording, store_upload).                                       *)
THEOREM FilesHaveRows == Spec => []FilesAndRows
<1>1. RecordsInv => FilesAndRows
  BY DEF RecordsInv, RowsInv, Handled, PhaseRight, Stored, FilesAndRows, Settled
<1> QED
  BY <1>1, RecordsInvariant, PTL

(* For any number of clubs, what any endpoint shows is of the caller's     *)
(* tenant and below the ids of the path (_session_in_tenant and            *)
(* _recording_in_tenant).                                                  *)
THEOREM ReadsScoped == Spec => []ReadsStayInTenant
<1>1. RecordsInv => ReadsStayInTenant
  <2>1. SUFFICES ASSUME Hangs, NEW who, NEW s \in DOMAIN sessions
                 PROVE  /\ \A r \in ListRecordings(who, s) : recordings[r].tenant = TenantOf[who]
                        /\ \A n \in GetNote(who, s) : n.tenant = TenantOf[who]
                        /\ \A r \in DOMAIN recordings :
                             /\ GetRecording(who, s, r) # {} => GetSession(who, recordings[r].session) # {}
                             /\ \A h \in Health(who, s, r) : {h.baseline.tenant, h.latest.tenant} = {TenantOf[who]}
    BY DEF RecordsInv, RowsInv, ReadsStayInTenant
  <2>2. \A r \in ListRecordings(who, s) : recordings[r].tenant = TenantOf[who]
    BY <2>1 DEF Hangs, ListRecordings, Of, SessionInTenant
  <2>3. \A n \in GetNote(who, s) : n.tenant = TenantOf[who]
    BY <2>1 DEF Hangs, GetNote, SessionInTenant
  <2>4. \A r \in DOMAIN recordings : GetRecording(who, s, r) # {} => GetSession(who, recordings[r].session) # {}
    BY <2>1 DEF GetRecording, GetSession, ListSessions, RecordingInTenant, SessionInTenant
  <2>5. \A r : \A c \in History(who, s, r) : c.tenant = TenantOf[who]
    BY <2>1 DEF Hangs, History, RecordingInTenant, SessionInTenant
  <2>6. \A r : \A h \in Health(who, s, r) : h.baseline \in History(who, s, r) /\ h.latest \in History(who, s, r)
    BY DEF Health, GetCalibration, Newest, Oldest
  <2> QED
    BY <2>2, <2>3, <2>4, <2>5, <2>6
<1> QED
  BY <1>1, RecordsInvariant, PTL

(* A summary calls a session calibrated or aligned only if it is, unless a *)
(* recording came in between its queries: an offset that was counted is    *)
(* still set, and a session has no calibration of a recording that is not  *)
(* its own (get_session_summary).                                          *)
THEOREM SummariesRight == Spec => ReadyUnlessOvertaken
<1> DEFINE Right(i) ==
      LET found == Of(recordings, reqs[i].arg.session) IN
      Cardinality(found) = reqs[i].seen.recordings =>
         /\ CalibrationComplete(i) => found \subseteq Calibrated(reqs[i].arg.session)
         /\ AlignmentComplete(i) => Cardinality(found) <= 1 \/ \A r \in found : recordings[r].offset # 0
<1>1. ASSUME RecordsInv, NEW i \in Ids, reqs[i].op = "summary", reqs[i].seen # None
      PROVE  Right(i)
  <2> DEFINE found == Of(recordings, reqs[i].arg.session)
             calibrated == Calibrated(reqs[i].arg.session)
  <2>1. SUFFICES ASSUME Cardinality(found) = reqs[i].seen.recordings
                 PROVE  /\ CalibrationComplete(i) => found \subseteq calibrated
                        /\ AlignmentComplete(i) => Cardinality(found) <= 1 \/ \A r \in found : recordings[r].offset # 0
    OBVIOUS
  <2>2. IsFiniteSet(found) /\ Typed /\ CountRight(i) /\ Hangs
    BY <1>1, Finite DEF RecordsInv, RowsInv, Handled
  <2>3. ASSUME CalibrationComplete(i) PROVE found \subseteq calibrated
    <3>1. calibrated \in SUBSET found
      BY <2>2 DEF Hangs, Calibrated, Of
    <3>2. Cardinality(calibrated) = Cardinality(found)
      BY <2>1, <2>3 DEF CalibrationComplete
    <3> QED
      BY <2>2, <3>1, <3>2, FS_Subset
  <2>4. ASSUME AlignmentComplete(i), ~(Cardinality(found) <= 1) PROVE \A r \in found : recordings[r].offset # 0
    <3>1. reqs[i].seen.aligned = reqs[i].seen.recordings
      BY <2>1, <2>4 DEF AlignmentComplete
    <3>2. PICK old \in SUBSET found : Cardinality(old) = Cardinality(found) /\ \A r \in old : recordings[r].offset # 0
      BY <1>1, <2>1, <2>2, <3>1 DEF CountRight
    <3>3. old = found
      BY <2>2, <3>2, FS_Subset
    <3> QED
      BY <3>2, <3>3
  <2> QED
    BY <2>3, <2>4
<1> DEFINE Concluding ==
      \A i \in Ids : LET found == Of(recordings, reqs[i].arg.session) IN
        Concluded(i) /\ Cardinality(found) = reqs[i].seen.recordings =>
         /\ CalibrationComplete(i) => found \subseteq Calibrated(reqs[i].arg.session)
         /\ AlignmentComplete(i) => Cardinality(found) <= 1 \/ \A r \in found : recordings[r].offset # 0
<1>2. RecordsInv => Concluding
  BY <1>1 DEF Concluded
<1>3. RecordsInv /\ [Next]_vars => [Concluding]_vars
  BY <1>2
<1> QED
  BY <1>3, RecordsInvariant, PTL DEF Spec, ReadyUnlessOvertaken
=============================================================================
