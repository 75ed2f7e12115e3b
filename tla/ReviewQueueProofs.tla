-------------------------- MODULE ReviewQueueProofs --------------------------
(* However many coaches, items and overlapping requests there are, labels   *)
(* are by a coach who claimed the item, only a stale reader replaces an     *)
(* item that is labelled, and the audit chain breaks only where appends     *)
(* overlapped or the clock did not advance.                                 *)
EXTENDS ReviewQueue, TLAPS

Clubs == {TenantOf[p] : p \in Principals}

Rows == [status : {"missing", "pending", "claimed", "labelled", "discarded"},
         tenant : Clubs \cup {NoOne}, annotator : Principals \cup {NoOne}, labels : SUBSET Nat]

Requested ==
  [op : Ops, who : Principals, arg : Items,
   phase : {"received", "read", "flushed", "answered", "linked", "stamped", "told"},
   seen : Rows \cup {None}, txn : {"none", "due", "done", "lost"}, answer : Nat]

\* The handler still acts on what it read.
Acting(r) == r.phase = "read" \/ r.txn = "due"

ClaimedBy(who, k) ==
  \E j \in Ids : reqs[j].op = "claim" /\ reqs[j].arg = k /\ reqs[j].who = who /\ reqs[j].txn = "done"

Typed == reqs \in Seq(Requested) /\ row \in [Items -> Rows]
Fresh == \A i \in Ids : reqs[i].phase \in {"received", "read"} => reqs[i].txn = "none"
ClaimsKept == \A k \in Items : row[k].status = "claimed" => ClaimedBy(row[k].annotator, k)
LabelsKept == \A k \in Items : \A i \in row[k].labels : i \in Ids /\ ClaimedBy(reqs[i].who, k)
Blank == \A k \in Items : row[k].status = "missing" => row[k] = Missing

\* What a request that goes on has found, and what of it still holds.
Decided ==
  \A i \in Ids : Acting(reqs[i]) =>
    /\ reqs[i].seen \in Rows /\ reqs[i].seen.status # "labelled"
    /\ reqs[i].op = "label" => ClaimedBy(reqs[i].who, reqs[i].arg)
    /\ reqs[i].op # "enqueue" => row[reqs[i].arg].status # "missing"

\* An item is enqueued once, and is not there before.
EnqueuedOnce ==
  \A i \in Ids : reqs[i].op = "enqueue" =>
    /\ reqs[i].txn \in {"none", "due"} => row[reqs[i].arg] = Missing
    /\ \A j \in Ids : reqs[j].op = "enqueue" /\ reqs[j].arg = reqs[i].arg => j = i

QueueInv == Typed /\ Fresh /\ ClaimsKept /\ LabelsKept /\ Blank /\ Decided /\ EnqueuedOnce

\* A step that changes request i at most, and lets it act only on what it had read.
Carries(i) ==
  /\ i \in Ids /\ reqs' \in Seq(Requested) /\ Ids' = Ids
  /\ \A j \in Ids \ {i} : reqs'[j] = reqs[j]
  /\ reqs'[i].op = reqs[i].op /\ reqs'[i].who = reqs[i].who /\ reqs'[i].arg = reqs[i].arg
  /\ reqs'[i].txn = "done" <=> reqs[i].txn = "done"
  /\ reqs'[i].txn \in {"none", "due"} => reqs[i].txn \in {"none", "due"}
  /\ reqs'[i].phase \in {"received", "read"} => reqs'[i].txn = "none"
  /\ Acting(reqs'[i]) => Acting(reqs[i]) /\ reqs'[i].seen = reqs[i].seen

LEMMA MissingIsRow == Missing \in Rows
  BY DEF Missing, Rows

LEMMA PendingIsRow ==
  ASSUME NEW tenant \in Clubs
  PROVE  Pending(tenant) \in Rows /\ Pending(tenant).status = "pending" /\ Pending(tenant).labels = {}
  BY DEF Pending, Missing, Rows

LEMMA ClubOf ==
  ASSUME NEW p \in Principals
  PROVE  TenantOf[p] \in Clubs /\ TenantOf[p] # NoOne
  BY ReviewQueueAssumption DEF Clubs

LEMMA InitInv ==
  ASSUME Init
  PROVE  QueueInv
<1>1. reqs = <<>> /\ Ids = {}
  BY DEF Init, RequestsInit, Ids
<1>2. \A k \in Items : row[k] \in Rows /\ row[k].labels = {} /\ row[k].status # "claimed"
                       /\ (row[k].status = "missing" => row[k] = Missing)
  <2> TAKE k \in Items
  <2>1. CASE row[k] = Missing
    BY <2>1, MissingIsRow DEF Missing
  <2>2. ASSUME NEW c \in Coaches, row[k] = Pending(TenantOf[c])
        PROVE  row[k] \in Rows /\ row[k].labels = {} /\ row[k].status = "pending"
    BY <2>2, ClubOf, PendingIsRow, ReviewQueueAssumption
  <2> QED
    BY <2>1, <2>2 DEF Init
<1>3. DOMAIN row = Items /\ row = [k \in Items |-> row[k]]
  BY DEF Init
<1> QED
  BY <1>1, <1>2, <1>3 DEF QueueInv, Typed, Fresh, ClaimsKept, LabelsKept, Blank, Decided, EnqueuedOnce

LEMMA CarriesInv ==
  ASSUME QueueInv, UNCHANGED row, NEW i, Carries(i)
  PROVE  QueueInv'
<1> USE DEF QueueInv, Carries
<1>1. \A j \in Ids : reqs'[j].op = reqs[j].op /\ reqs'[j].who = reqs[j].who /\ reqs'[j].arg = reqs[j].arg
                     /\ (reqs'[j].txn = "done" <=> reqs[j].txn = "done")
                     /\ (Acting(reqs'[j]) => Acting(reqs[j]) /\ reqs'[j].seen = reqs[j].seen)
                     /\ (reqs'[j].txn \in {"none", "due"} => reqs[j].txn \in {"none", "due"})
  OBVIOUS
<1>2. \A w, k : ClaimedBy(w, k)' <=> ClaimedBy(w, k)
  BY <1>1 DEF ClaimedBy
<1>3. Typed' /\ Fresh' /\ Blank'
  BY DEF Typed, Fresh, Blank
<1>4. ClaimsKept' /\ LabelsKept'
  BY <1>1, <1>2 DEF ClaimsKept, LabelsKept
<1>5. Decided'
  BY <1>1, <1>2 DEF Decided
<1>6. EnqueuedOnce'
  BY <1>1 DEF EnqueuedOnce
<1> QED
  BY <1>3, <1>4, <1>5, <1>6

\* The fields of a request that a step changes.
LEMMA AnswersCarries ==
  ASSUME QueueInv, NEW i \in Ids, NEW code \in Nat, reqs[i].txn = "none", Answers(i, code)
  PROVE  Carries(i)
<1>1. reqs[i] \in Requested /\ Ids = 1..Len(reqs)
  BY DEF QueueInv, Typed, Ids
<1> DEFINE r == [reqs[i] EXCEPT !.phase = "answered", !.answer = code, !.seen = None]
<1>2. reqs' = [reqs EXCEPT ![i] = r]
  BY DEF Answers
<1>3. /\ r \in Requested /\ r.op = reqs[i].op /\ r.who = reqs[i].who /\ r.arg = reqs[i].arg
      /\ r.txn = "none" /\ ~Acting(r)
  BY <1>1 DEF Requested, Acting
<1> HIDE DEF r
<1> QED
  BY <1>1, <1>2, <1>3 DEF Carries, QueueInv, Typed, Ids

LEMMA WriteInv ==
  ASSUME QueueInv, NEW i \in Ids, Write(i)
  PROVE  QueueInv'
<1>1. /\ reqs[i] \in Requested /\ reqs \in Seq(Requested) /\ reqs[i].phase = "read"
      /\ reqs[i].txn = "none" /\ UNCHANGED row
  BY DEF QueueInv, Typed, Fresh, Ids, Write
<1>2. CASE Answers(i, 200)
  BY <1>1, <1>2, AnswersCarries, CarriesInv
<1>3. CASE Flushes(i)
  <2> DEFINE r == [reqs[i] EXCEPT !.phase = "flushed", !.txn = "due"]
  <2>1. reqs' = [reqs EXCEPT ![i] = r]
    BY <1>3 DEF Flushes
  <2>2. /\ r \in Requested /\ r.op = reqs[i].op /\ r.who = reqs[i].who /\ r.arg = reqs[i].arg
        /\ r.txn = "due" /\ r.seen = reqs[i].seen /\ r.phase = "flushed"
    BY <1>1 DEF Requested
  <2> HIDE DEF r
  <2>3. Carries(i)
    BY <1>1, <2>1, <2>2 DEF Carries, Ids, Acting
  <2> QED
    BY <1>1, <2>3, CarriesInv
<1> QED
  BY <1>2, <1>3 DEF Write

LEMMA RespondInv ==
  ASSUME QueueInv, NEW i \in Ids, Respond(i), UNCHANGED row
  PROVE  QueueInv'
<1>1. reqs[i] \in Requested /\ reqs \in Seq(Requested)
  BY DEF QueueInv, Typed, Ids
<1> DEFINE r == [reqs[i] EXCEPT !.phase = "answered", !.answer = 200]
<1>2. reqs[i].phase = "flushed" /\ reqs' = [reqs EXCEPT ![i] = r]
  BY DEF Respond
<1>3. /\ r \in Requested /\ r.op = reqs[i].op /\ r.who = reqs[i].who /\ r.arg = reqs[i].arg
      /\ r.txn = reqs[i].txn /\ r.seen = reqs[i].seen /\ r.phase = "answered"
  BY <1>1 DEF Requested
<1> HIDE DEF r
<1>4. Carries(i)
  BY <1>1, <1>2, <1>3 DEF Carries, Ids, Acting
<1> QED
  BY <1>4, CarriesInv

LEMMA CrashedIsRequested ==
  ASSUME NEW q \in Requested
  PROVE  LET r == [q EXCEPT !.phase = "told", !.answer = 500, !.txn = "lost", !.seen = None] IN
         /\ r \in Requested /\ r.op = q.op /\ r.who = q.who /\ r.arg = q.arg
         /\ r.txn = "lost" /\ r.phase = "told"
<1> DEFINE p == [q EXCEPT !.phase = "told"]
           a == [p EXCEPT !.answer = 500]
           r == [a EXCEPT !.txn = "lost", !.seen = None]
<1>1. p \in Requested /\ p.op = q.op /\ p.who = q.who /\ p.arg = q.arg /\ p.phase = "told"
  BY DEF Requested
<1>2. [q EXCEPT !.phase = "told", !.answer = 500, !.txn = "lost", !.seen = None] = r
  OBVIOUS
<1> HIDE DEF p
<1>3. a \in Requested /\ a.op = p.op /\ a.who = p.who /\ a.arg = p.arg /\ a.phase = p.phase
  BY <1>1 DEF Requested
<1> HIDE DEF a
<1>4. /\ r \in Requested /\ r.op = a.op /\ r.who = a.who /\ r.arg = a.arg
      /\ r.txn = "lost" /\ r.phase = a.phase
  BY <1>3 DEF Requested
<1> HIDE DEF r
<1> QED
  BY <1>1, <1>2, <1>3, <1>4

LEMMA RollbackInv ==
  ASSUME QueueInv, NEW i \in Ids, Rollback(i), UNCHANGED row
  PROVE  QueueInv'
<1>1. reqs[i] \in Requested /\ reqs \in Seq(Requested) /\ reqs[i].txn = "due"
  BY DEF QueueInv, Typed, Ids, Rollback, Commits
<1>2. \A r \in Requested :
        reqs' = [reqs EXCEPT ![i] = r] /\ r.op = reqs[i].op /\ r.who = reqs[i].who
        /\ r.arg = reqs[i].arg /\ r.txn = "lost" /\ r.phase = "told" => Carries(i)
  BY <1>1 DEF Carries, Ids, Acting
<1>3. CASE reqs[i].phase = "flushed"
  <2> DEFINE r == [reqs[i] EXCEPT !.phase = "told", !.answer = 500, !.txn = "lost", !.seen = None]
  <2>1. reqs' = [reqs EXCEPT ![i] = r]
    BY <1>1, <1>3 DEF Rollback, Crashes, Ids
  <2>2. /\ r \in Requested /\ r.op = reqs[i].op /\ r.who = reqs[i].who /\ r.arg = reqs[i].arg
        /\ r.txn = "lost" /\ r.phase = "told"
    BY <1>1, CrashedIsRequested
  <2> HIDE DEF r
  <2> QED
    BY <1>2, <2>1, <2>2, CarriesInv
<1>4. CASE reqs[i].phase = "told"
  <2> DEFINE r == [reqs[i] EXCEPT !.txn = "lost", !.seen = None]
  <2>1. reqs' = [reqs EXCEPT ![i] = r]
    BY <1>1, <1>4 DEF Rollback, Ids
  <2>2. /\ r \in Requested /\ r.op = reqs[i].op /\ r.who = reqs[i].who /\ r.arg = reqs[i].arg
        /\ r.txn = "lost" /\ r.phase = "told"
    BY <1>1, <1>4 DEF Requested
  <2> HIDE DEF r
  <2> QED
    BY <1>2, <2>1, <2>2, CarriesInv
<1> QED
  BY <1>3, <1>4 DEF Rollback, Commits

LEMMA AuditInv ==
  ASSUME QueueInv, NEW i \in Ids, Audit(i), UNCHANGED row
  PROVE  QueueInv'
<1>1. reqs[i] \in Requested /\ reqs \in Seq(Requested)
  BY DEF QueueInv, Typed, Ids
<1>2. \A r \in Requested :
        reqs' = [reqs EXCEPT ![i] = r] /\ r.op = reqs[i].op /\ r.who = reqs[i].who
        /\ r.arg = reqs[i].arg /\ r.txn = reqs[i].txn /\ r.seen = reqs[i].seen
        /\ r.phase \notin {"received", "read"} => Carries(i)
  BY <1>1 DEF Carries, Ids, Acting
<1>3. ASSUME NEW phase \in {"linked", "stamped", "told"}, Moves(i, phase)
      PROVE  QueueInv'
  <2> DEFINE r == [reqs[i] EXCEPT !.phase = phase]
  <2>1. reqs' = [reqs EXCEPT ![i] = r]
    BY <1>3 DEF Moves
  <2>2. /\ r \in Requested /\ r.op = reqs[i].op /\ r.who = reqs[i].who /\ r.arg = reqs[i].arg
        /\ r.txn = reqs[i].txn /\ r.seen = reqs[i].seen /\ r.phase = phase
    BY <1>1 DEF Requested
  <2> HIDE DEF r
  <2> QED
    BY <1>2, <2>1, <2>2, CarriesInv
<1>4. CASE Skip(i)
  <2> DEFINE r == [reqs[i] EXCEPT !.phase = "told"]
  <2>1. reqs' = [reqs EXCEPT ![i] = r]
    BY <1>4 DEF Skip
  <2>2. /\ r \in Requested /\ r.op = reqs[i].op /\ r.who = reqs[i].who /\ r.arg = reqs[i].arg
        /\ r.txn = reqs[i].txn /\ r.seen = reqs[i].seen /\ r.phase = "told"
    BY <1>1 DEF Requested
  <2> HIDE DEF r
  <2> QED
    BY <1>2, <2>1, <2>2, CarriesInv
<1> QED
  BY <1>3, <1>4 DEF Audit, Link, Stamp, Publish

\* A handler that goes on has found its item in a state that admits the request.
LEMMA ReadAdmits ==
  ASSUME QueueInv, NEW i \in Ids, reqs[i].txn = "none", Refusal(reqs[i], row[reqs[i].arg]) = 0
  PROVE  LET item == row[reqs[i].arg] IN
         /\ item \in Rows /\ item.status # "labelled"
         /\ reqs[i].op = "label" => ClaimedBy(reqs[i].who, reqs[i].arg)
         /\ reqs[i].op # "enqueue" => item.status # "missing"
<1> DEFINE item == row[reqs[i].arg]
<1>1. reqs[i] \in Requested
  BY DEF QueueInv, Typed, Ids
<1>2. reqs[i].who \in Principals /\ reqs[i].arg \in Items /\ reqs[i].op \in Ops
  BY <1>1 DEF Requested
<1>7. item \in Rows
  BY <1>2 DEF QueueInv, Typed
<1>3. CASE reqs[i].op = "claim"
  BY <1>7, <1>3 DEF Refusal, RefuseClaim
<1>4. CASE reqs[i].op = "label"
  <2>1. item.status = "claimed" /\ item.annotator = reqs[i].who
    BY <1>4 DEF Refusal, RefuseLabel
  <2> QED
    BY <1>7, <1>2, <1>4, <2>1 DEF QueueInv, ClaimsKept
<1>5. CASE reqs[i].op = "discard"
  <2>1. item.status # "labelled" /\ item.tenant = TenantOf[reqs[i].who]
    BY <1>5 DEF Refusal, RefuseDiscard, Foreign
  <2>2. item # Missing
    BY <1>2, <2>1, ClubOf DEF Missing
  <2> QED
    BY <1>7, <1>2, <1>5, <2>1, <2>2 DEF QueueInv, Blank
<1>6. CASE reqs[i].op = "enqueue"
  BY <1>7, <1>6 DEF QueueInv, EnqueuedOnce, Missing
<1> QED
  BY <1>2, <1>3, <1>4, <1>5, <1>6 DEF Ops

LEMMA ReadInv ==
  ASSUME QueueInv, NEW i \in Ids, Read(i)
  PROVE  QueueInv'
<1> DEFINE item == row[reqs[i].arg]
           code == Refusal(reqs[i], item)
<1>1. /\ reqs[i] \in Requested /\ reqs \in Seq(Requested) /\ reqs[i].phase = "received"
      /\ reqs[i].txn = "none" /\ UNCHANGED row
  BY DEF QueueInv, Typed, Fresh, Ids, Read
<1>2. CASE code # 0
  <2>1. Answers(i, code) /\ code \in Nat
    BY <1>2 DEF Read, Refusal, RefuseClaim, RefuseLabel, RefuseDiscard
  <2> QED
    BY <1>1, <2>1, AnswersCarries, CarriesInv
<1>3. CASE code = 0
  <2> DEFINE r == [reqs[i] EXCEPT !.phase = "read", !.seen = item]
  <2>1. reqs' = [reqs EXCEPT ![i] = r]
    BY <1>1, <1>3 DEF Read, Reads, Ids
  <2>2. /\ item \in Rows /\ item.status # "labelled"
        /\ reqs[i].op = "label" => ClaimedBy(reqs[i].who, reqs[i].arg)
        /\ reqs[i].op # "enqueue" => item.status # "missing"
    BY <1>1, <1>3, ReadAdmits
  <2>3. /\ r \in Requested /\ r.op = reqs[i].op /\ r.who = reqs[i].who /\ r.arg = reqs[i].arg
        /\ r.txn = "none" /\ r.seen = item
    BY <1>1, <2>2 DEF Requested
  <2> HIDE DEF r, item
  <2>4. /\ Ids' = Ids /\ reqs' \in Seq(Requested) /\ reqs'[i] = r
        /\ \A j \in Ids \ {i} : reqs'[j] = reqs[j]
    BY <1>1, <2>1, <2>3 DEF Ids
  <2>5. \A w, k : ClaimedBy(w, k)' <=> ClaimedBy(w, k)
    BY <1>1, <2>3, <2>4 DEF ClaimedBy
  <2>6. Typed' /\ Fresh' /\ Blank' /\ ClaimsKept' /\ LabelsKept'
    BY <1>1, <2>3, <2>4, <2>5 DEF QueueInv, Typed, Fresh, Blank, ClaimsKept, LabelsKept
  <2>7. Decided'
    BY <1>1, <2>2, <2>3, <2>4, <2>5 DEF QueueInv, Decided, Acting, item
  <2>8. EnqueuedOnce'
    BY <1>1, <2>3, <2>4 DEF QueueInv, EnqueuedOnce
  <2> QED
    BY <2>6, <2>7, <2>8 DEF QueueInv
<1> QED
  BY <1>2, <1>3

LEMMA RequestInv ==
  ASSUME QueueInv, NEW op \in Ops, NEW who \in Principals, NEW k \in Items, Request(op, who, k)
  PROVE  QueueInv'
<1> DEFINE r == Asked(op, who, k)
<1>1. r \in Requested /\ r.op = op /\ r.arg = k /\ r.txn = "none" /\ ~Acting(r)
  BY DEF Asked, Requested, Acting
<1>2. reqs' = Append(reqs, r) /\ UNCHANGED row /\ reqs \in Seq(Requested)
  BY DEF Request, Arrive, QueueInv, Typed
<1>3. op = "enqueue" => row[k] = Missing /\ \A j \in Ids : reqs[j].arg # k
  BY DEF Request
<1> HIDE DEF r
<1> DEFINE n == Len(reqs) + 1
<1>4. /\ reqs' \in Seq(Requested) /\ Ids' = Ids \cup {n} /\ n \notin Ids /\ reqs'[n] = r
      /\ \A j \in Ids : reqs'[j] = reqs[j]
  BY <1>1, <1>2 DEF Ids
<1> HIDE DEF n
<1>5. \A w, l : ClaimedBy(w, l)' <=> ClaimedBy(w, l)
  BY <1>1, <1>4 DEF ClaimedBy
<1>6. Typed' /\ Fresh' /\ Blank' /\ ClaimsKept' /\ LabelsKept'
  BY <1>1, <1>2, <1>4, <1>5 DEF QueueInv, Typed, Fresh, Blank, ClaimsKept, LabelsKept
<1>7. Decided'
  BY <1>1, <1>2, <1>4, <1>5 DEF QueueInv, Decided
<1>8. EnqueuedOnce'
  <2>1. \A i \in Ids : reqs[i].op = "enqueue" /\ r.op = "enqueue" => reqs[i].arg # r.arg
    BY <1>1, <1>3
  <2>2. r.op = "enqueue" => row[r.arg] = Missing
    BY <1>1, <1>3
  <2> SUFFICES ASSUME NEW i \in Ids', reqs'[i].op = "enqueue"
               PROVE  /\ reqs'[i].txn \in {"none", "due"} => row[reqs'[i].arg] = Missing
                      /\ \A j \in Ids' : reqs'[j].op = "enqueue" /\ reqs'[j].arg = reqs'[i].arg => j = i
    BY <1>2 DEF EnqueuedOnce
  <2>3. CASE i \in Ids
    BY <1>4, <2>1, <2>3 DEF QueueInv, EnqueuedOnce
  <2>4. CASE i = n
    BY <1>4, <2>1, <2>2, <2>4
  <2> QED
    BY <1>4, <2>3, <2>4
<1> QED
  BY <1>6, <1>7, <1>8 DEF QueueInv

\* What a commit makes of the row of its item.
LEMMA WrittenRow ==
  ASSUME QueueInv, NEW i \in Ids, reqs[i].txn = "due"
  PROVE  LET old == row[reqs[i].arg]
             new == Written(i, old)
         IN  /\ old \in Rows /\ new \in Rows /\ new.status # "missing"
             /\ new.status = "claimed" => reqs[i].op = "claim" /\ new.annotator = reqs[i].who
             /\ new.labels \subseteq old.labels \cup {i}
             /\ i \in new.labels => reqs[i].op = "label" \/ i \in old.labels
<1> DEFINE old == row[reqs[i].arg]
           new == Written(i, old)
<1>1. reqs[i] \in Requested
  BY DEF QueueInv, Typed, Ids
<1>2. reqs[i].who \in Principals /\ reqs[i].arg \in Items /\ reqs[i].op \in Ops
  BY <1>1 DEF Requested
<1>3. old \in Rows
  BY <1>2 DEF QueueInv, Typed
<1>4. i \in Nat
  BY DEF QueueInv, Typed, Ids
<1> HIDE DEF old
<1>5. CASE reqs[i].op = "enqueue"
  <2>1. new = Pending(TenantOf[reqs[i].who])
    BY <1>5 DEF Written
  <2> QED
    BY <1>2, <1>3, <2>1, ClubOf, PendingIsRow DEF old
<1>6. CASE reqs[i].op = "claim"
  <2>1. new = Claimed(reqs[i], old)
    BY <1>6 DEF Written
  <2> HIDE DEF new
  <2>2. /\ new \in Rows /\ new.status = "claimed" /\ new.annotator = reqs[i].who
        /\ new.labels = old.labels
    BY <1>2, <1>3, <2>1 DEF Claimed, Rows
  <2> QED
    BY <1>3, <1>6, <2>2 DEF old, new
<1>7. CASE reqs[i].op = "label"
  <2>1. new = Labelled(i, old)
    BY <1>7 DEF Written
  <2> HIDE DEF new
  <2>2. new \in Rows /\ new.status = "labelled" /\ new.labels = {i}
    BY <1>3, <1>4, <2>1 DEF Labelled, Rows
  <2> QED
    BY <1>3, <1>7, <2>2 DEF old, new
<1>8. CASE reqs[i].op = "discard"
  <2>1. new = Discarded(old)
    BY <1>8 DEF Written
  <2> HIDE DEF new
  <2>2. new \in Rows /\ new.status = "discarded" /\ new.labels = old.labels
    BY <1>3, <2>1 DEF Discarded, Rows
  <2> QED
    BY <1>3, <2>2 DEF old, new
<1> QED
  BY <1>2, <1>5, <1>6, <1>7, <1>8 DEF Ops

LEMMA CommitInv ==
  ASSUME QueueInv, NEW i \in Ids, Commit(i)
  PROVE  QueueInv'
<1> DEFINE a == reqs[i].arg
           new == Written(i, row[a])
<1>1. reqs[i] \in Requested /\ reqs \in Seq(Requested) /\ reqs[i].txn = "due"
  BY DEF QueueInv, Typed, Ids, Commit, Commits
<1>2. /\ Ids' = Ids /\ reqs' \in Seq(Requested)
      /\ \A j \in Ids \ {i} : reqs'[j] = reqs[j]
      /\ reqs'[i].op = reqs[i].op /\ reqs'[i].who = reqs[i].who /\ reqs'[i].arg = a
      /\ reqs'[i].txn = "done" /\ reqs'[i].phase \in {"answered", "told"}
  <2> DEFINE phase == IF reqs[i].phase = "flushed" THEN "answered" ELSE reqs[i].phase
             answer == IF reqs[i].phase = "flushed" THEN 200 ELSE reqs[i].answer
             r == [reqs[i] EXCEPT !.txn = "done", !.seen = None, !.phase = phase, !.answer = answer]
  <2>1. reqs' = [reqs EXCEPT ![i] = r]
    BY <1>1 DEF Commit, Committed, Ids
  <2>2. phase \in {"answered", "told"} /\ answer \in Nat
    BY <1>1 DEF Commit, Commits, Requested
  <2> HIDE DEF phase, answer
  <2>3. /\ r \in Requested /\ r.op = reqs[i].op /\ r.who = reqs[i].who /\ r.arg = a
        /\ r.txn = "done" /\ r.phase = phase
    BY <1>1, <2>2 DEF Requested
  <2> HIDE DEF r
  <2> QED
    BY <1>1, <2>1, <2>2, <2>3 DEF Ids
<1>3. /\ a \in Items /\ row[a] \in Rows /\ new \in Rows /\ new.status # "missing"
      /\ new.status = "claimed" => reqs[i].op = "claim" /\ new.annotator = reqs[i].who
      /\ new.labels \subseteq row[a].labels \cup {i}
      /\ i \in new.labels => reqs[i].op = "label" \/ i \in row[a].labels
  BY <1>1, WrittenRow DEF Requested
<1>4. row \in [Items -> Rows] /\ row' = [row EXCEPT ![a] = new]
  BY DEF QueueInv, Typed, Commit
<1> HIDE DEF a, new
<1>5. \A w, k : ClaimedBy(w, k) => ClaimedBy(w, k)'
  BY <1>1, <1>2 DEF ClaimedBy, a
<1>6. Typed' /\ Fresh' /\ Blank'
  BY <1>2, <1>3, <1>4 DEF QueueInv, Typed, Fresh, Blank
<1>7. ClaimsKept'
  <2>1. \A w, k : reqs[i].op = "claim" /\ w = reqs[i].who /\ k = a => ClaimedBy(w, k)'
    BY <1>2 DEF ClaimedBy
  <2> QED
    BY <1>3, <1>4, <1>5, <2>1 DEF QueueInv, ClaimsKept
<1>8. LabelsKept'
  <2>1. reqs[i].op = "label" => ClaimedBy(reqs[i].who, a)
    BY <1>1 DEF QueueInv, Decided, Acting, a
  <2>2. \A j \in Ids : reqs'[j].who = reqs[j].who
    BY <1>2
  <2> QED
    BY <1>2, <1>3, <1>4, <1>5, <2>1, <2>2 DEF QueueInv, LabelsKept
<1>9. Decided'
  <2>1. \A j \in Ids : Acting(reqs'[j]) => j # i
    BY <1>2 DEF Acting
  <2>2. \A j \in Ids : reqs[j] \in Requested /\ reqs[j].arg \in Items
    <3>1. \A j \in Ids : reqs[j] \in Requested
      BY DEF QueueInv, Typed, Ids
    <3> QED
      BY <3>1 DEF Requested
  <2> QED
    BY <1>2, <1>3, <1>4, <1>5, <2>1, <2>2 DEF QueueInv, Decided
<1>10. EnqueuedOnce'
  <2>1. \A j \in Ids : reqs'[j].op = reqs[j].op /\ reqs'[j].arg = reqs[j].arg
    BY <1>2 DEF a
  <2>2. ASSUME NEW j \in Ids \ {i}, reqs[j].op = "enqueue", reqs[j].txn \in {"none", "due"}
        PROVE  reqs[j].arg # a
    <3>1. CASE reqs[i].op = "enqueue"
      BY <2>2, <3>1 DEF QueueInv, EnqueuedOnce, a
    <3>2. CASE reqs[i].op # "enqueue"
      <4>1. row[a].status # "missing"
        BY <1>1, <3>2 DEF QueueInv, Decided, Acting, a
      <4> QED
        BY <2>2, <4>1 DEF QueueInv, EnqueuedOnce, Missing
    <3> QED
      BY <3>1, <3>2
  <2> QED
    BY <1>2, <1>4, <2>1, <2>2 DEF QueueInv, EnqueuedOnce
<1> QED
  BY <1>6, <1>7, <1>8, <1>9, <1>10 DEF QueueInv

LEMMA NextInv ==
  ASSUME QueueInv, [Next]_vars
  PROVE  QueueInv'
<1>1. CASE UNCHANGED vars
  BY <1>1 DEF vars, QueueInv, Typed, Fresh, ClaimsKept, LabelsKept, Blank, Decided, EnqueuedOnce,
              Ids, ClaimedBy
<1>2. CASE Next
  BY <1>2, RequestInv, ReadInv, WriteInv, CommitInv, AuditInv, RespondInv, RollbackInv DEF Next
<1> QED
  BY <1>1, <1>2

(* Whatever a request goes on with has been decided on a row it may act on, *)
(* for any number of principals, items, requests and failures              *)
(* (claim_item, label_item, discard_item).                                 *)
THEOREM QueueInvariant == Spec => []QueueInv
  BY InitInv, NextInv, PTL DEF Spec

(* Labels are by a coach whose own claim of the item was committed          *)
(* (label_item), whatever overlaps with it.                                *)
THEOREM LabelsAreByClaimants == Spec => []LabelledByClaimant
<1>1. QueueInv => LabelledByClaimant
  BY DEF QueueInv, LabelsKept, LabelledByClaimant, ClaimedBy
<1> QED
  BY <1>1, QueueInvariant, PTL

(* Only the commit of a request that had read the item before it was       *)
(* labelled replaces a label (discard_item, claim_item).                   *)
THEOREM OnlyStaleReplaces == Spec => LabelledLeftByStale
<1> DEFINE Step ==
      \A k \in Items : row[k].status = "labelled" /\ row'[k].status # "labelled" =>
        \E i \in Ids : /\ reqs[i].txn = "due" /\ reqs'[i].txn = "done"
                       /\ reqs[i].seen.status # "labelled"
<1>1. ASSUME QueueInv, Next
      PROVE  Step
  <2>1. ASSUME NEW i \in Ids, Commit(i)
        PROVE  Step
    <3>1. reqs[i].txn = "due" /\ reqs[i].seen.status # "labelled"
      BY <1>1, <2>1 DEF Commit, Commits, QueueInv, Decided, Acting
    <3>2. reqs'[i].txn = "done"
      BY <1>1, <2>1 DEF Commit, Committed, QueueInv, Typed, Requested, Ids
    <3> QED
      BY <2>1, <3>1, <3>2
  <2>2. CASE UNCHANGED row
    BY <2>2
  <2> QED
    BY <1>1, <2>1, <2>2 DEF Next, Request, Read, Write
<1>2. QueueInv /\ [Next]_vars => [Step]_vars
  BY <1>1
<1> QED
  BY <1>2, QueueInvariant, PTL DEF Spec, LabelledLeftByStale

-----------------------------------------------------------------------------
(* The audit trail of these requests (AuditChain). *)

Appends == [prev : Nat, ts : Nat, raced : BOOLEAN, back : BOOLEAN]
Events == [req : Nat, tenant : Clubs, success : BOOLEAN, prev : Nat, ts : Nat,
           raced : BOOLEAN, back : BOOLEAN]

TrailTyped == writer \in Seq(Appends) /\ Len(writer) = Len(reqs) /\ log \in SUBSET Events

Marked(e) == e.raced = TRUE \/ e.back = TRUE

\* Two appends to one chain at a time know that they overlap.
Alone == \A i, j \in Ids :
  i # j /\ Writing(i) /\ Writing(j) /\ Tenant(i) = Tenant(j) => writer[i].raced = TRUE

\* Nobody wrote behind the back of an append that overlaps with none ...
Linked == \A i \in Ids :
  Writing(i) /\ writer[i].raced = FALSE => writer[i].prev \in LastHash(Tenant(i))

\* ... and if the clock had advanced, the chain is older than its time.
Stamped == \A i \in Ids :
  reqs[i].phase = "stamped" /\ ~Marked(writer[i]) =>
    \A e \in log : e.tenant = Tenant(i) => e.ts < writer[i].ts

\* Of two events of one time, the later append is marked.
Ties == \A f, g \in log :
  f # g /\ f.tenant = g.tenant /\ f.ts = g.ts => Marked(f) \/ Marked(g)

TrailInv == TrailTyped /\ Alone /\ Linked /\ Stamped /\ Ties /\ BrokenByOverlapOrClock

LEMMA TrailInit ==
  ASSUME Init
  PROVE  TrailInv
<1>1. reqs = <<>> /\ Ids = {} /\ log = {} /\ writer = <<>>
  BY DEF Init, RequestsInit, AuditInit, Ids
<1> QED
  BY <1>1 DEF TrailInv, TrailTyped, Alone, Linked, Stamped, Ties, BrokenByOverlapOrClock

\* A chain that stays has the last hash and the order it had.
LEMMA SameChain ==
  ASSUME UNCHANGED log
  PROVE  /\ \A tenant : LastHash(tenant)' = LastHash(tenant)
         /\ \A e : (Broken(e)' <=> Broken(e)) /\ Neighbours(e)' = Neighbours(e)
  BY DEF LastHash, HashOfLast, Latest, Chain, Broken, Before, Neighbours, Older, Tied

\* A step that touches no event and no append that goes on.
LEMMA SteadyTrail ==
  ASSUME TrailInv, TrailTyped', UNCHANGED log,
         \A j \in Ids' : Writing(j)' =>
           /\ j \in Ids /\ Writing(j) /\ Tenant(j)' = Tenant(j) /\ writer'[j] = writer[j]
           /\ reqs'[j].phase = "stamped" => reqs[j].phase = "stamped"
  PROVE  TrailInv'
<1> USE DEF TrailInv
<1>1. Alone'
  BY DEF Alone
<1>2. Linked'
  BY SameChain DEF Linked
<1>3. Stamped'
  BY DEF Stamped, Marked, Writing
<1>4. Ties' /\ BrokenByOverlapOrClock'
  BY SameChain DEF Ties, Marked, BrokenByOverlapOrClock
<1> QED
  BY <1>1, <1>2, <1>3, <1>4

LEMMA RequestTrail ==
  ASSUME QueueInv, TrailInv, NEW op \in Ops, NEW who \in Principals, NEW k \in Items, Request(op, who, k)
  PROVE  TrailInv'
<1> DEFINE r == Asked(op, who, k)
           n == Len(reqs) + 1
<1>1. r.phase = "received" /\ r \in Requested
  BY DEF Asked, Requested
<1>2. /\ reqs' = Append(reqs, r) /\ writer' = Append(writer, Idle) /\ UNCHANGED log
      /\ reqs \in Seq(Requested) /\ writer \in Seq(Appends) /\ Len(writer) = Len(reqs)
      /\ log \in SUBSET Events
  BY DEF Request, Arrive, QueueInv, Typed, TrailInv, TrailTyped
<1> HIDE DEF r
<1>3. Idle \in Appends
  BY DEF Idle, Appends, Genesis
<1>4. /\ Ids' = Ids \cup {n} /\ n \notin Ids /\ reqs'[n] = r /\ Len(reqs') = n
      /\ writer' \in Seq(Appends) /\ Len(writer') = n
      /\ \A j \in Ids : reqs'[j] = reqs[j] /\ writer'[j] = writer[j]
  BY <1>1, <1>2, <1>3 DEF Ids
<1> HIDE DEF n
<1>5. TrailTyped'
  BY <1>2, <1>4 DEF TrailTyped
<1>6. \A j \in Ids' : Writing(j)' =>
        /\ j \in Ids /\ Writing(j) /\ Tenant(j)' = Tenant(j) /\ writer'[j] = writer[j]
        /\ reqs'[j].phase = "stamped" => reqs[j].phase = "stamped"
  BY <1>1, <1>4 DEF Writing, Tenant
<1> QED
  BY <1>2, <1>5, <1>6, SteadyTrail

\* A step of request i before its append or after it.
LEMMA QuietTrail ==
  ASSUME QueueInv, TrailInv, NEW i \in Ids, NEW r, reqs' = [reqs EXCEPT ![i] = r],
         UNCHANGED <<log, writer>>, r.phase \notin {"linked", "stamped"}
  PROVE  TrailInv'
<1>1. reqs \in Seq(Requested) /\ Ids = 1..Len(reqs) /\ Len(reqs) \in Nat
  BY DEF QueueInv, Typed, Ids
<1>2. Ids' = Ids /\ Len(reqs') = Len(reqs) /\ reqs'[i] = r /\ \A j \in Ids \ {i} : reqs'[j] = reqs[j]
  BY <1>1 DEF Ids
<1>3. TrailTyped'
  BY <1>2 DEF TrailInv, TrailTyped
<1>4. \A j \in Ids' : Writing(j)' => j \in Ids \ {i}
  BY <1>2 DEF Writing
<1> QED
  BY <1>2, <1>3, <1>4, SteadyTrail DEF Writing, Tenant

LEMMA AnswersTrail ==
  ASSUME QueueInv, TrailInv, NEW i \in Ids, NEW code, Answers(i, code), UNCHANGED <<log, writer>>
  PROVE  TrailInv'
<1> DEFINE r == [reqs[i] EXCEPT !.phase = "answered", !.answer = code, !.seen = None]
<1>1. reqs[i] \in Requested
  BY DEF QueueInv, Typed, Ids
<1>2. reqs' = [reqs EXCEPT ![i] = r] /\ r.phase = "answered"
  BY <1>1 DEF Answers, Requested
<1> QED
  BY <1>2, QuietTrail

LEMMA ReadTrail ==
  ASSUME QueueInv, TrailInv, NEW i \in Ids, Read(i)
  PROVE  TrailInv'
<1> DEFINE item == row[reqs[i].arg]
           r == [reqs[i] EXCEPT !.phase = "read", !.seen = item]
<1>1. reqs[i] \in Requested /\ UNCHANGED <<log, writer>>
  BY DEF QueueInv, Typed, Ids, Read
<1>2. CASE \E code : Answers(i, code)
  BY <1>1, <1>2, AnswersTrail
<1>3. CASE Reads(i, item)
  <2>1. reqs' = [reqs EXCEPT ![i] = r] /\ r.phase = "read"
    BY <1>1, <1>3 DEF Reads, Requested
  <2> QED
    BY <1>1, <2>1, QuietTrail
<1> QED
  BY <1>2, <1>3 DEF Read

LEMMA WriteTrail ==
  ASSUME QueueInv, TrailInv, NEW i \in Ids, Write(i)
  PROVE  TrailInv'
<1> DEFINE r == [reqs[i] EXCEPT !.phase = "flushed", !.txn = "due"]
<1>1. reqs[i] \in Requested /\ UNCHANGED <<log, writer>>
  BY DEF QueueInv, Typed, Ids, Write
<1>2. CASE Answers(i, 200)
  BY <1>1, <1>2, AnswersTrail
<1>3. CASE Flushes(i)
  <2>1. reqs' = [reqs EXCEPT ![i] = r] /\ r.phase = "flushed"
    BY <1>1, <1>3 DEF Flushes, Requested
  <2> QED
    BY <1>1, <2>1, QuietTrail
<1> QED
  BY <1>2, <1>3 DEF Write

LEMMA RespondTrail ==
  ASSUME QueueInv, TrailInv, NEW i \in Ids, Respond(i), UNCHANGED <<log, writer>>
  PROVE  TrailInv'
<1> DEFINE r == [reqs[i] EXCEPT !.phase = "answered", !.answer = 200]
<1>1. reqs[i] \in Requested
  BY DEF QueueInv, Typed, Ids
<1>2. reqs' = [reqs EXCEPT ![i] = r] /\ r.phase = "answered"
  BY <1>1 DEF Respond, Requested
<1> QED
  BY <1>2, QuietTrail

LEMMA CommitTrail ==
  ASSUME QueueInv, TrailInv, NEW i \in Ids, Commit(i)
  PROVE  TrailInv'
<1> DEFINE phase == IF reqs[i].phase = "flushed" THEN "answered" ELSE reqs[i].phase
           answer == IF reqs[i].phase = "flushed" THEN 200 ELSE reqs[i].answer
           r == [reqs[i] EXCEPT !.txn = "done", !.seen = None, !.phase = phase, !.answer = answer]
<1>1. reqs[i] \in Requested /\ reqs[i].phase \in {"flushed", "told"} /\ UNCHANGED <<log, writer>>
  BY DEF QueueInv, Typed, Ids, Commit, Commits
<1>2. reqs' = [reqs EXCEPT ![i] = r]
  BY <1>1 DEF Commit, Committed, Ids
<1>3. r.phase \in {"answered", "told"}
  BY <1>1 DEF Requested
<1> QED
  BY <1>1, <1>2, <1>3, QuietTrail

LEMMA RollbackTrail ==
  ASSUME QueueInv, TrailInv, NEW i \in Ids, Rollback(i), UNCHANGED <<log, writer>>
  PROVE  TrailInv'
<1>1. reqs[i] \in Requested /\ reqs \in Seq(Requested) /\ reqs[i].phase \in {"flushed", "told"}
  BY DEF QueueInv, Typed, Ids, Rollback, Commits
<1>2. CASE reqs[i].phase = "flushed"
  <2> DEFINE r == [reqs[i] EXCEPT !.phase = "told", !.answer = 500, !.txn = "lost", !.seen = None]
  <2>1. reqs' = [reqs EXCEPT ![i] = r]
    BY <1>1, <1>2 DEF Rollback, Crashes, Ids
  <2>2. r.phase = "told"
    BY <1>1 DEF Requested
  <2> QED
    BY <2>1, <2>2, QuietTrail
<1>3. CASE reqs[i].phase = "told"
  <2> DEFINE r == [reqs[i] EXCEPT !.txn = "lost", !.seen = None]
  <2>1. reqs' = [reqs EXCEPT ![i] = r]
    BY <1>1, <1>3 DEF Rollback, Ids
  <2>2. r.phase = "told"
    BY <1>1, <1>3 DEF Requested
  <2> QED
    BY <2>1, <2>2, QuietTrail
<1> QED
  BY <1>1, <1>2, <1>3

\* What an append finds: its request is of a principal of a club.
LEMMA AppendOf ==
  ASSUME QueueInv, TrailInv, NEW i \in Ids
  PROVE  /\ reqs[i] \in Requested /\ reqs \in Seq(Requested) /\ Ids = 1..Len(reqs) /\ Len(reqs) \in Nat
         /\ Tenant(i) \in Clubs /\ i \in Nat
         /\ writer \in Seq(Appends) /\ Len(writer) = Len(reqs) /\ writer[i] \in Appends
         /\ writer[i].prev \in Nat /\ writer[i].ts \in Nat
         /\ writer[i].raced \in BOOLEAN /\ writer[i].back \in BOOLEAN
<1>1. reqs[i] \in Requested /\ reqs \in Seq(Requested) /\ Ids = 1..Len(reqs) /\ Len(reqs) \in Nat
  BY DEF QueueInv, Typed, Ids
<1>2. Tenant(i) \in Clubs
  <2>1. reqs[i].who \in Principals
    BY <1>1 DEF Requested
  <2> QED
    BY <2>1, ClubOf DEF Tenant
<1>3. writer \in Seq(Appends) /\ Len(writer) = Len(reqs) /\ writer[i] \in Appends
  BY <1>1 DEF TrailInv, TrailTyped
<1>4. writer[i].prev \in Nat /\ writer[i].ts \in Nat /\ writer[i].raced \in BOOLEAN /\ writer[i].back \in BOOLEAN
  BY <1>3 DEF Appends
<1> QED
  BY <1>1, <1>2, <1>3, <1>4

\* A request moves on with its append.
LEMMA MovesOn ==
  ASSUME QueueInv, TrailInv, NEW i \in Ids, NEW phase,
         reqs' = [reqs EXCEPT ![i].phase = phase]
  PROVE  /\ Ids' = Ids /\ Len(reqs') = Len(reqs)
         /\ \A j \in Ids \ {i} : reqs'[j] = reqs[j]
         /\ reqs'[i].phase = phase
         /\ \A j \in Ids : Tenant(j)' = Tenant(j)
<1> DEFINE r == [reqs[i] EXCEPT !.phase = phase]
<1>1. reqs[i] \in Requested /\ reqs \in Seq(Requested) /\ Ids = 1..Len(reqs)
  BY AppendOf
<1>2. reqs' = [reqs EXCEPT ![i] = r]
  BY <1>1 DEF Ids
<1>3. r.phase = phase /\ r.who = reqs[i].who
  BY <1>1 DEF Requested
<1> HIDE DEF r
<1>4. /\ Ids' = Ids /\ Len(reqs') = Len(reqs) /\ reqs'[i] = r
      /\ \A j \in Ids \ {i} : reqs'[j] = reqs[j]
  BY <1>1, <1>2 DEF Ids
<1>5. \A j \in Ids : reqs'[j].who = reqs[j].who
  BY <1>3, <1>4
<1> QED
  BY <1>3, <1>4, <1>5 DEF Tenant

LEMMA LinkTrail ==
  ASSUME QueueInv, TrailInv, NEW i \in Ids, Link(i)
  PROVE  TrailInv'
<1> USE DEF TrailInv
<1>1. /\ Ids' = Ids /\ Len(reqs') = Len(reqs) /\ \A j \in Ids \ {i} : reqs'[j] = reqs[j]
      /\ reqs'[i].phase = "linked" /\ reqs[i].phase = "answered"
      /\ \A j \in Ids : Tenant(j)' = Tenant(j)
      /\ log' = log
  BY MovesOn DEF Link, Moves
<1>2. PICK prev \in LastHash(Tenant(i)) :
        writer' = [j \in Ids |->
          IF j = i THEN [Idle EXCEPT !.prev = prev, !.raced = Beside(i) # {}]
          ELSE IF j \in Beside(i) THEN [writer[j] EXCEPT !.raced = TRUE] ELSE writer[j]]
  BY Zenon DEF Link
<1>3. prev \in Nat
  BY DEF LastHash, HashOfLast, Latest, Chain, Genesis, TrailTyped, Events
<1> DEFINE own == [Idle EXCEPT !.prev = prev, !.raced = Beside(i) # {}]
<1>4. own \in Appends /\ own.prev = prev /\ (Beside(i) # {} => own.raced = TRUE)
  BY <1>3 DEF Appends, Idle, Genesis
<1> HIDE DEF own
<1>5. \A j \in Ids : writer[j] \in Appends
  BY AppendOf
<1>6. \A j \in Ids \ {i} : j \in Beside(i) =>
        /\ writer'[j] \in Appends /\ writer'[j].raced = TRUE
        /\ writer'[j].ts = writer[j].ts /\ writer'[j].prev = writer[j].prev
  BY <1>2, <1>5 DEF Appends
<1>7. \A j \in Ids \ {i} : j \notin Beside(i) => writer'[j] = writer[j]
  BY <1>2
<1>8. writer'[i] = own
  BY <1>2 DEF own
<1>9. \A j \in Ids \ {i} : (Writing(j)' <=> Writing(j)) /\ (Writing(j) /\ Tenant(j) = Tenant(i) <=> j \in Beside(i))
  BY <1>1 DEF Writing, Beside
<1>10. TrailTyped'
  <2>1. writer' \in [1..Len(reqs) -> Appends] /\ Len(reqs) \in Nat
    BY <1>2, <1>4, <1>5, <1>6, <1>7, <1>8, AppendOf
  <2>2. writer' \in Seq(Appends) /\ Len(writer') = Len(reqs)
    BY <2>1
  <2> QED
    BY <1>1, <2>2 DEF TrailTyped
<1>11. Alone'
  <2>1. SUFFICES ASSUME NEW j \in Ids, NEW l \in Ids, j # l, Writing(j)', Writing(l)', Tenant(j)' = Tenant(l)'
                 PROVE  writer'[j].raced = TRUE
    BY <1>1 DEF Alone
  <2> Tenant(j) = Tenant(l)
    BY <1>1, <2>1
  <2>2. CASE j = i
    BY <1>4, <1>8, <1>9, <2>1, <2>2
  <2>3. CASE l = i
    BY <1>6, <1>9, <2>1, <2>3
  <2>4. CASE j # i /\ l # i
    <3>1. writer[j].raced = TRUE
      BY <1>9, <2>1, <2>4 DEF Alone
    <3> QED
      BY <1>6, <1>7, <2>4, <3>1
  <2> QED
    BY <2>2, <2>3, <2>4
<1>12. Linked'
  <2>1. SUFFICES ASSUME NEW j \in Ids, Writing(j)', writer'[j].raced = FALSE
                 PROVE  writer'[j].prev \in LastHash(Tenant(j))
    BY <1>1, SameChain DEF Linked
  <2>2. CASE j = i
    BY <1>4, <1>8, <2>2
  <2>3. CASE j # i
    <3>1. writer'[j] = writer[j] /\ Writing(j)
      BY <1>6, <1>7, <1>9, <2>1, <2>3
    <3> QED
      BY <2>1, <3>1 DEF Linked
  <2> QED
    BY <2>2, <2>3
<1>13. Stamped'
  <2>1. SUFFICES ASSUME NEW j \in Ids, reqs'[j].phase = "stamped", ~Marked(writer'[j])
                 PROVE  \A e \in log : e.tenant = Tenant(j) => e.ts < writer'[j].ts
    BY <1>1 DEF Stamped, Marked
  <2>2. j # i /\ reqs[j].phase = "stamped" /\ writer'[j] = writer[j]
    BY <1>1, <1>6, <1>7, <2>1 DEF Marked
  <2> QED
    BY <2>1, <2>2 DEF Stamped
<1>14. Ties' /\ BrokenByOverlapOrClock'
  BY <1>1, SameChain DEF Ties, Marked, BrokenByOverlapOrClock
<1> QED
  BY <1>10, <1>11, <1>12, <1>13, <1>14

LEMMA StampTrail ==
  ASSUME QueueInv, TrailInv, NEW i \in Ids, Stamp(i)
  PROVE  TrailInv'
<1> USE DEF TrailInv
<1>1. /\ Ids' = Ids /\ Len(reqs') = Len(reqs) /\ \A j \in Ids \ {i} : reqs'[j] = reqs[j]
      /\ reqs'[i].phase = "stamped" /\ reqs[i].phase = "linked"
      /\ \A j \in Ids : Tenant(j)' = Tenant(j)
      /\ log' = log
  BY MovesOn DEF Stamp, Moves
<1>2. PICK t \in Times : writer' = [writer EXCEPT ![i].ts = t,
                                      ![i].back = \E e \in Chain(Tenant(i)) : t <= e.ts]
  BY DEF Stamp
<1> DEFINE back == \E e \in Chain(Tenant(i)) : t <= e.ts
           own == [writer[i] EXCEPT !.ts = t, !.back = back]
<1>3. t \in Nat /\ back \in BOOLEAN
  BY AuditAssumption
<1>4. ~back => \A e \in log : e.tenant = Tenant(i) => e.ts < t
  <2>1. \A e \in log : e.ts \in Nat
    BY DEF TrailTyped, Events
  <2> QED
    BY <1>3, <2>1 DEF Chain
<1> HIDE DEF back
<1>5. own \in Appends /\ own.prev = writer[i].prev /\ own.ts = t /\ own.raced = writer[i].raced /\ own.back = back
  BY <1>3, AppendOf DEF Appends
<1>6. writer' = [writer EXCEPT ![i] = own] /\ writer \in Seq(Appends) /\ i \in 1..Len(writer)
  BY <1>2, AppendOf DEF Ids, back
<1> HIDE DEF own
<1>7. /\ writer' \in Seq(Appends) /\ Len(writer') = Len(writer) /\ writer'[i] = own
      /\ \A j \in Ids \ {i} : writer'[j] = writer[j]
  BY <1>5, <1>6, AppendOf
<1>8. \A j \in Ids : (Writing(j)' <=> Writing(j)) /\ writer'[j].raced = writer[j].raced /\ writer'[j].prev = writer[j].prev
  BY <1>1, <1>5, <1>7 DEF Writing
<1>9. TrailTyped'
  BY <1>1, <1>7 DEF TrailTyped
<1>10. Alone'
  BY <1>1, <1>8 DEF Alone
<1>11. Linked'
  BY <1>1, <1>8, SameChain DEF Linked
<1>12. Stamped'
  <2>1. ~Marked(writer'[i]) => \A e \in log : e.tenant = Tenant(i) => e.ts < writer'[i].ts
    BY <1>3, <1>4, <1>5, <1>7 DEF Marked
  <2>2. \A j \in Ids \ {i} : reqs'[j].phase = "stamped" /\ ~Marked(writer'[j]) =>
          \A e \in log : e.tenant = Tenant(j) => e.ts < writer'[j].ts
    BY <1>1, <1>7 DEF Stamped
  <2> QED
    BY <1>1, <2>1, <2>2 DEF Stamped, Marked
<1>13. Ties' /\ BrokenByOverlapOrClock'
  BY <1>1, SameChain DEF Ties, Marked, BrokenByOverlapOrClock
<1> QED
  BY <1>9, <1>10, <1>11, <1>12, <1>13

\* The append of request i is over, and those of the others stay as they are.
LEMMA OverWriter ==
  ASSUME QueueInv, TrailInv, NEW i \in Ids, writer' = [writer EXCEPT ![i] = Idle]
  PROVE  /\ writer' \in Seq(Appends) /\ Len(writer') = Len(writer)
         /\ \A j \in Ids \ {i} : writer'[j] = writer[j]
<1>1. Idle \in Appends
  BY DEF Idle, Appends, Genesis
<1> QED
  BY <1>1, AppendOf

LEMMA SkipTrail ==
  ASSUME QueueInv, TrailInv, NEW i \in Ids, Skip(i)
  PROVE  TrailInv'
<1>1. /\ Ids' = Ids /\ Len(reqs') = Len(reqs) /\ \A j \in Ids \ {i} : reqs'[j] = reqs[j]
      /\ reqs'[i].phase = "told" /\ \A j \in Ids : Tenant(j)' = Tenant(j)
      /\ log' = log
  BY MovesOn DEF Skip
<1>2. /\ writer' \in Seq(Appends) /\ Len(writer') = Len(writer)
      /\ \A j \in Ids \ {i} : writer'[j] = writer[j]
  BY OverWriter DEF Skip
<1>3. TrailTyped'
  BY <1>1, <1>2 DEF TrailInv, TrailTyped
<1> QED
  BY <1>1, <1>2, <1>3, SteadyTrail DEF Writing

\* An event in the next log: what is older than it, and what has its time.
OlderThan(events, e) == {f \in events : f.tenant = e.tenant /\ f.ts < e.ts}
WithTimeOf(events, e) == {f \in events \ {e} : f.tenant = e.tenant /\ f.ts = e.ts}

\* An event that is later than the chain is broken only where the chain has
\* two last events.
LEMMA NewIsLinked ==
  ASSUME TrailTyped, Ties, NEW e, log' = log \cup {e}, Broken(e)',
         \A g \in log : g.tenant = e.tenant => g.ts < e.ts,
         e.ts \in Nat, e.prev \in LastHash(e.tenant),
         \A f \in Neighbours(e)' \cup {e} : ~Marked(f)
  PROVE  FALSE
<1>1. Older(e)' = Chain(e.tenant) /\ Tied(e)' = {}
  BY DEF Older, Tied, Chain
<1>2. PICK prev \in HashOfLast(Chain(e.tenant)) : prev # e.prev
  BY <1>1 DEF Broken, Before, HashOfLast, Latest
<1>3. PICK f \in Latest(Chain(e.tenant)), g \in Latest(Chain(e.tenant)) : f.req = prev /\ g.req = e.prev
  BY <1>2 DEF LastHash, HashOfLast
<1>4. f \in log /\ g \in log /\ f # g /\ f.tenant = g.tenant /\ f.ts = g.ts
  <2>1. f.ts <= g.ts /\ g.ts <= f.ts /\ f.ts \in Nat /\ g.ts \in Nat
    BY <1>3 DEF Latest, Chain, TrailTyped, Events
  <2> QED
    BY <1>2, <1>3, <2>1 DEF Latest, Chain
<1>5. f \in Neighbours(e)' /\ g \in Neighbours(e)'
  BY <1>1, <1>3 DEF Neighbours, Latest
<1> QED
  BY <1>4, <1>5 DEF Ties

\* An event stays as it is when the new one is not beside it.
LEMMA OldIsKept ==
  ASSUME TrailTyped, NEW e, log' = log \cup {e}, NEW g \in log, g # e, e.ts \in Nat,
         Broken(g)', e \notin Neighbours(g)'
  PROVE  Broken(g) /\ Neighbours(g) = Neighbours(g)'
<1>1. Tied(g)' = Tied(g)
  BY DEF Tied, Chain, Neighbours
<1>2. g.ts \in Nat /\ \A f \in log : f.ts \in Nat
  BY DEF TrailTyped, Events
<1>3. CASE e \notin Older(g)'
  <2>1. Older(g)' = Older(g)
    BY <1>3 DEF Older, Chain
  <2> QED
    BY <1>1, <2>1 DEF Neighbours, Broken, Before, HashOfLast, Latest
<1>4. CASE e \in Older(g)'
  <2>1. PICK f \in Older(g)' : ~(f.ts <= e.ts)
    BY <1>4 DEF Neighbours, Latest
  <2>2. f \in Older(g) /\ e.ts < f.ts
    <3>1. f.ts # e.ts \/ f # e
      BY <2>1
    <3> QED
      BY <1>2, <2>1 DEF Older, Chain
  <2>3. Older(g)' = Older(g) \cup {e}
    BY <1>4 DEF Older, Chain
  <2>4. Latest(Older(g))' = Latest(Older(g))
    <3>1. \A h \in Older(g) : h.ts \in Nat
      BY <1>2 DEF Older, Chain
    <3>2. \A h \in Older(g) : f.ts <= h.ts => e.ts <= h.ts
      BY <2>2, <3>1
    <3> QED
      BY <2>2, <2>3, <3>1, <3>2 DEF Latest
  <2>5. HashOfLast(Older(g))' = HashOfLast(Older(g))
    BY <2>2, <2>3, <2>4 DEF HashOfLast
  <2> QED
    BY <1>1, <2>4, <2>5 DEF Neighbours, Broken, Before
<1> QED
  BY <1>3, <1>4

\* The event of an append that joins the log.
LEMMA PublishTrail ==
  ASSUME QueueInv, TrailInv, NEW i \in Ids, Publish(i)
  PROVE  TrailInv'
<1> USE DEF TrailInv
<1>1. /\ Ids' = Ids /\ Len(reqs') = Len(reqs) /\ \A j \in Ids \ {i} : reqs'[j] = reqs[j]
      /\ reqs'[i].phase = "told" /\ reqs[i].phase = "stamped"
      /\ \A j \in Ids : Tenant(j)' = Tenant(j)
  BY MovesOn DEF Publish, Moves
<1>2. /\ writer' \in Seq(Appends) /\ Len(writer') = Len(writer)
      /\ \A j \in Ids \ {i} : writer'[j] = writer[j]
  BY OverWriter DEF Publish
<1>3. /\ Tenant(i) \in Clubs /\ i \in Nat /\ writer[i].prev \in Nat /\ writer[i].ts \in Nat
      /\ writer[i].raced \in BOOLEAN /\ writer[i].back \in BOOLEAN
  BY AppendOf
<1>4. PICK e \in Events :
        /\ e.tenant = Tenant(i) /\ e.prev = writer[i].prev /\ e.ts = writer[i].ts
        /\ e.raced = writer[i].raced /\ e.back = writer[i].back
        /\ log' = log \cup {e}
  <2>1. (reqs[i].answer < 400) \in BOOLEAN
    OBVIOUS
  <2>2. Event(i) \in Events
    BY <1>3, <2>1 DEF Event, Events
  <2> QED
    BY <2>2 DEF Publish, Event
<1>5. \A g \in log' : g.ts \in Nat /\ g.raced \in BOOLEAN /\ g.back \in BOOLEAN
  BY <1>4 DEF TrailTyped, Events
<1>6. Writing(i) /\ ~Writing(i)' /\ \A j \in Ids \ {i} : Writing(j)' <=> Writing(j)
  BY <1>1 DEF Writing
<1>7. \A j \in Ids \ {i} : Writing(j) /\ Tenant(j) = Tenant(i) => writer[j].raced = TRUE
  BY <1>6 DEF Alone
<1>8. ~Marked(e) => \A g \in log : g.tenant = e.tenant => g.ts < e.ts
  BY <1>1, <1>4 DEF Stamped, Marked
<1>9. TrailTyped'
  BY <1>1, <1>2, <1>4 DEF TrailTyped
<1>10. Alone'
  BY <1>1, <1>2, <1>6 DEF Alone
<1>11. Linked'
  <2>1. SUFFICES ASSUME NEW j \in Ids, Writing(j)', writer'[j].raced = FALSE
                 PROVE  writer'[j].prev \in LastHash(Tenant(j))'
    BY <1>1 DEF Linked
  <2>2. j # i /\ writer'[j] = writer[j] /\ Writing(j) /\ Tenant(j) # e.tenant
    BY <1>2, <1>4, <1>6, <1>7, <2>1
  <2>3. Chain(Tenant(j))' = Chain(Tenant(j))
    BY <1>1, <1>4, <2>2 DEF Chain
  <2>4. LastHash(Tenant(j))' = LastHash(Tenant(j))
    BY <2>3 DEF LastHash, HashOfLast, Latest
  <2> QED
    BY <2>1, <2>2, <2>4 DEF Linked
<1>12. Stamped'
  <2>1. SUFFICES ASSUME NEW j \in Ids, reqs'[j].phase = "stamped", ~Marked(writer'[j])
                 PROVE  \A g \in log' : g.tenant = Tenant(j) => g.ts < writer'[j].ts
    BY <1>1 DEF Stamped, Marked
  <2>2. j # i /\ reqs[j].phase = "stamped" /\ writer'[j] = writer[j]
    BY <1>1, <1>2, <2>1
  <2>3. e.tenant # Tenant(j)
    BY <1>4, <1>7, <2>1, <2>2 DEF Writing, Marked
  <2> QED
    BY <1>4, <2>1, <2>2, <2>3 DEF Stamped
<1>13. Ties'
  <2>1. SUFFICES ASSUME NEW f \in log', NEW g \in log', f # g, f.tenant = g.tenant, f.ts = g.ts
                 PROVE  Marked(f) \/ Marked(g)
    BY DEF Ties, Marked
  <2>2. CASE f \in log /\ g \in log
    BY <2>1, <2>2 DEF Ties
  <2>3. CASE f = e \/ g = e
    BY <1>4, <1>5, <1>8, <2>1, <2>3
  <2> QED
    BY <1>4, <2>2, <2>3
<1>14. BrokenByOverlapOrClock'
  <2>1. SUFFICES ASSUME NEW g \in log', Broken(g)',
                        \A f \in Neighbours(g)' \cup {g} : ~Marked(f)
                 PROVE  FALSE
    BY <1>5 DEF BrokenByOverlapOrClock, Marked
  <2>2. CASE g = e
    BY <1>4, <1>5, <1>6, <1>8, <2>1, <2>2, NewIsLinked DEF Linked, Marked
  <2>3. CASE g # e
    <3>1. g \in log
      BY <1>4, <2>3
    <3>2. e \notin Neighbours(g)'
      <4>1. SUFFICES ASSUME e \in Neighbours(g)'
                     PROVE  FALSE
        OBVIOUS
      <4>2. g.ts < e.ts
        BY <1>8, <2>1, <3>1, <4>1 DEF Neighbours, Tied, Older, Latest, Chain
      <4> QED
        BY <1>4, <1>5, <3>1, <4>1, <4>2 DEF Neighbours, Tied, Older, Latest, Chain
    <3>3. Broken(g) /\ Neighbours(g) = Neighbours(g)'
      BY <1>4, <1>5, <2>1, <2>3, <3>1, <3>2, OldIsKept
    <3> QED
      BY <1>5, <2>1, <3>1, <3>3 DEF BrokenByOverlapOrClock, Marked
  <2> QED
    BY <2>2, <2>3
<1> QED
  BY <1>9, <1>10, <1>11, <1>12, <1>13, <1>14

LEMMA TrailStep ==
  ASSUME QueueInv, TrailInv, [Next]_vars
  PROVE  TrailInv'
<1>1. CASE UNCHANGED vars
  <2>1. UNCHANGED <<reqs, log, writer>>
    BY <1>1 DEF vars
  <2>2. TrailTyped' /\ Ids' = Ids
    BY <2>1 DEF TrailInv, TrailTyped, Ids
  <2> QED
    BY <2>1, <2>2, SteadyTrail DEF Writing, Tenant
<1>2. CASE \E i \in Ids : Audit(i)
  BY <1>2, LinkTrail, StampTrail, PublishTrail, SkipTrail DEF Audit
<1>3. CASE Next
  BY <1>2, <1>3, RequestTrail, ReadTrail, WriteTrail, CommitTrail, RespondTrail, RollbackTrail DEF Next
<1> QED
  BY <1>1, <1>3

(* However many appends to however many chains overlap, and whatever the   *)
(* clock returns: an append that overlaps with none of its tenant links to *)
(* the last event of its chain, and events of one time are marked.         *)
THEOREM TrailInvariant == Spec => [](QueueInv /\ TrailInv)
<1>1. Init => QueueInv /\ TrailInv
  BY InitInv, TrailInit
<1>2. QueueInv /\ TrailInv /\ [Next]_vars => (QueueInv /\ TrailInv)'
  BY NextInv, TrailStep
<1> QED
  BY <1>1, <1>2, PTL DEF Spec

(* verify_chain stumbles only where an append overlapped one of the same   *)
(* tenant or the clock had not advanced, for any number of tenants and of  *)
(* requests at a time and any clock (AuditEventWriter).                    *)
THEOREM StumblesAreExplained == Spec => []BrokenByOverlapOrClock
<1>1. TrailInv => BrokenByOverlapOrClock
  BY DEF TrailInv
<1> QED
  BY <1>1, TrailInvariant, PTL
=============================================================================
