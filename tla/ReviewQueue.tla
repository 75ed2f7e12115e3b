----------------------------- MODULE ReviewQueue -----------------------------
(***************************************************************************)
(* The active learning queue, routers/active_learning.py: an item is       *)
(* pending, claimed by a coach and labelled by that coach, or discarded.   *)
(* A handler decides on the row it read and writes only the columns it     *)
(* changed; nothing compares the row with what was read.                   *)
(***************************************************************************)
EXTENDS AuditChain

CONSTANTS
  Items, Principals,
  Coaches,            \* principals of rank coach or above
  NoOne

ASSUME ReviewQueueAssumption ==
  Coaches \subseteq Principals /\ NoOne \notin {TenantOf[p] : p \in Principals}

VARIABLE row          \* the table: a row of every item

vars == <<reqs, faults, log, writer, row>>

Missing == [status |-> "missing", tenant |-> NoOne, annotator |-> NoOne, labels |-> {}]

Pending(tenant) == [Missing EXCEPT !.status = "pending", !.tenant = tenant]

\* Items may be in the queue already.
Init == /\ RequestsInit /\ AuditInit
        /\ row \in [Items -> {Missing} \cup {Pending(TenantOf[c]) : c \in Coaches}]

Ops == {"enqueue", "claim", "label", "discard"}

Request(op, who, k) ==
  /\ op = "enqueue" <=> row[k] = Missing /\ \A i \in Ids : reqs[i].arg # k
  /\ Arrive(Asked(op, who, k))
  /\ writer' = Append(writer, Idle)
  /\ UNCHANGED <<log, row>>

\* _load_item: an item of another tenant is not there.
Foreign(r, item) == item.tenant # TenantOf[r.who]

\* Why a handler refuses, 0 when it does not: the role, the tenant, the state.
RefuseClaim(r, item) ==
  IF r.who \notin Coaches THEN 403 ELSE IF Foreign(r, item) THEN 404
  ELSE IF item.status # "pending" THEN 409 ELSE 0

\* A fault of RefuseLabel: a coach labels what another has claimed.
RefuseLabelAnyCoach(r, item) ==
  IF r.who \notin Coaches THEN 403 ELSE IF Foreign(r, item) THEN 404
  ELSE IF item.status # "claimed" THEN 409 ELSE 0

RefuseLabel(r, item) ==
  IF r.who \notin Coaches THEN 403 ELSE IF Foreign(r, item) THEN 404
  ELSE IF item.status # "claimed" THEN 409 ELSE IF item.annotator # r.who THEN 403 ELSE 0

\* A fault of RefuseDiscard: it does not look at the status.
RefuseDiscardBlind(r, item) == IF Foreign(r, item) THEN 404 ELSE 0

RefuseDiscard(r, item) ==
  IF Foreign(r, item) THEN 404 ELSE IF item.status = "labelled" THEN 409 ELSE 0

Refusal(r, item) ==
  CASE r.op = "claim"   -> RefuseClaim(r, item)
    [] r.op = "label"   -> RefuseLabel(r, item)
    [] r.op = "discard" -> RefuseDiscard(r, item)
    [] OTHER -> 0

Read(i) ==
  LET r == reqs[i] code == Refusal(r, row[r.arg]) IN
  /\ r.phase = "received"
  /\ IF code # 0 THEN Answers(i, code) ELSE Reads(i, row[r.arg])
  /\ UNCHANGED <<faults, log, writer, row>>

\* The UPDATE waits for the lock of the row; a discarded item needs none.
Write(i) ==
  LET r == reqs[i] IN
  /\ r.phase = "read"
  /\ IF r.op = "discard" /\ r.seen.status = "discarded" THEN Answers(i, 200)
     ELSE /\ \A j \in Ids : Locks(j) => reqs[j].arg # r.arg
          /\ Flushes(i)
  /\ UNCHANGED <<faults, log, writer, row>>

\* What the handlers set: the other columns stay as they are at the commit.
Claimed(r, item) == [item EXCEPT !.status = "claimed", !.annotator = r.who]
Labelled(i, item) == [item EXCEPT !.status = "labelled", !.labels = {i}]
Discarded(item) == [item EXCEPT !.status = "discarded"]

Written(i, item) ==
  LET r == reqs[i] IN
  CASE r.op = "enqueue" -> Pending(TenantOf[r.who])
    [] r.op = "claim"   -> Claimed(r, item)
    [] r.op = "label"   -> Labelled(i, item)
    [] r.op = "discard" -> Discarded(item)

Commit(i) ==
  /\ Commits(i)
  /\ Committed(i)
  /\ row' = [row EXCEPT ![reqs[i].arg] = Written(i, @)]
  /\ UNCHANGED <<faults, log, writer>>

Next ==
  \/ \E op \in Ops, who \in Principals, k \in Items : Request(op, who, k)
  \/ \E i \in Ids : Read(i) \/ Write(i) \/ Commit(i)
  \/ \E i \in Ids : Audit(i) /\ UNCHANGED row
  \/ \E i \in Ids : (Respond(i) \/ Rollback(i)) /\ UNCHANGED <<log, writer, row>>

Spec == Init /\ [][Next]_vars
-----------------------------------------------------------------------------
TypeOK ==
  /\ \A k \in Items : row[k].status \in {"missing", "pending", "claimed", "labelled", "discarded"}
                      /\ row[k].annotator \in Principals \cup {NoOne}
                      /\ row[k].labels \subseteq Ids
  /\ \A i \in Ids : /\ reqs[i].phase \in {"received", "read", "flushed", "answered",
                                           "linked", "stamped", "told"}
                    /\ reqs[i].txn \in {"none", "due", "done", "lost"}
                    /\ writer[i].ts \in Times \cup {0} /\ writer[i].prev \in Ids \cup {Genesis}
  /\ faults \in 0..MaxFaults

(* However claims, labels and discards overlap, the labels in the row are  *)
(* those of a coach whose own claim of the item was committed before       *)
(* (label_item's check of the annotator).                                  *)
LabelledByClaimant ==
  \A k \in Items : \A i \in row[k].labels : \E j \in Ids :
    /\ reqs[j].op = "claim" /\ reqs[j].arg = k
    /\ reqs[j].who = reqs[i].who /\ reqs[j].txn = "done"

(* An item leaves "labelled" only by a request that had read it before the *)
(* label was committed: whoever reads it afterwards is refused with a 409. *)
LabelledLeftByStale ==
  [][\A k \in Items : row[k].status = "labelled" /\ row'[k].status # "labelled" =>
       \E i \in Ids : /\ reqs[i].txn = "due" /\ reqs'[i].txn = "done"
                      /\ reqs[i].seen.status # "labelled"]_vars

(* verify_chain stumbles only over an event at which, or at an event beside *)
(* it in the order of time, an append overlapped one of the same tenant or *)
(* the clock had not advanced: appends one after the other whose times     *)
(* rise are a chain, whatever fails and whatever other tenants append.     *)
BrokenByOverlapOrClock ==
  \A e \in log : Broken(e) => \E f \in Neighbours(e) \cup {e} : f.raced \/ f.back

(* middleware/audit.py:3-5: "on the production audit DB outage path the    *)
(* policy is fail-closed for write-side actions": what a request has       *)
(* written, and its client was told of, is in the trail.                   *)
WritesFailClosed ==
  \A i \in Ids : reqs[i].phase = "told" /\ reqs[i].answer = 200 /\ reqs[i].txn = "done" =>
    \E e \in log : e.req = i /\ e.success
=============================================================================
