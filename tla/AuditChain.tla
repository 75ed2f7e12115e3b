----------------------------- MODULE AuditChain -----------------------------
(***************************************************************************)
(* The audit trail: AuditMiddleware appends an event for every answer to a *)
(* principal before the answer goes out, in a transaction of its own, to   *)
(* the hash chain of the principal's tenant.                               *)
(*                                                                         *)
(* A request appends one event at the most, so that its number stands for  *)
(* the hash of the event.  The time is time.time_ns() of the process: two  *)
(* appends may get the same, and a later append an earlier one.            *)
(***************************************************************************)
EXTENDS Requests

CONSTANTS
  TenantOf,   \* the tenant of a principal
  Times       \* the times that time_ns may return

ASSUME AuditAssumption == Times \subseteq Nat

Genesis == 0

VARIABLES
  log,     \* the committed events
  writer   \* the append of every request; raced: another of its tenant overlapped
           \* it; back: its time was not after that of an event in the chain

Idle == [prev |-> Genesis, ts |-> 0, raced |-> FALSE, back |-> FALSE]
AuditInit == log = {} /\ writer = <<>>

Writing(i) == reqs[i].phase \in {"linked", "stamped"}
Moves(i, phase) == reqs' = [reqs EXCEPT ![i].phase = phase] /\ UNCHANGED faults
Chain(tenant) == {e \in log : e.tenant = tenant}

\* The events with the latest time: which of them comes last is not determined.
Latest(events) == {e \in events : \A f \in events : f.ts <= e.ts}
HashOfLast(events) == IF events = {} THEN {Genesis} ELSE {e.req : e \in Latest(events)}

\* A fault of LastHash: the event with the earliest time.
LastHashFirst(tenant) ==
  IF Chain(tenant) = {} THEN {Genesis}
  ELSE {e.req : e \in {f \in Chain(tenant) : \A g \in Chain(tenant) : f.ts <= g.ts}}

LastHash(tenant) == HashOfLast(Chain(tenant))

\* The appends to the same chain that are under way.
Tenant(i) == TenantOf[reqs[i].who]
Beside(i) == {j \in Ids : Writing(j) /\ Tenant(j) = Tenant(i)}

\* append reads the last hash ...
Link(i) ==
  /\ reqs[i].phase = "answered"
  /\ Moves(i, "linked")
  /\ \E prev \in LastHash(Tenant(i)) :
       writer' = [j \in Ids |->
         IF j = i THEN [Idle EXCEPT !.prev = prev, !.raced = Beside(i) # {}]
         ELSE IF j \in Beside(i) THEN [writer[j] EXCEPT !.raced = TRUE] ELSE writer[j]]
  /\ UNCHANGED log

\* ... and takes the time when it goes on.
Stamp(i) ==
  /\ reqs[i].phase = "linked"
  /\ Moves(i, "stamped")
  /\ \E t \in Times : writer' = [writer EXCEPT ![i].ts = t,
                                   ![i].back = \E e \in Chain(Tenant(i)) : t <= e.ts]
  /\ UNCHANGED log

Event(i) ==
  [req |-> i, tenant |-> Tenant(i), success |-> reqs[i].answer < 400, prev |-> writer[i].prev,
   ts |-> writer[i].ts, raced |-> writer[i].raced, back |-> writer[i].back]

\* The transaction of system_session commits and the answer goes out.
Publish(i) ==
  /\ reqs[i].phase = "stamped"
  /\ Moves(i, "told")
  /\ log' = log \cup {Event(i)}
  /\ writer' = [writer EXCEPT ![i] = Idle]

\* An error in append is logged and the answer goes out all the same.
Skip(i) ==
  /\ Writing(i)
  /\ reqs' = [reqs EXCEPT ![i].phase = "told"]
  /\ writer' = [writer EXCEPT ![i] = Idle]
  /\ Fault
  /\ UNCHANGED log

Audit(i) == Link(i) \/ Stamp(i) \/ Publish(i) \/ Skip(i)
-----------------------------------------------------------------------------
\* verify_chain walks the events by time; it stops at the first that does not
\* link to the one before it, which is any of those beside it in that order.
Older(e) == {f \in Chain(e.tenant) : f.ts < e.ts}
Tied(e) == {f \in Chain(e.tenant) \ {e} : f.ts = e.ts}
Neighbours(e) == Tied(e) \cup Latest(Older(e))
Before(e) == {f.req : f \in Tied(e)} \cup HashOfLast(Older(e))
Broken(e) == \E prev \in Before(e) : prev # e.prev
=============================================================================
