------------------------------ MODULE Requests ------------------------------
(***************************************************************************)
(* The life of a request to the backend: one transaction of db.py's        *)
(* tenant_session, READ COMMITTED, with awaits in it.                      *)
(*                                                                         *)
(* A handler reads and decides; it refuses, or flushes its writes, which   *)
(* locks the rows, and commits when it has returned.  The commit is the    *)
(* exit of a dependency with yield: FastAPI runs it before the answer is   *)
(* sent (up to 0.117) or once it was sent (from 0.118 on), and the backend *)
(* asks for 0.115 or later.  Handlers of other requests run between any    *)
(* two steps.  The requests made so far stay in reqs, as the history.      *)
(***************************************************************************)
EXTENDS Naturals, Sequences, FiniteSets

CONSTANTS
  None,         \* nothing read yet
  MaxRequests,  \* a bound on the requests made
  MaxOpen,      \* a bound on the requests under way at a time
  MaxFaults     \* a bound on lost transactions and failed appends

ASSUME RequestsAssumption == MaxRequests \in Nat /\ MaxOpen \in Nat /\ MaxFaults \in Nat

VARIABLES
  reqs,    \* the requests in the order of their arrival
  faults   \* faults so far

Ids == DOMAIN reqs

\* What a request asks for: op on arg, for the principal who.
Asked(op, who, arg) ==
  [op |-> op, who |-> who, arg |-> arg, phase |-> "received", seen |-> None,
   txn |-> "none", answer |-> 0]

Over(i) == reqs[i].phase = "told" /\ reqs[i].txn # "due"
Open == {i \in Ids : ~Over(i)}

\* A table with one more row, or another row with this key.
Insert(table, key, r) == [k \in DOMAIN table \cup {key} |-> IF k = key THEN r ELSE table[k]]

RequestsInit == reqs = <<>> /\ faults = 0

Arrive(r) == /\ Len(reqs) < MaxRequests /\ Cardinality(Open) < MaxOpen
             /\ reqs' = Append(reqs, r)
             /\ UNCHANGED faults

Fault == faults < MaxFaults /\ faults' = faults + 1

\* The handler has read what it decides on.
Reads(i, seen) == reqs' = [reqs EXCEPT ![i].phase = "read", ![i].seen = seen]

\* It answers without having written: an HTTPException, or nothing to change.
Answers(i, code) ==
  reqs' = [reqs EXCEPT ![i].phase = "answered", ![i].answer = code, ![i].seen = None]

\* It flushes; the transaction then waits for its commit.
Flushes(i) == reqs' = [reqs EXCEPT ![i].phase = "flushed", ![i].txn = "due"]

\* An unhandled error: a 500 that passes by the middleware, and a rollback.
Crashes(i) ==
  reqs' = [reqs EXCEPT ![i].phase = "told", ![i].answer = 500, ![i].txn = "lost",
                       ![i].seen = None]

Locks(i) == reqs[i].txn = "due"

\* The answer is ready before the commit.
Respond(i) ==
  /\ reqs[i].phase = "flushed"
  /\ reqs' = [reqs EXCEPT ![i].phase = "answered", ![i].answer = 200]
  /\ UNCHANGED faults

\* The commit, at the exit of the dependency; the caller says what it writes.
Commits(i) == reqs[i].txn = "due" /\ reqs[i].phase \in {"flushed", "told"}
Committed(i) ==
  reqs' = [reqs EXCEPT ![i].txn = "done", ![i].seen = None,
                       ![i].phase = IF @ = "flushed" THEN "answered" ELSE @,
                       ![i].answer = IF reqs[i].phase = "flushed" THEN 200 ELSE @]

\* The transaction is lost; a client that was already answered is not told.
Rollback(i) ==
  /\ Commits(i)
  /\ IF reqs[i].phase = "flushed" THEN Crashes(i) ELSE reqs' = [reqs EXCEPT ![i].txn = "lost", ![i].seen = None]
  /\ Fault
=============================================================================
