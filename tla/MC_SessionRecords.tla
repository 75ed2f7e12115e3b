-------------------------- MODULE MC_SessionRecords --------------------------
(* A coach of each of two clubs; the requests that meet in one session.    *)
EXTENDS SessionRecords

CONSTANTS c, d

MCTenantOf == [p \in {c, d} |-> IF p = c THEN "club" ELSE "other"]

Q(op, who, s, r, value) == [op |-> op, who |-> who, arg |-> [session |-> s, recording |-> r, value |-> value]]
Pair(o, f) == [offset |-> o, confidence |-> f]
Calib(ts, error, frames) == [ts |-> ts, error |-> error, frames |-> frames, shaped |-> TRUE]
Org(o, a) == [org |-> o, athlete |-> a]
Note(s, k) == [session |-> s, keys |-> k]

MCQuestions ==
  {Q("create", d, 0, 0, Org(o, TRUE)) : o \in {"club", "other"}}
  \cup {Q("upload", c, 0, 0, file) : file \in {"whole", "large"}}
  \cup {Q("align", c, 0, 0, v) : v \in {Pair(1, 2), Pair(2, 1), [offset |-> 1]}}
  \cup {Q("calibrate", c, 0, r, Calib(1, 1, 1)) : r \in 0..2}
  \cup {Q("calibrate", c, 0, 0, v) : v \in {Calib(2, 2, 1), Calib(1, 1, 0)}} \cup {Q("calibrate", d, 1, 0, Calib(1, 1, 1))}
  \cup {Q("note", c, 0, 0, n) : n \in {Note(0, TRUE), Note(1, FALSE)}}
  \cup {Q(op, c, 0, 0, 0) : op \in {"summary", "process"}}
=============================================================================
