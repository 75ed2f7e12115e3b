------------------------- MODULE CameraStateProofs -------------------------
(* What aimvision-camera-state keeps.  The invariants of CommandQueue hold   *)
(* for every set of submit calls, every capacity and every retry budget.     *)
(* Those of ConnectionState hold for any callers, receivers and kinds of     *)
(* error, as long as the callers' transitions do not overlap.                *)
EXTENDS CommandQueue, ConnectionState, FiniteSetTheorems, TLAPS

-----------------------------------------------------------------------------
(* The command queue.                                                        *)

Occurs(q, x) == \E i \in 1..Len(q) : q[i] = x
Distinct(q) == \A i, j \in 1..Len(q) : q[i] = q[j] => i = j

\* Appending adds one element and keeps a duplicate-free sequence so.
LEMMA AppendFacts ==
  ASSUME NEW S, NEW q \in Seq(S), NEW x \in S
  PROVE  /\ Append(q, x) \in Seq(S) /\ Len(Append(q, x)) = Len(q) + 1
         /\ \A y : Occurs(Append(q, x), y) <=> Occurs(q, y) \/ y = x
         /\ Distinct(q) /\ ~Occurs(q, x) => Distinct(Append(q, x))
<1> DEFINE r == Append(q, x)
<1>1. /\ r \in Seq(S) /\ Len(r) = Len(q) + 1 /\ Len(q) \in Nat
      /\ r[Len(q) + 1] = x /\ \A i \in 1..Len(q) : r[i] = q[i]
  OBVIOUS
<1> HIDE DEF r
<1>2. ASSUME NEW y PROVE Occurs(r, y) <=> Occurs(q, y) \/ y = x
  BY <1>1 DEF Occurs
<1>3. Distinct(q) /\ ~Occurs(q, x) => Distinct(r)
  BY <1>1 DEF Occurs, Distinct
<1> QED
  BY <1>1, <1>2, <1>3 DEF r

\* The tail of a duplicate-free sequence holds all its elements but the head.
LEMMA TailFacts ==
  ASSUME NEW S, NEW q \in Seq(S), q # <<>>
  PROVE  /\ Tail(q) \in Seq(S) /\ Len(Tail(q)) = Len(q) - 1 /\ Head(q) \in S
         /\ \A y : Occurs(q, y) <=> Occurs(Tail(q), y) \/ y = Head(q)
         /\ Distinct(q) => Distinct(Tail(q)) /\ ~Occurs(Tail(q), Head(q))
<1> DEFINE r == Tail(q)
<1>1. /\ r \in Seq(S) /\ Len(r) = Len(q) - 1 /\ Len(q) \in Nat \ {0}
      /\ Head(q) = q[1] /\ Head(q) \in S /\ \A i \in 1..Len(r) : r[i] = q[i + 1]
  OBVIOUS
<1> HIDE DEF r
<1>2. ASSUME NEW y, Occurs(q, y), y # Head(q) PROVE Occurs(r, y)
  <2>1. PICK i \in 1..Len(q) : q[i] = y
    BY <1>2 DEF Occurs
  <2>2. i - 1 \in 1..Len(r) /\ r[i - 1] = y
    BY <1>1, <1>2, <2>1
  <2> QED
    BY <2>2 DEF Occurs
<1>3. ASSUME NEW y, Occurs(r, y) \/ y = Head(q) PROVE Occurs(q, y)
  BY <1>1, <1>3 DEF Occurs
<1>4. Distinct(q) => Distinct(r) /\ ~Occurs(r, Head(q))
  BY <1>1 DEF Distinct, Occurs
<1> QED
  BY <1>1, <1>2, <1>3, <1>4 DEF r

\* A granted sender finds a free slot, whoever is ahead of it.
LEMMA GrantedHasRoom ==
  ASSUME NEW c \in Commands, TypeOK, Granted(c)
  PROVE  Len(queue) < Capacity
<1> DEFINE ahead == {d \in Commands : call[d] = "sending" /\ ticket[d] < ticket[c]}
<1>1. IsFiniteSet(ahead)
  BY CommandQueueAssumption, FS_Subset
<1>2. Cardinality(ahead) \in Nat
  BY <1>1, FS_CardinalityType
<1>3. Cardinality(ahead) < Capacity - Len(queue)
  BY DEF Granted
<1> QED
  BY <1>2, <1>3, CommandQueueAssumption DEF TypeOK

LEMMA InitInv == Init => CommandQueueInv
  BY CommandQueueAssumption
  DEF Init, CommandQueueInv, TypeOK, AnswerOwed, QueueBounded, OkMeansApplied,
      AttemptsBounded, QueuedFresh, UnsentFresh, WorkerHolds, WorkProgress, Queued,
      Executing, CallStates, WorkerStates, Results, Errors, Limit

LEMMA StepInv == CommandQueueInv /\ [Next]_vars => CommandQueueInv'
<1> SUFFICES ASSUME CommandQueueInv, [Next]_vars PROVE CommandQueueInv'
  OBVIOUS
<1> USE CommandQueueAssumption
    DEF CommandQueueInv, TypeOK, AnswerOwed, QueueBounded, OkMeansApplied,
        AttemptsBounded, QueuedFresh, UnsentFresh, WorkerHolds, WorkProgress,
        Executing, CallStates, WorkerStates, Results, Errors, Limit,
        callerVars, workVars
<1>a. \A d \in Commands : UNCHANGED queue => (Queued(d)' <=> Queued(d))
  BY DEF Queued
<1>1. ASSUME NEW c \in Commands, Submit(c) PROVE CommandQueueInv'
  BY <1>1, <1>a DEF Submit
<1>2. ASSUME NEW c \in Commands, Enqueue(c) PROVE CommandQueueInv'
  <2>1. Len(queue) < Capacity
    BY <1>2, GrantedHasRoom DEF Enqueue
  <2>2. /\ call[c] = "sending" /\ queue' = Append(queue, c)
        /\ call' = [call EXCEPT ![c] = "awaiting"] /\ worker # "stopped"
        /\ ticket' = [ticket EXCEPT ![c] = 0]
        /\ UNCHANGED <<accepted, worker, cur, permits, tries, applied, outcome,
                       reply, open>>
    BY <1>2 DEF Enqueue
  <2>3. ~Queued(c)
    BY <2>2
  <2>4. /\ queue' \in Seq(Commands) /\ Len(queue') = Len(queue) + 1 /\ Distinct(queue')
        /\ \A d \in Commands : Queued(d)' <=> Queued(d) \/ d = c
    BY <2>2, <2>3, AppendFacts DEF Queued, Occurs, Distinct
  <2>5. TypeOK' /\ OkMeansApplied' /\ AttemptsBounded'
    BY <2>2, <2>4
  <2>6. QueueBounded'
    BY <2>1, <2>4 DEF Distinct
  <2>7. AnswerOwed' /\ QueuedFresh' /\ UnsentFresh'
    BY <2>2, <2>3, <2>4
  <2>8. WorkerHolds' /\ WorkProgress'
    BY <2>2
  <2> QED
    BY <2>5, <2>6, <2>7, <2>8
<1>3. ASSUME NEW c \in Commands, SendClosed(c) PROVE CommandQueueInv'
  BY <1>3, <1>a DEF SendClosed
<1>4. ASSUME NEW c \in Commands, Return(c) PROVE CommandQueueInv'
  <2>1. call[c] = "awaiting" /\ (reply[c] # None \/ worker = "stopped")
        /\ call' = [call EXCEPT ![c] = "returned"]
        /\ reply' = [reply EXCEPT ![c] = IF @ = None THEN "cancelled" ELSE @]
        /\ UNCHANGED <<ticket, accepted, queue, worker, cur, permits, tries, applied,
                       outcome, open>>
    BY <1>4 DEF Return
  <2>2. TypeOK' /\ OkMeansApplied' /\ AttemptsBounded' /\ QueueBounded'
    BY <2>1
  <2>3. AnswerOwed' /\ UnsentFresh'
    BY <2>1, <1>a
  <2>4. worker = "stopped" => ~Queued(c)
    BY <2>1 DEF Queued
  <2>5. QueuedFresh'
    BY <2>1, <2>4, <1>a
  <2>6. WorkerHolds' /\ WorkProgress'
    BY <2>1
  <2> QED
    BY <2>2, <2>3, <2>5, <2>6
<1>5. ASSUME NEW c \in Commands, DropCall(c) PROVE CommandQueueInv'
  BY <1>5, <1>a DEF DropCall
<1>6. CASE DropQueue
  <2>1. /\ open' = FALSE
        /\ UNCHANGED <<call, ticket, accepted, queue, worker, cur, permits, tries,
                       applied, outcome, reply>>
    BY <1>6 DEF DropQueue
  <2>2. QueueBounded' /\ OkMeansApplied' /\ AttemptsBounded'
    BY <2>1
  <2>5. TypeOK'
    BY ONLY <2>1, TypeOK DEF TypeOK
  <2>3. AnswerOwed' /\ QueuedFresh' /\ UnsentFresh'
    BY <2>1, <1>a
  <2>4. WorkerHolds' /\ WorkProgress'
    BY <2>1
  <2> QED
    BY <2>2, <2>3, <2>4, <2>5
<1>7. CASE Recv
  <2>1. /\ worker = "recv" /\ worker' = "acquire" /\ cur = None /\ queue # <<>>
        /\ cur' = Head(queue) /\ queue' = Tail(queue)
        /\ UNCHANGED <<call, ticket, accepted, open, tries, applied, permits,
                       outcome, reply>>
    BY <1>7 DEF Recv
  <2>2. /\ queue' \in Seq(Commands) /\ Len(queue') = Len(queue) - 1 /\ Distinct(queue')
        /\ cur' \in Commands
        /\ \A d \in Commands : d = cur' => Queued(d) /\ ~Queued(d)'
        /\ \A d \in Commands : Queued(d) <=> Queued(d)' \/ d = cur'
    <3>1. queue \in Seq(Commands) /\ Distinct(queue) /\ queue # <<>>
      BY <2>1 DEF Distinct
    <3>2. \A d : Queued(d) <=> Occurs(queue, d)
      BY DEF Queued, Occurs
    <3>3. \A d : Queued(d)' <=> Occurs(Tail(queue), d)
      BY <2>1 DEF Queued, Occurs
    <3>4. /\ Tail(queue) \in Seq(Commands) /\ Len(Tail(queue)) = Len(queue) - 1
          /\ Head(queue) \in Commands
          /\ \A d : Occurs(queue, d) <=> Occurs(Tail(queue), d) \/ d = Head(queue)
          /\ Distinct(Tail(queue)) /\ ~Occurs(Tail(queue), Head(queue))
      BY <3>1, TailFacts
    <3>5. Distinct(queue)' <=> Distinct(Tail(queue))
      BY <2>1 DEF Distinct
    <3> HIDE DEF TypeOK, AnswerOwed, QueueBounded, QueuedFresh, UnsentFresh, WorkerHolds
    <3> QED
      BY <2>1, <3>2, <3>3, <3>4, <3>5
  <2>3. TypeOK' /\ OkMeansApplied' /\ AttemptsBounded' /\ QueueBounded'
    BY <2>1, <2>2 DEF Distinct
  <2>4. AnswerOwed' /\ QueuedFresh' /\ UnsentFresh'
    BY <2>1, <2>2
  <2>5. WorkerHolds' /\ WorkProgress'
    BY <2>1, <2>2
  <2> QED
    BY <2>3, <2>4, <2>5
<1>8. CASE RecvClosed
  BY <1>8, <1>a DEF RecvClosed
<1>9. CASE Acquire
  <2>1. cur \in Commands /\ tries[cur] = 0 /\ applied[cur] = {}
    BY <1>9 DEF Acquire
  <2>2. CASE Limit(cur) = 0
    BY <1>9, <2>1, <2>2, <1>a DEF Acquire
  <2>3. CASE Limit(cur) # 0
    <3>1. /\ worker' = "attempt" /\ tries' = [tries EXCEPT ![cur] = 1]
          /\ permits' = 0 /\ worker = "acquire"
          /\ UNCHANGED <<call, ticket, accepted, open, queue, cur, applied, reply,
                         outcome>>
      BY <1>9, <2>1, <2>3 DEF Acquire
    <3>2. TypeOK' /\ QueueBounded' /\ OkMeansApplied'
      BY <3>1
    <3>3. AttemptsBounded'
      BY <2>1, <2>3, <3>1
    <3>4. AnswerOwed' /\ QueuedFresh' /\ UnsentFresh'
      BY <3>1, <1>a
    <3>5. WorkerHolds' /\ WorkProgress'
      BY <2>1, <3>1
    <3> QED
      BY <3>2, <3>3, <3>4, <3>5
  <2> QED
    BY <2>2, <2>3
<1>10. CASE AttemptOk
  BY <1>10, <1>a DEF AttemptOk, EndWork
<1>11. ASSUME NEW e \in Errors, AttemptFails(e) PROVE CommandQueueInv'
  <2>1. CASE MayRetry(e)
    BY <1>11, <2>1, <1>a DEF AttemptFails, MayRetry
  <2>2. CASE ~MayRetry(e)
    BY <1>11, <2>2, <1>a DEF AttemptFails, EndWork
  <2> QED
    BY <2>1, <2>2
<1>12. CASE BackoffEnds
  BY <1>12, <1>a DEF BackoffEnds
<1>13. CASE WatchdogFires
  BY <1>13, <1>a DEF WatchdogFires, EndWork
<1>14. CASE WorkPanics
  BY <1>14 DEF WorkPanics, Queued
<1>15. CASE Reply
  BY <1>15, <1>a DEF Reply
<1>16. CASE Release
  BY <1>16, <1>a DEF Release
<1>17. ASSUME NEW c \in Commands, NEW n \in 1..tries[c], Apply(c, n) PROVE CommandQueueInv'
  BY <1>17, <1>a DEF Apply
<1>18. CASE UNCHANGED vars
  BY <1>18, <1>a DEF vars
<1> QED
  BY <1>1, <1>2, <1>3, <1>4, <1>5, <1>6, <1>7, <1>8, <1>9, <1>10, <1>11, <1>12,
     <1>13, <1>14, <1>15, <1>16, <1>17, <1>18
  DEF Next, CallerStep, WorkerStep, CameraAnswers

\* The state of every run of the queue satisfies the inductive invariant.
THEOREM QueueInvariant == Spec => []CommandQueueInv
  BY InitInv, StepInv, PTL DEF Spec

\* No awaiting caller is forgotten while the worker lives, whatever mixture of
\* retries, timeouts, cancellations and panics went before.
THEOREM NoCallerForgotten == Spec => []AnswerOwed
<1>1. CommandQueueInv => AnswerOwed
  BY DEF CommandQueueInv
<1> QED
  BY <1>1, QueueInvariant, PTL

\* Every call of every run keeps its retry budget.
THEOREM RetryBudgetKept == Spec => []AttemptsBounded
<1>1. CommandQueueInv => AttemptsBounded
  BY DEF CommandQueueInv
<1> QED
  BY <1>1, QueueInvariant, PTL

\* The camera is not asked again for a command that has been answered, and what
\* reaches it late was asked before.
THEOREM AnsweredIsOver == Spec => NothingAskedAfterReply
<1>1. ASSUME CommandQueueInv, CommandQueueInv', [Next]_vars
      PROVE  [\A c \in Commands : reply[c] # None =>
                tries'[c] = tries[c] /\ applied'[c] \subseteq 1..tries[c]]_vars
  <2> SUFFICES ASSUME Next, NEW c \in Commands, reply[c] # None
               PROVE  tries'[c] = tries[c] /\ applied'[c] \subseteq 1..tries[c]
    BY <1>1
  <2>1. worker \in {"acquire", "attempt", "backoff", "finish"} => c # cur
    BY <1>1 DEF CommandQueueInv, WorkerHolds
  <2>2. tries \in [Commands -> Nat]
    BY <1>1 DEF CommandQueueInv, TypeOK
  <2>3. tries'[c] = tries[c]
    BY <2>1, <2>2
    DEF Next, CallerStep, WorkerStep, CameraAnswers, Submit, Enqueue, SendClosed, Return, DropCall,
        DropQueue, Recv, RecvClosed, Acquire, AttemptOk, AttemptFails, MayRetry,
        EndWork, BackoffEnds, WatchdogFires, WorkPanics, Reply, Release, Apply,
        callerVars, workVars
  <2>4. applied'[c] \subseteq 1..tries'[c]
    BY <1>1 DEF CommandQueueInv, AttemptsBounded
  <2> QED
    BY <2>3, <2>4
<1> QED
  BY <1>1, QueueInvariant, PTL DEF Spec, NothingAskedAfterReply
-----------------------------------------------------------------------------
\* The state of the abstract executor, as the refinement mapping has it.
executingBar == IF worker \in {"acquire", "attempt", "backoff", "finish"} THEN cur ELSE None
touchedBar == [c \in Commands |-> Cardinality(applied[c])]
goneBar == {c \in Commands : call[c] = "dropped"}
brokenBar == worker = "stopped"
vecBar == <<queue, executingBar, tries, touchedBar, reply, goneBar, brokenBar>>

\* The attempts that reached the camera are counted: finitely many, one more at a
\* time, and none but those begun.
LEMMA AppliedCounts ==
  ASSUME CommandQueueInv, NEW c \in Commands
  PROVE  /\ IsFiniteSet(applied[c]) /\ Cardinality(applied[c]) \in Nat
         /\ \A n \in Nat : n \notin applied[c] =>
              Cardinality(applied[c] \cup {n}) = Cardinality(applied[c]) + 1
         /\ \A n : n \in applied[c] => Cardinality(applied[c]) > 0
         /\ \A n \in 1..tries[c] : n \notin applied[c] => Cardinality(applied[c]) < tries[c]
<1>1. applied[c] \subseteq 1..tries[c] /\ tries[c] \in Nat
  BY DEF CommandQueueInv, TypeOK, AttemptsBounded
<1>2. IsFiniteSet(applied[c])
  <2>1. IsFiniteSet(1..tries[c])
    BY <1>1, FS_Interval
  <2> QED
    BY <1>1, <2>1, FS_Subset
<1>3. Cardinality(applied[c]) \in Nat
  BY <1>2, FS_CardinalityType
<1>4. \A n : n \in applied[c] => Cardinality(applied[c]) # 0
  BY <1>2, FS_EmptySet
<1>5. \A n : n \notin applied[c] => Cardinality(applied[c] \cup {n}) = Cardinality(applied[c]) + 1
  BY <1>2, FS_AddElement
<1>6. \A n \in 1..tries[c] : n \notin applied[c] => Cardinality(applied[c]) < tries[c]
  <2>1. IsFiniteSet(1..tries[c]) /\ Cardinality(1..tries[c]) = tries[c]
    BY <1>1, FS_Interval
  <2>2. /\ Cardinality(applied[c]) <= tries[c]
        /\ Cardinality(applied[c]) = tries[c] => applied[c] = 1..tries[c]
    BY <1>1, <2>1, FS_Subset
  <2> QED
    BY <1>1, <1>3, <2>2
<1> QED
  BY <1>2, <1>3, <1>4, <1>5, <1>6

LEMMA InitRefines == Init => Executor!Init
<1> SUFFICES ASSUME Init PROVE Executor!Init
  OBVIOUS
<1>1. touchedBar = [c \in Commands |-> 0]
  BY FS_EmptySet DEF Init, touchedBar
<1>2. goneBar = {} /\ executingBar = None /\ ~brokenBar
  BY DEF Init, goneBar, executingBar, brokenBar
<1> QED
  BY <1>1, <1>2 DEF Init, Executor!Init, touchedBar, goneBar, executingBar, brokenBar

\* What the steps of a caller are to the executor.
LEMMA CallerRefines ==
  ASSUME CommandQueueInv, NEW c \in Commands, Submit(c) \/ CallerStep(c) \/ DropCall(c)
  PROVE  Executor!Next \/ UNCHANGED vecBar
<1> USE DEF executingBar, touchedBar, goneBar, brokenBar, vecBar
<1>0. /\ call \in [Commands -> CallStates] /\ reply \in [Commands -> Results \cup {None}]
      /\ queue \in Seq(Commands)
  BY DEF CommandQueueInv, TypeOK
<1>1. CASE Submit(c)
  BY <1>0, <1>1 DEF Submit
<1>2. CASE Enqueue(c)
  <2>1. reply[c] = None /\ c # cur /\ ~Queued(c)
    BY <1>2 DEF Enqueue, CommandQueueInv, UnsentFresh, QueuedFresh
  <2>2. /\ call[c] = "sending" /\ worker # "stopped" /\ queue' = Append(queue, c)
        /\ call' = [call EXCEPT ![c] = "awaiting"] /\ UNCHANGED <<worker, cur, tries, applied, reply>>
    BY <1>2 DEF Enqueue
  <2>3. c # executingBar /\ goneBar' = goneBar
    BY <1>0, <2>1, <2>2, CommandQueueAssumption
  <2>4. \A i \in DOMAIN queue : queue[i] # c
    BY <1>0, <2>1 DEF Queued
  <2>5. Executor!Accept(c)
    BY <2>1, <2>2, <2>3, <2>4 DEF Executor!Accept
  <2> QED
    BY <2>5 DEF Executor!Next
<1>3. CASE SendClosed(c)
  <2>1. reply[c] = None
    BY <1>3 DEF SendClosed, CommandQueueInv, UnsentFresh
  <2>2. Executor!Cancel(c)
    BY <1>0, <1>3, <2>1 DEF SendClosed, Executor!Cancel
  <2> QED
    BY <2>2 DEF Executor!Next
<1>4. CASE Return(c)
  <2>1. CASE reply[c] = None
    <3>1. Executor!Cancel(c)
      BY <1>0, <1>4, <2>1 DEF Return, Executor!Cancel
    <3> QED
      BY <3>1 DEF Executor!Next
  <2>2. CASE reply[c] # None
    BY <1>0, <1>4, <2>2 DEF Return
  <2> QED
    BY <2>1, <2>2
<1>5. CASE DropCall(c)
  <2>1. Executor!Abandon(c)
    BY <1>0, <1>5 DEF DropCall, Executor!Abandon
  <2> QED
    BY <2>1 DEF Executor!Next
<1> QED
  BY <1>1, <1>2, <1>3, <1>4, <1>5 DEF CallerStep

\* What the steps of the worker and of the camera are to the executor.
LEMMA WorkerRefines ==
  ASSUME CommandQueueInv,
         \/ DropQueue \/ WorkerStep \/ CameraAnswers
         \/ \E c \in Commands : \E n \in 1..tries[c] : Apply(c, n)
  PROVE  Executor!Next \/ UNCHANGED vecBar
<1> USE DEF executingBar, touchedBar, goneBar, brokenBar, vecBar
<1>0. /\ call \in [Commands -> CallStates] /\ reply \in [Commands -> Results \cup {None}]
      /\ queue \in Seq(Commands) /\ cur \in Commands \cup {None}
      /\ worker \in {"attempt", "finish", "acquire", "backoff", "release"} => cur \in Commands
      /\ applied \in [Commands -> SUBSET Nat] /\ tries \in [Commands -> Nat]
  BY DEF CommandQueueInv, TypeOK, WorkerHolds
<1>1. CASE Recv
  <2>1. Executor!Begin
    BY <1>0, <1>1 DEF Recv, Executor!Begin, callerVars, workVars
  <2> QED
    BY <2>1 DEF Executor!Next
<1>2. CASE RecvClosed \/ WorkPanics
  <2>1. Executor!Break
    BY <1>0, <1>2 DEF RecvClosed, WorkPanics, Executor!Break, callerVars, workVars
  <2> QED
    BY <2>1 DEF Executor!Next
<1>3. ASSUME NEW c \in Commands, NEW n \in 1..tries[c], Apply(c, n)
      PROVE  Executor!Next
  <2>1. /\ n \in Nat /\ n \notin applied[c]
        /\ applied' = [applied EXCEPT ![c] = @ \cup {n}]
        /\ UNCHANGED <<callerVars, queue, worker, cur, permits, tries, outcome, reply>>
    BY <1>0, <1>3 DEF Apply
  <2>2. /\ Cardinality(applied[c] \cup {n}) = Cardinality(applied[c]) + 1
        /\ Cardinality(applied[c]) < tries[c]
    BY <2>1, AppliedCounts
  <2>3. touchedBar' = [touchedBar EXCEPT ![c] = @ + 1]
    BY <1>0, <2>1, <2>2
  <2>4. Executor!Touch(c)
    BY <2>1, <2>2, <2>3 DEF Executor!Touch, callerVars
  <2> QED
    BY <2>4 DEF Executor!Next
<1>4. CASE Reply
  <2>1. /\ worker = "finish" /\ worker' = "release" /\ cur \in Commands /\ cur # None
        /\ call[cur] \in {"awaiting", "dropped"} /\ outcome \in Results
        /\ outcome = "ok" => tries[cur] \in applied[cur]
        /\ reply' = IF call[cur] = "awaiting" THEN [reply EXCEPT ![cur] = outcome] ELSE reply
        /\ UNCHANGED <<callerVars, workVars, queue, cur>>
    BY <1>0, <1>4, CommandQueueAssumption
    DEF Reply, CommandQueueInv, WorkerHolds, WorkProgress, TypeOK
  <2>2. outcome = "ok" => Cardinality(applied[cur]) > 0
    BY <2>1, AppliedCounts
  <2>3. Executor!Finish(outcome)
    BY <2>1, <2>2 DEF Executor!Finish, callerVars, workVars
  <2>4. outcome \in Executor!Answers
    BY <2>1 DEF Executor!Answers, Results, Errors
  <2> QED
    BY <2>3, <2>4 DEF Executor!Next
<1>5. CASE DropQueue \/ WatchdogFires \/ Release \/ AttemptOk
  BY <1>0, <1>5 DEF DropQueue, WatchdogFires, Release, AttemptOk, EndWork, callerVars, workVars
<1>7. CASE Acquire \/ BackoffEnds
  <2>1. CASE UNCHANGED tries
    BY <1>0, <1>7, <2>1 DEF Acquire, BackoffEnds, callerVars
  <2>2. CASE ~UNCHANGED tries
    <3>1. /\ executingBar = cur /\ executingBar' = cur /\ cur # None
          /\ tries' = [tries EXCEPT ![cur] = @ + 1]
          /\ UNCHANGED <<call, queue, worker = "stopped", applied, reply>>
      BY <1>0, <1>7, <2>2, CommandQueueAssumption
      DEF Acquire, BackoffEnds, callerVars, workVars
    <3>2. Executor!Ask
      BY <3>1 DEF Executor!Ask
    <3> QED
      BY <3>2 DEF Executor!Next
  <2> QED
    BY <2>1, <2>2
<1>6. ASSUME NEW e \in Errors, AttemptFails(e)
      PROVE  UNCHANGED vecBar
  BY <1>0, <1>6 DEF AttemptFails, EndWork, callerVars, workVars
<1> QED
  BY <1>1, <1>2, <1>3, <1>4, <1>5, <1>6, <1>7 DEF WorkerStep, CameraAnswers

(* The queue is a serial executor (the header of command_queue.rs): commands *)
(* are executed one at a time in the order queued, the camera is asked only  *)
(* by the one in execution, and success means that it carried a request out. *)
THEOREM QueueIsSerialExecutor == Spec => ImplementsSerialExecutor
<1>1. CommandQueueInv /\ [Next]_vars =>
        [Executor!Next]_<<queue, executingBar, tries, touchedBar, reply, goneBar, brokenBar>>
  BY CallerRefines, WorkerRefines
  DEF Next, vars, vecBar, executingBar, touchedBar, goneBar, brokenBar
<1> QED
  BY <1>1, InitRefines, QueueInvariant, PTL
  DEF Spec, ImplementsSerialExecutor, Executor!Spec, Executor!vars,
      executingBar, touchedBar, goneBar, brokenBar
-----------------------------------------------------------------------------
(* The connection state.                                                     *)

\* No two calls of transition() or transition_to_errored() are under way at once.
OneAtATime == \A c, d \in Callers : pc[c] # "idle" /\ pc[d] # "idle" => c = d

Footage == {"ReadyForRecording", "Recording", "RecordingPaused", "FileTransferring"}

\* A call under way was validated against the state that is still published; once it
\* has recorded, the error is the one of the state it is about to publish.
Validated ==
  \A c \in Callers :
    /\ pc[c] # "idle" => want[c] \in Moves(state)
    /\ pc[c] = "recorded" /\ want[c] # "Errored" => lastError = NoError
    /\ pc[c] = "recorded" /\ want[c] = "Errored" => lastError # NoError \/ kindless

\* Whoever is not in the middle of a call leaves the error as the state wants it.
Settled ==
  (\A c \in Callers : pc[c] # "recorded") =>
    /\ state = "Errored" => lastError # NoError \/ kindless
    /\ state # "Errored" => lastError = NoError

Joined ==
  state \in Footage \cup {"WifiConnected", "UsbcConnected"} => transport # "none"

ConnectionInv ==
  ConnectionTypeOK /\ ViewCurrent /\ Validated /\ Settled /\ Joined

\* Footage comes only after a transport or more footage.
LEMMA MovesRight ==
  ASSUME NEW s \in States
  PROVE  /\ Moves(s) \subseteq States
         /\ s = "Errored" => "Errored" \notin Moves(s)
         /\ \A to \in Moves(s) \cap Footage :
              s \in Footage \cup {"WifiConnected", "UsbcConnected"}
BY DEF Moves, States, Footage

LEMMA ConnectionStarts == ConnectionInit => ConnectionInv
BY DEF ConnectionInit, ConnectionInv, ConnectionTypeOK, ViewCurrent, Validated,
   Settled, Joined, States, Footage

\* A call starts only when no other is under way.
LEMMA CallKeeps ==
  ASSUME ConnectionInv, NEW c \in Callers, Call(c), OneAtATime'
  PROVE  ConnectionInv'
<1>1. PICK to \in States, k \in Kinds \cup {NoError} : Check(c, to, k)
  BY DEF Call, States
<1> USE DEF published, Refuse
<1>2. CASE ~CanMove(state, to)
  BY <1>1, <1>2 DEF Check, ConnectionInv, ConnectionTypeOK, ViewCurrent, Validated, Settled, Joined
<1>3. CASE CanMove(state, to)
  <2>1. /\ pc[c] = "idle" /\ pc' = [pc EXCEPT ![c] = "checked"]
        /\ want' = [want EXCEPT ![c] = to] /\ kind' = [kind EXCEPT ![c] = k]
        /\ result' = [result EXCEPT ![c] = "none"]
        /\ UNCHANGED <<state, lastError, unseen, view, transport, kindless>>
    BY <1>1, <1>3 DEF Check
  <2>2. ConnectionTypeOK'
    BY <2>1 DEF ConnectionInv, ConnectionTypeOK
  <2>3. ViewCurrent' /\ Joined'
    BY <2>1 DEF ConnectionInv, ViewCurrent, Joined
  <2>4. Validated' /\ Settled'
    BY <1>3, <2>1 DEF ConnectionInv, ConnectionTypeOK, CanMove, Validated, Settled
  <2> QED
    BY <2>2, <2>3, <2>4 DEF ConnectionInv
<1> QED
  BY <1>2, <1>3

\* Recording settles the error before the state follows.
LEMMA RecordKept ==
  ASSUME ConnectionInv, OneAtATime, NEW c \in Callers, Record(c)
  PROVE  ConnectionInv'
<1>1. /\ pc[c] = "checked" /\ pc' = [pc EXCEPT ![c] = "recorded"]
      /\ lastError' = IF want[c] # "Errored" THEN NoError
                      ELSE IF kind[c] # NoError THEN kind[c] ELSE lastError
      /\ kindless' = (want[c] = "Errored" /\ kind[c] = NoError)
      /\ UNCHANGED <<state, want, kind, result, unseen, view, transport>>
  BY DEF Record, published
<1>2. ConnectionTypeOK'
  BY <1>1 DEF ConnectionInv, ConnectionTypeOK
<1>3. ViewCurrent' /\ Joined'
  BY <1>1 DEF ConnectionInv, ViewCurrent, Joined
<1>4. \A d \in Callers : pc[d] # "idle" => d = c
  BY <1>1 DEF OneAtATime
<1>5. Validated' /\ Settled'
  BY <1>1, <1>4 DEF ConnectionInv, ConnectionTypeOK, Validated, Settled
<1> QED
  BY <1>2, <1>3, <1>5 DEF ConnectionInv

LEMMA PublishKeeps ==
  ASSUME ConnectionInv, OneAtATime, NEW c \in Callers, Publish(c)
  PROVE  ConnectionInv'
<1>1. /\ pc[c] = "recorded" /\ pc' = [pc EXCEPT ![c] = "idle"]
      /\ state' = want[c] /\ unseen' = {s \in Subscribers : view[s] # "none"}
      /\ result' = [result EXCEPT ![c] = "ok"]
      /\ UNCHANGED <<lastError, want, kind, view, kindless>>
  BY DEF Publish, Notified
<1>2. transport' \in {"none", "wifi", "usbc"} /\ Joined'
  <2>1. state \in States /\ want[c] \in Moves(state) /\ transport \in {"none", "wifi", "usbc"}
    BY <1>1 DEF ConnectionInv, ConnectionTypeOK, Validated
  <2>2. CASE want[c] \in Footage
    <3>1. transport' = transport
      BY <2>2 DEF Publish, Footage
    <3> QED
      BY <2>1, <2>2, <3>1, MovesRight DEF ConnectionInv, Joined
  <2>3. CASE want[c] \notin Footage
    <3>1. transport' = CASE want[c] = "WifiConnected" -> "wifi"
                         [] want[c] = "UsbcConnected" -> "usbc" [] OTHER -> "none"
      BY <2>3 DEF Publish, Footage
    <3> QED
      BY <1>1, <2>3, <3>1 DEF Joined
  <2> QED
    BY <2>2, <2>3
<1>3. ConnectionTypeOK' /\ ViewCurrent'
  BY <1>1, <1>2 DEF ConnectionInv, ConnectionTypeOK, ViewCurrent
<1>4. \A d \in Callers : pc'[d] = "idle"
  BY <1>1 DEF OneAtATime, ConnectionInv, ConnectionTypeOK
<1>5. Validated' /\ Settled'
  BY <1>1, <1>4 DEF ConnectionInv, Validated, Settled
<1> QED
  BY <1>2, <1>3, <1>5 DEF ConnectionInv

LEMMA OthersKeep ==
  ASSUME ConnectionInv,
         \/ TakeLastError
         \/ \E s \in Subscribers : Subscribe(s) \/ Observe(s)
         \/ UNCHANGED connectionVars
  PROVE  ConnectionInv'
<1> USE DEF published, history
<1>1. CASE TakeLastError
  BY <1>1 DEF TakeLastError, ConnectionInv, ConnectionTypeOK, ViewCurrent, Validated, Settled, Joined
<1>2. ASSUME NEW s \in Subscribers, Subscribe(s) \/ Observe(s)
      PROVE  ConnectionInv'
  <2>1. /\ view' = [view EXCEPT ![s] = state] /\ unseen' \subseteq unseen /\ unseen \ {s} \subseteq unseen'
        /\ UNCHANGED <<state, lastError, pc, want, kind, result, kindless, transport>>
    BY <1>2 DEF Subscribe, Observe
  <2> QED
    BY <2>1 DEF ConnectionInv, ConnectionTypeOK, ViewCurrent, Validated, Settled, Joined
<1>3. CASE UNCHANGED connectionVars
  BY <1>3 DEF connectionVars, ConnectionInv, ConnectionTypeOK, ViewCurrent, Validated, Settled, Joined
<1> QED
  BY <1>1, <1>2, <1>3

LEMMA ConnectionStep ==
  ASSUME ConnectionInv, OneAtATime, OneAtATime', [ConnectionNext]_connectionVars
  PROVE  ConnectionInv'
BY CallKeeps, RecordKept, PublishKeeps, OthersKeep DEF ConnectionNext

\* Between the calls the error is the one of the state; a call under way was
\* validated against the state that is still published, and the camera is joined
\* before anything is recorded (transition, transition_to_errored).
THEOREM ConnectionInvariant == ConnectionSpec /\ []OneAtATime => []ConnectionInv
BY ConnectionStarts, ConnectionStep, PTL DEF ConnectionSpec

\* As long as transitions do not overlap, what others see is right at every
\* point of each: the kind of an error goes with the state, and a receiver with
\* nothing unseen shows the current one.
THEOREM SeenStaysRight == ConnectionSpec /\ []OneAtATime => []SeenRight
<1>1. ConnectionInv => SeenRight
  BY DEF ConnectionInv, ConnectionTypeOK, Validated, Settled, SeenRight, ErrorKindKept, Going
<1> QED
  BY <1>1, ConnectionInvariant, PTL

\* As long as transitions do not overlap, footage is recorded and transferred
\* over a transport that was joined since BLE came up (allowed_transitions).
THEOREM TransportStaysUp == ConnectionSpec /\ []OneAtATime => []TransportUp
<1>1. ConnectionInv => TransportUp
  BY DEF ConnectionInv, Joined, Footage, TransportUp
<1> QED
  BY <1>1, ConnectionInvariant, PTL

\* Receivers are never left with a stale state, however the transitions overlap
\* (send_replace, subscribe).
THEOREM ViewsStayCurrent == ConnectionSpec => []ViewCurrent
<1> DEFINE Views == unseen \subseteq Subscribers /\ view \in [Subscribers -> States \cup {"none"}]
                    /\ state \in States /\ want \in [Callers -> States] /\ ViewCurrent
<1> USE DEF published, history
<1>1. ConnectionInit => Views
  BY DEF ConnectionInit, ViewCurrent, States
<1>2. ASSUME Views, [ConnectionNext]_connectionVars
      PROVE  Views'
  <2>1. ASSUME NEW c \in Callers, Call(c) \/ Record(c)
        PROVE  Views'
    <3>1. want' \in [Callers -> States] /\ UNCHANGED <<state, unseen, view>>
      BY <1>2, <2>1 DEF Call, Check, Refuse, Record, States
    <3> QED
      BY <1>2, <3>1 DEF ViewCurrent
  <2>2. ASSUME NEW c \in Callers, Publish(c)
        PROVE  Views'
    BY <1>2, <2>2 DEF Publish, Notified, ViewCurrent
  <2>3. ASSUME NEW s \in Subscribers, Subscribe(s) \/ Observe(s)
        PROVE  Views'
    <3>1. /\ view' = [view EXCEPT ![s] = state] /\ unseen' \subseteq unseen /\ unseen \ {s} \subseteq unseen'
          /\ UNCHANGED <<state, want>>
      BY <2>3 DEF Subscribe, Observe
    <3> QED
      BY <1>2, <3>1 DEF ViewCurrent
  <2>4. CASE TakeLastError \/ UNCHANGED connectionVars
    BY <1>2, <2>4 DEF TakeLastError, connectionVars, ViewCurrent
  <2> QED
    BY <1>2, <2>1, <2>2, <2>3, <2>4 DEF ConnectionNext
<1>3. Views => ViewCurrent
  OBVIOUS
<1> QED
  BY <1>1, <1>2, <1>3, PTL DEF ConnectionSpec
=============================================================================
