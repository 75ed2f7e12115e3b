---------------------------- MODULE CommandQueue ----------------------------
(***************************************************************************)
(* CommandQueue of the camera core: callers submit commands, the queue is  *)
(* a bounded channel, and one worker task executes them under a watchdog,  *)
(* retrying those submitted with submit_with_retry.                        *)
(*                                                                         *)
(* Every await of the code is a point where other actors may step, so an   *)
(* action runs from one await to the next.  A caller may drop its submit   *)
(* future at an await.  Time is abstracted: the watchdog may fire at any   *)
(* moment of an execution, the backoff takes any time; a command's work is *)
(* what the camera is asked (an attempt) and what comes back.  What was    *)
(* asked stays asked: the watchdog drops the worker's future, and the      *)
(* camera may carry the request out later, or never.  A command closure    *)
(* that panics takes the worker task down with it.                         *)
(***************************************************************************)
EXTENDS Naturals, Sequences, FiniteSets

CONSTANTS
  Commands,    \* the submit calls of a run, each made at most once
  Retried,     \* those made with submit_with_retry
  Capacity,    \* config.queue_capacity
  MaxAttempts, \* config.max_attempts
  None         \* no command, no reply

ASSUME CommandQueueAssumption ==
  /\ IsFiniteSet(Commands)
  /\ Retried \subseteq Commands
  /\ Capacity \in Nat \ {0}      \* mpsc::channel panics on 0
  /\ MaxAttempts \in Nat
  /\ None \notin Commands
  /\ None \notin {"ok", "retryable", "fatal", "timeout", "cancelled"}

VARIABLES
  call,      \* call[c]: where the submit call stands
  ticket,    \* ticket[c]: its rank among the callers waiting to send, or 0
  accepted,  \* the counter of the same name
  queue,     \* the channel's buffer, oldest first
  worker,    \* where the worker task stands
  cur,       \* the command it took from the channel, or None
  permits,   \* free permits of the in_flight semaphore
  tries,     \* tries[c]: attempts begun, that is calls of the closure
  applied,   \* applied[c]: the attempts the camera carried out
  outcome,   \* the worker's local variable result
  reply,     \* reply[c]: the oneshot's value, or what submit returned
  open       \* the CommandQueue has not been dropped

vars == <<call, ticket, accepted, queue, worker, cur, permits, tries, applied,
          outcome, reply, open>>
callerVars == <<call, ticket, accepted, open>>
workVars == <<tries, applied>>

Errors == {"retryable", "fatal"}
Results == {"ok", "timeout", "cancelled"} \cup Errors
CallStates == {"idle", "sending", "awaiting", "returned", "dropped"}
WorkerStates ==
  {"recv", "acquire", "attempt", "backoff", "finish", "release", "stopped"}

\* How often the closure of c may run: submit runs it once.
Limit(c) == IF c \in Retried THEN MaxAttempts ELSE 1

-----------------------------------------------------------------------------
(* Faults: plausible mistakes in the code, each one the mutated form of the  *)
(* definition its comment names.                                            *)

\* Enqueue: the overflow policy of the header, without telling the victim.
EnqueueDropsOldest(c) ==
  /\ call[c] = "sending" /\ worker # "stopped"
  /\ queue' = Append(IF Len(queue) = Capacity THEN Tail(queue) ELSE queue, c)
  /\ call' = [call EXCEPT ![c] = "awaiting"]
  /\ ticket' = [ticket EXCEPT ![c] = 0]
  /\ UNCHANGED <<accepted, worker, cur, permits, tries, applied, outcome,
                 reply, open>>

\* Recv: the newest command first.
RecvNewest ==
  /\ worker = "recv" /\ queue # <<>>
  /\ cur' = queue[Len(queue)]
  /\ queue' = SubSeq(queue, 1, Len(queue) - 1)
  /\ worker' = "acquire"
  /\ UNCHANGED <<callerVars, workVars, permits, outcome, reply>>

\* WatchdogFires: the caller is told, the work was spawned and runs on.
WatchdogFiresDetached ==
  /\ worker \in {"attempt", "backoff"}
  /\ reply' = IF call[cur] = "awaiting" THEN [reply EXCEPT ![cur] = "timeout"]
                                        ELSE reply
  /\ UNCHANGED <<callerVars, workVars, worker, outcome, queue, cur, permits>>

\* WatchdogFires: no watchdog.
WatchdogNeverFires == FALSE /\ UNCHANGED vars
-----------------------------------------------------------------------------
\* The channel grants its free slots to the waiting senders in order; the ones
\* granted may complete in any order.
Granted(c) ==
  LET ahead == {d \in Commands : call[d] = "sending" /\ ticket[d] < ticket[c]}
  IN  Cardinality(ahead) < Capacity - Len(queue)

Init ==
  /\ call = [c \in Commands |-> "idle"]
  /\ ticket = [c \in Commands |-> 0]
  /\ accepted = 0
  /\ queue = <<>>
  /\ worker = "recv"
  /\ cur = None
  /\ permits = 1
  /\ tries = [c \in Commands |-> 0]
  /\ applied = [c \in Commands |-> {}]
  /\ outcome = None
  /\ reply = [c \in Commands |-> None]
  /\ open = TRUE
-----------------------------------------------------------------------------
(* The caller of submit.                                                   *)

Submit(c) ==
  /\ open /\ call[c] = "idle"
  /\ accepted' = accepted + 1
  /\ ticket' = [ticket EXCEPT ![c] = accepted + 1]
  /\ call' = [call EXCEPT ![c] = "sending"]
  /\ UNCHANGED <<queue, worker, cur, permits, tries, applied, outcome, reply, open>>

Enqueue(c) ==
  /\ call[c] = "sending" /\ worker # "stopped"
  /\ Granted(c)
  /\ queue' = Append(queue, c)
  /\ call' = [call EXCEPT ![c] = "awaiting"]
  /\ ticket' = [ticket EXCEPT ![c] = 0]
  /\ UNCHANGED <<accepted, worker, cur, permits, tries, applied, outcome,
                 reply, open>>

\* The receiver is gone: send fails and submit maps the error to Cancelled.
SendClosed(c) ==
  /\ call[c] = "sending" /\ worker = "stopped"
  /\ call' = [call EXCEPT ![c] = "returned"]
  /\ reply' = [reply EXCEPT ![c] = "cancelled"]
  /\ ticket' = [ticket EXCEPT ![c] = 0]
  /\ UNCHANGED <<accepted, queue, worker, cur, permits, tries, applied,
                 outcome, open>>

\* submit returns the reply; a reply sender dropped unanswered is Cancelled.
Return(c) ==
  /\ call[c] = "awaiting"
  /\ reply[c] # None \/ worker = "stopped"
  /\ call' = [call EXCEPT ![c] = "returned"]
  /\ reply' = [reply EXCEPT ![c] = IF @ = None THEN "cancelled" ELSE @]
  /\ UNCHANGED <<ticket, accepted, queue, worker, cur, permits, tries, applied,
                 outcome, open>>

\* The caller drops the submit future; a command already queued stays queued.
DropCall(c) ==
  /\ call[c] \in {"sending", "awaiting"}
  /\ call' = [call EXCEPT ![c] = "dropped"]
  /\ reply' = [reply EXCEPT ![c] = None]
  /\ ticket' = [ticket EXCEPT ![c] = 0]
  /\ UNCHANGED <<accepted, queue, worker, cur, permits, tries, applied,
                 outcome, open>>

\* The last handle goes: no submit borrows it any more.
DropQueue ==
  /\ open /\ \A c \in Commands : call[c] \notin {"sending", "awaiting"}
  /\ open' = FALSE
  /\ UNCHANGED <<call, ticket, accepted, queue, worker, cur, permits, tries,
                 applied, outcome, reply>>
-----------------------------------------------------------------------------
(* The worker task.                                                        *)

Recv ==
  /\ worker = "recv" /\ queue # <<>>
  /\ cur' = Head(queue)
  /\ queue' = Tail(queue)
  /\ worker' = "acquire"
  /\ UNCHANGED <<callerVars, workVars, permits, outcome, reply>>

\* All senders are gone and the buffer is drained: the task ends.
RecvClosed ==
  /\ worker = "recv" /\ queue = <<>> /\ ~open
  /\ worker' = "stopped"
  /\ UNCHANGED <<callerVars, workVars, queue, cur, permits, outcome, reply>>

\* Take the permit and start the work; a retry budget of zero makes no attempt.
Acquire ==
  /\ worker = "acquire" /\ permits = 1
  /\ permits' = permits - 1
  /\ IF Limit(cur) = 0
     THEN worker' = "finish" /\ outcome' = "cancelled" /\ UNCHANGED tries
     ELSE worker' = "attempt" /\ UNCHANGED outcome
          /\ tries' = [tries EXCEPT ![cur] = @ + 1]
  /\ UNCHANGED <<callerVars, queue, cur, applied, reply>>

\* The camera carries out attempt n of c, also one the worker has given up on.
Apply(c, n) ==
  /\ n \in 1..tries[c] \ applied[c]
  /\ applied' = [applied EXCEPT ![c] = @ \cup {n}]
  /\ UNCHANGED <<callerVars, queue, worker, cur, permits, tries, outcome, reply>>

\* Retry on retryable errors while the budget lasts; all others short-circuit.
MayRetry(e) == cur \in Retried /\ e = "retryable" /\ tries[cur] < MaxAttempts

EndWork(o) ==
  /\ worker' = "finish" /\ outcome' = o
  /\ UNCHANGED <<callerVars, workVars, queue, cur, permits, reply>>

\* The camera acknowledges an attempt it carried out.
AttemptOk ==
  /\ worker = "attempt" /\ tries[cur] \in applied[cur]
  /\ EndWork("ok")

\* An attempt fails, whether or not the camera carried it out.
AttemptFails(e) ==
  /\ worker = "attempt"
  /\ IF MayRetry(e)
     THEN worker' = "backoff"
          /\ UNCHANGED <<callerVars, workVars, queue, cur, permits, outcome, reply>>
     ELSE EndWork(e)

BackoffEnds ==
  /\ worker = "backoff"
  /\ worker' = "attempt"
  /\ tries' = [tries EXCEPT ![cur] = @ + 1]
  /\ UNCHANGED <<callerVars, applied, queue, cur, permits, outcome, reply>>

\* timeout(): the whole retry sequence is dropped where it stands.
WatchdogFires ==
  /\ worker \in {"attempt", "backoff"}
  /\ EndWork("timeout")

\* A panic in the closure unwinds the worker: permit, receiver and every
\* queued reply sender are dropped.
WorkPanics ==
  /\ worker = "attempt"
  /\ worker' = "stopped" /\ permits' = permits + 1 /\ queue' = <<>> /\ cur' = None
  /\ UNCHANGED <<callerVars, workVars, outcome, reply>>

Reply ==
  /\ worker = "finish"
  /\ reply' = IF call[cur] = "awaiting" THEN [reply EXCEPT ![cur] = outcome]
                                        ELSE reply
  /\ worker' = "release"
  /\ UNCHANGED <<callerVars, workVars, queue, cur, permits, outcome>>

Release ==
  /\ worker = "release"
  /\ permits' = permits + 1 /\ cur' = None /\ outcome' = None
  /\ worker' = "recv"
  /\ UNCHANGED <<callerVars, workVars, queue, reply>>

\* What the worker does of itself; the rest is up to the camera and the closure.
WorkerStep ==
  \/ Recv \/ RecvClosed \/ Acquire \/ BackoffEnds \/ WatchdogFires \/ Reply \/ Release

CameraAnswers == AttemptOk \/ WorkPanics \/ \E e \in Errors : AttemptFails(e)

CallerStep(c) == Enqueue(c) \/ SendClosed(c) \/ Return(c)

Next ==
  \/ \E c \in Commands : Submit(c) \/ CallerStep(c) \/ DropCall(c)
  \/ DropQueue
  \/ WorkerStep
  \/ CameraAnswers
  \/ \E c \in Commands : \E n \in 1..tries[c] : Apply(c, n)

Spec == Init /\ [][Next]_vars

\* The runtime polls the worker and woken callers, and the watchdog's timer
\* bounds every execution, whatever the camera does.
FairSpec ==
  /\ Spec
  /\ WF_vars(WorkerStep)
  /\ \A c \in Commands : WF_vars(CallerStep(c))
-----------------------------------------------------------------------------
TypeOK ==
  /\ call \in [Commands -> CallStates]
  /\ ticket \in [Commands -> Nat]
  /\ accepted \in Nat
  /\ queue \in Seq(Commands)
  /\ worker \in WorkerStates
  /\ cur \in Commands \cup {None}
  /\ permits \in {0, 1}
  /\ tries \in [Commands -> Nat]
  /\ applied \in [Commands -> SUBSET Nat]
  /\ outcome \in Results \cup {None}
  /\ reply \in [Commands -> Results \cup {None}]
  /\ open \in BOOLEAN

Queued(c) == \E i \in 1..Len(queue) : queue[i] = c
Executing(c) == cur = c /\ worker \in WorkerStates \ {"release", "stopped"}

\* Nobody waits in vain: while the worker lives, the command of a caller that
\* awaits its reply is queued, is being executed, or has its reply ready, and
\* is in only one of these places.  (submit, worker: the reply sender travels
\* with the command and is used exactly once.)
AnswerOwed ==
  worker # "stopped" =>
    \A c \in Commands : call[c] = "awaiting" =>
      /\ Queued(c) \/ Executing(c) \/ reply[c] # None
      /\ ~(Queued(c) /\ Executing(c))
      /\ reply[c] # None => ~Queued(c) /\ ~Executing(c)

\* The queue never holds more than its capacity, nor one command twice.
QueueBounded ==
  /\ Len(queue) <= Capacity
  /\ \A i, j \in 1..Len(queue) : queue[i] = queue[j] => i = j

\* The inductive strengthening of the invariants of this module, in parts: where
\* a command is while it waits in the queue, while the worker has it, before it
\* is sent and once it is answered.
QueuedFresh ==
  \A c \in Commands : Queued(c) =>
    /\ call[c] \in {"awaiting", "dropped"}
    /\ reply[c] = None /\ c # cur /\ tries[c] = 0
UnsentFresh ==
  \A c \in Commands : call[c] \in {"idle", "sending"} =>
    reply[c] = None /\ c # cur /\ tries[c] = 0
WorkerHolds ==
  /\ cur = None <=> worker \in {"recv", "stopped"}
  /\ permits = IF worker \in {"recv", "acquire", "stopped"} THEN 1 ELSE 0
  /\ worker \in {"acquire", "attempt", "backoff", "finish"} =>
       reply[cur] = None /\ call[cur] \in {"awaiting", "dropped"}
  /\ worker = "stopped" => queue = <<>>
  /\ worker = "release" /\ call[cur] = "awaiting" => reply[cur] # None
WorkProgress ==
  /\ worker = "acquire" => tries[cur] = 0
  /\ worker = "attempt" => tries[cur] > 0
  /\ worker = "backoff" => cur \in Retried /\ tries[cur] < MaxAttempts
  /\ worker = "finish" => outcome # None /\
                          (outcome = "ok" => tries[cur] \in applied[cur])
  /\ \A c \in Commands : reply[c] # None => call[c] \in {"awaiting", "returned"}

\* A caller told Ok can rely on it: its last attempt reached the camera, even
\* after earlier attempts failed.
OkMeansApplied ==
  \A c \in Commands : reply[c] = "ok" => tries[c] \in applied[c]

\* The retry budget covers one submit call from end to end, and a camera
\* action is never attempted outside it.
AttemptsBounded ==
  \A c \in Commands : tries[c] <= Limit(c) /\ applied[c] \subseteq 1..tries[c]

CommandQueueInv ==
  /\ TypeOK /\ AnswerOwed /\ QueueBounded /\ OkMeansApplied /\ AttemptsBounded
  /\ QueuedFresh /\ UnsentFresh /\ WorkerHolds /\ WorkProgress

\* Once its caller has been told the outcome, the camera is not asked again for a
\* command: what still reaches it late is an attempt begun before the answer, and
\* a command cancelled before its first attempt never does.  (A further attempt
\* of a timed-out start would record behind the user's back.)
NothingAskedAfterReply ==
  [][\A c \in Commands : reply[c] # None =>
       tries'[c] = tries[c] /\ applied'[c] \subseteq 1..tries[c]]_vars

\* docs/camera-integration-spec.md 5.2: with the watchdog and a single command in
\* flight, two commands never overlap in the camera.  The code breaks it: a
\* request the watchdog has dropped may be carried out during the next one.
NoOverlap ==
  [][\A c \in Commands : worker = "attempt" /\ c # cur => applied'[c] = applied[c]]_vars

\* Every submit call that is not dropped returns, and the worker takes out what
\* was queued, also when nobody waits for it or the queue has been dropped.
EverySubmitReturns ==
  \A c \in Commands :
    call[c] = "sending" \/ Queued(c) ~> call[c] \in {"returned", "dropped"} /\ ~Queued(c)

\* The queue is a serial executor: one command at a time, in the order queued.
Executor ==
  INSTANCE SerialExecutor WITH
    pending <- queue,
    executing <- IF worker \in {"acquire", "attempt", "backoff", "finish"}
                 THEN cur ELSE None,
    asked <- tries,
    touched <- [c \in Commands |-> Cardinality(applied[c])],
    answer <- reply,
    gone <- {c \in Commands : call[c] = "dropped"},
    broken <- worker = "stopped"
ImplementsSerialExecutor == Executor!Spec
=============================================================================
