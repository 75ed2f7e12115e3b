--------------------------- MODULE SerialExecutor ---------------------------
(***************************************************************************)
(* What a camera command queue promises, apart from how it is built:       *)
(* commands are executed one at a time in the order they were accepted,    *)
(* the camera is asked only by the command being executed and never for    *)
(* one that has been answered, and a success is reported only for a        *)
(* command that reached the camera.  The camera carries out what it was    *)
(* asked at any later time, once at most.  A caller may walk away; its     *)
(* command is executed all the same.  The executor may break down for      *)
(* good, and then answers everybody with "cancelled".                      *)
(***************************************************************************)
EXTENDS Naturals, Sequences

CONSTANTS Commands, None

VARIABLES
  pending,    \* the accepted commands that have not begun, oldest first
  executing,  \* the command in execution, or None
  asked,      \* asked[c]: how often executing c sent the camera a request
  touched,    \* touched[c]: how many of them the camera carried out
  answer,     \* answer[c]: what the caller of c is told, or None
  gone,       \* the callers that stopped waiting
  broken      \* the executor will execute nothing any more

vars == <<pending, executing, asked, touched, answer, gone, broken>>

Answers == {"ok", "retryable", "fatal", "timeout", "cancelled"}

Init ==
  /\ pending = <<>>
  /\ executing = None
  /\ asked = [c \in Commands |-> 0]
  /\ touched = [c \in Commands |-> 0]
  /\ answer = [c \in Commands |-> None]
  /\ gone = {}
  /\ broken = FALSE

Accept(c) ==
  /\ ~broken
  /\ answer[c] = None /\ c \notin gone /\ c # executing
  /\ \A i \in DOMAIN pending : pending[i] # c
  /\ pending' = Append(pending, c)
  /\ UNCHANGED <<executing, asked, touched, answer, gone, broken>>

Begin ==
  /\ ~broken /\ executing = None /\ pending # <<>>
  /\ executing' = Head(pending)
  /\ pending' = Tail(pending)
  /\ UNCHANGED <<asked, touched, answer, gone, broken>>

Ask ==
  /\ executing # None
  /\ asked' = [asked EXCEPT ![executing] = @ + 1]
  /\ UNCHANGED <<pending, executing, touched, answer, gone, broken>>

Touch(c) ==
  /\ touched[c] < asked[c]
  /\ touched' = [touched EXCEPT ![c] = @ + 1]
  /\ UNCHANGED <<pending, executing, asked, answer, gone, broken>>

Finish(r) ==
  /\ executing # None
  /\ r = "ok" => touched[executing] > 0
  /\ answer' = IF executing \in gone THEN answer
                                     ELSE [answer EXCEPT ![executing] = r]
  /\ executing' = None
  /\ UNCHANGED <<pending, asked, touched, gone, broken>>

Abandon(c) ==
  /\ gone' = gone \cup {c}
  /\ answer' = [answer EXCEPT ![c] = None]
  /\ UNCHANGED <<pending, executing, asked, touched, broken>>

Break ==
  /\ broken' = TRUE /\ executing' = None /\ pending' = <<>>
  /\ UNCHANGED <<asked, touched, answer, gone>>

Cancel(c) ==
  /\ broken /\ answer[c] = None
  /\ answer' = [answer EXCEPT ![c] = "cancelled"]
  /\ UNCHANGED <<pending, executing, asked, touched, gone, broken>>

Next ==
  \/ \E c \in Commands : Accept(c) \/ Abandon(c) \/ Cancel(c) \/ Touch(c)
  \/ Begin \/ Ask \/ Break
  \/ \E r \in Answers : Finish(r)

Spec == Init /\ [][Next]_vars
=============================================================================
