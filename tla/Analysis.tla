------------------------------ MODULE Analysis -------------------------------
(***************************************************************************)
(* The computations of the machine-learning project and of the reports:    *)
(* each is given a task and says what the program computes for it.  One of *)
(* the tasks is training, whose processes share the exclusion list.        *)
(***************************************************************************)
EXTENDS CoachingNotes, ShotDetection, Evaluation, Reports, ExclusionList

CONSTANTS
  Tasks,       \* records with a kind and the inputs of that kind
  Pending      \* no result yet

\* What the program is given.
ASSUME TasksAssumption ==
  \A t \in Tasks :
    /\ t.kind = "note" => t.answers \in Seq(Answers) /\ t.retries \in Nat
    /\ t.kind = "prompt" =>
         t.named \in BOOLEAN /\ {t.features, t.history, t.goal} \subseteq Seq(Tokens)
    /\ t.kind = "detect" => t.flux \in Seq(Int) /\ t.out \subseteq DOMAIN t.flux /\ t.gap \in Nat
    /\ t.kind = "match" => t.predicted \in Seq(Int) /\ t.truth \in Seq(Int) /\ t.tolerance \in Nat \ {0}
    /\ t.kind = "conformal" => t.truth \in Seq(0..100) /\ t.coverage \in 1..99
    /\ t.kind = "coreset" =>
         t.points \in Seq(Int \X Int) /\ t.budget \in 1..Len(t.points) /\ t.first \in DOMAIN t.points
    /\ t.kind = "gate" =>
         /\ t.labels \in Seq(1..Len(t.probs[1])) \ {<<>>} /\ t.probs[1] \in Seq(0..100) \ {<<>>}
         /\ t.probs \in [DOMAIN t.labels -> [DOMAIN t.probs[1] -> 0..100]]
         /\ t.limits \in [DOMAIN GateThresholds -> Nat]
    /\ t.kind = "head" =>
         /\ t.labels \in Seq([DOMAIN t.probs[1] -> 0..1]) \ {<<>>}
         /\ t.probs \in [DOMAIN t.labels -> [DOMAIN t.probs[1] -> 0..100]]
         /\ t.limits \in [DOMAIN DiagnosticGateThresholds -> Nat]
    /\ t.kind = "progress" =>
         /\ IsFiniteSet(t.sessions) /\ t.lastN \in 1..50
         /\ \A s \in t.sessions :
              s.started \in Int /\ Len(s.shots) \in 0..Whole /\ DOMAIN s.shots = 1..Len(s.shots)
         /\ \A r, s \in t.sessions : (r.athlete = s.athlete /\ r.started = s.started) => r = s
    /\ t.kind = "federation" =>
         /\ IsFiniteSet(t.sessions) /\ IsFiniteSet(t.profiles) /\ t.today \in Int
         /\ \A s \in t.sessions : s.started \in Int
         /\ \A p, q \in t.profiles : p.user = q.user => p = q

VARIABLES task, result

vars == <<task, result, exclusionVars>>

Init == task \in Tasks /\ result = Pending /\ ExclusionInit

Finish(kind, outcome) ==
  /\ task.kind = kind /\ result = Pending
  /\ result' = outcome
  /\ UNCHANGED <<task, exclusionVars>>

WriteNote == Finish("note", Generate(task.answers, task.retries))
WritePrompt == Finish("prompt", Prompt(task.named, task.features, task.history, task.goal))
DetectShots == Finish("detect", Emit(task.flux, task.out, task.gap))
ScoreShots == Finish("match", Match(task.predicted, task.truth, task.tolerance))
AlignCameras == Finish("align", Align(task.a, task.b, task.times, task.half, task.search, task.order))
JudgeModel == Finish("gate", Gate(task.probs, task.labels, task.sets, task.metadata, {"station"}, task.limits))
JudgeHead == Finish("head", HeadGate(task.probs, task.labels, task.metadata, {"station"}, task.limits))
PredictSets ==
  Finish("conformal",
    [k \in DOMAIN task.truth |->
       PredictionSet(RemoveAt(task.truth, k), <<task.truth[k], 100 - task.truth[k]>>, task.coverage)])
ChooseSamples == Finish("coreset", Coreset(task.points, task.budget, task.first))
NameCause == Finish("primary", Primary(task.pairs))
ReportProgress ==
  Finish("progress", AthleteProgress(task.sessions, task.memberships, task.athlete, task.lastN))
ReportFederation ==
  Finish("federation",
    [overview |-> Overview(task.sessions, task.profiles, task.clubs, task.cohorts, task.today),
     clubs |-> Clubs(task.sessions, task.profiles, task.memberships, task.clubs, task.today),
     listed |-> Cohorts(task.profiles, task.cohorts),
     athletes |-> Athletes(task.memberships),
     orgs |-> [u \in Athletes(task.memberships) |-> Orgs(task.memberships, u)]])
Train == task.kind = "training" /\ ExclusionNext /\ UNCHANGED <<task, result>>

Next ==
  \/ WriteNote \/ WritePrompt \/ DetectShots \/ ScoreShots \/ AlignCameras \/ JudgeModel \/ JudgeHead
  \/ PredictSets \/ ChooseSamples \/ NameCause \/ ReportProgress \/ ReportFederation \/ Train

Spec == Init /\ [][Next]_vars
-----------------------------------------------------------------------------
Done(kind) == task.kind = kind /\ result # Pending

\* Whatever the host answers, the note is the degraded one, or one that the verifier
\* accepts and that is about this session; and it is degraded only if no attempt
\* before the first failure of the host was good (llm/generate.py).
NotesGrounded ==
  Done("note") =>
    LET Good(k) == task.answers[k].says = "note" /\ Verified(Stamped(task.answers[k].note))
        reached == {k \in 1..Min({task.retries + 1, Len(task.answers)}) :
                      \A m \in 1..k : task.answers[m].says # "nothing"}
    IN  /\ result.session = Ledger.session /\ result.degraded = ~result.passed
        /\ result.passed => Verified(result)
        /\ result.degraded <=> \A k \in reached : ~Good(k)

\* What the athlete writes reaches the host without an address or a number that the
\* patterns know, with the pseudonym wherever the name of the record stood, and
\* neither it nor an earlier note forges a tag of the prompt (llm/pii.py, llm/prompt.py).
GoalCleaned ==
  Done("prompt") =>
    /\ DOMAIN result.goal = DOMAIN task.goal
    /\ \A k \in DOMAIN task.goal :
         /\ result.goal[k] \notin {"email", "phone"}
         /\ task.named => result.goal[k] # "name"
         /\ (task.named /\ task.goal[k] = "name") => result.goal[k] = "pseudonym"
    /\ "tag" \notin ToSet(result.goal) \cup ToSet(result.history)

\* What llm/pii.py:6 says: the host never reads anything personal.  It does: a name
\* that the record lacks, or has in another form, stays.
LlmSeesNothingPersonal ==
  Done("prompt") =>
    (ToSet(result.features) \cup ToSet(result.history) \cup ToSet(result.goal)) \cap Personal = {}

\* Two shots are never closer than the refractory gap, and a candidate is only left
\* out for one at least as loud that is closer to it than the gap
\* (inference/audio_shot.py).  The scoring pairs each shot and each prediction at
\* most once, within the tolerance, and leaves no pair that could still be made
\* (eval/audio_detection_eval.py).
ShotsCounted ==
  /\ Done("detect") =>
       /\ \A k \in 1..Len(result) - 1 : result[k + 1] - result[k] >= task.gap
       /\ \A i \in task.out : i \notin ToSet(result) =>
            \E s \in task.out \ {i} : Dist(i, s) < task.gap /\ task.flux[s] >= task.flux[i]
  /\ Done("match") =>
       /\ \A m, n \in result : (m[1] = n[1] \/ m[2] = n[2]) => m = n
       /\ \A m \in result : Dist(task.predicted[m[1]], task.truth[m[2]]) <= task.tolerance
       /\ \A p \in DOMAIN task.predicted \ {m[1] : m \in result} :
            \A t \in DOMAIN task.truth \ {m[2] : m \in result} :
              Dist(task.predicted[p], task.truth[t]) > task.tolerance

\* When the first shot was recorded by both cameras, in a window that the filter takes,
\* the offset is the one by which the second recording was delayed, with its sign,
\* even if one of the times is of no shot (inference/audio_xcorr.py).
OffsetRecovered ==
  Done("align") =>
    (task.heard => ~result.raised /\ result.twice = 2 * task.delay /\ result.sure = task.shots)

\* A model that passes is not overconfident as a whole, and finds half of each class
\* of which there are enough samples (eval/gates.py); the head that passes is
\* as likely to name each atom as the atom is there (eval/diagnostic_eval.py).
GateHolds ==
  /\ (Done("gate") /\ result) =>
       LET n == Len(task.labels)
           hits == {k \in DOMAIN task.labels : ArgMax(task.probs[k]) = task.labels[k]}
       IN  /\ SumOver(DOMAIN task.probs, LAMBDA k : Max(ToSet(task.probs[k]))) - 100 * Cardinality(hits)
                <= task.limits.ece * n
           /\ \A c \in ToSet(task.labels) :
                Cardinality(Support(task.labels, c)) >= task.limits.support =>
                  100 * Cardinality(Support(task.labels, c) \cap hits)
                    >= task.limits.recall * Cardinality(Support(task.labels, c))
  /\ (Done("head") /\ result) =>
       \A a \in DOMAIN task.probs[1] :
         Magnitude(SumOver(DOMAIN task.probs, LAMBDA k : task.probs[k][a] - 100 * task.labels[k][a]))
           <= task.limits.ece * Len(task.labels)

\* Conformal prediction: of n + 1 samples, when each is predicted from the n others,
\* the promised share is covered, if n is large enough for the quantile to
\* exist (inference/calibration.py).
ConformalCovers ==
  Done("conformal") =>
    LET n == Len(task.truth) - 1 IN
    (n + 1) * task.coverage <= 100 * n =>
      100 * Cardinality({k \in DOMAIN result : 1 \in result[k]}) >= task.coverage * (n + 1)

\* The farthest point from the chosen ones is at most twice as far as with the best
\* choice of as many points (training/active_learning.py).
CoresetNearBest ==
  Done("coreset") =>
    LET Radius(C) == Max({Min({Apart2(task.points[i], task.points[c]) : c \in C}) : i \in DOMAIN task.points})
        best == Min({Radius(C) : C \in kSubset(task.budget, DOMAIN task.points)})
    IN  Radius(ToSet(result)) <= 4 * best

\* The progress shows as many sessions of the athlete as were asked for, or all, the
\* newest and no older, from the oldest of them to the newest, which the deltas take
\* for the current one; a rate is a share (services/longitudinal.py).
ProgressInOrder ==
  (Done("progress") /\ result.found) =>
    LET rows == result.sessions
        own == {s.started : s \in {x \in task.sessions : x.athlete = task.athlete}}
        shown == {rows[k].started : k \in DOMAIN rows}
    IN  /\ DOMAIN rows = 1..Min({task.lastN, Cardinality(own)})
        /\ \A j, k \in DOMAIN rows : j < k => rows[j].started < rows[k].started
        /\ shown \subseteq own
        /\ \A d \in own \ shown : \A e \in shown : d < e
        /\ \A k \in DOMAIN rows : \A a \in DOMAIN rows[k].rates : rows[k].rates[a] \in 1..Whole

\* Who does not train cannot raise the median of a cohort, and each club counts
\* athletes that the federation counts (routers/federation.py).
ReportsHonest ==
  Done("federation") =>
    /\ \A c \in task.cohorts :
         LET own == {p.user : p \in {q \in task.profiles : q.cohort = c}}
             trained == {s.athlete : s \in {x \in task.sessions : x.started >= task.today - ActiveWindow}}
         IN  2 * Cardinality(own \ trained) > Cardinality(own) => result.overview.cohorts[c].median = 0
    /\ \A c \in task.clubs : result.clubs[c].athletes <= result.overview.athletes

\* A batch holds no sample that was on the list when its process last read the file
\* (data/exclusion_list.py, data/provenance.py).
ExcludedStaysOut ==
  [][\A t \in Trainers : batch'[t] # batch[t] =>
       batch'[t] \cap ToSet(SubSeq(lines', 1, toldAt'[t])) = {}]_vars
=============================================================================
