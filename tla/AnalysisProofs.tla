--------------------------- MODULE AnalysisProofs ---------------------------
(* What the computations of Analysis promise holds for inputs of every size, *)
(* and the exclusion list keeps its promise to any number of processes.      *)
EXTENDS Analysis, FiniteSetTheorems, WellFoundedInduction, TLAPS

-----------------------------------------------------------------------------
(* Induction over the naturals, as a fact about sets, and what it gives.     *)

\* A set of naturals that is not empty has a least element.
LEMMA LeastNat ==
  ASSUME NEW S \in SUBSET Nat, S # {}
  PROVE  \E m \in S : \A k \in S : m <= k
<1>1. PICK m \in S : \A k \in S : ~(<<k, m>> \in OpToRel(<, Nat))
  BY NatLessThanWellFounded, WFMin
<1>2. \A k \in S : ~(k < m)
  BY <1>1 DEF OpToRel
<1> QED
  BY <1>2

\* Induction.
LEMMA EveryNat ==
  ASSUME NEW S \in SUBSET Nat, 0 \in S, \A n \in S : n + 1 \in S
  PROVE  S = Nat
<1>1. ASSUME Nat \ S # {}
      PROVE  FALSE
  <2>1. PICK m \in Nat \ S : \A k \in Nat \ S : m <= k
    BY <1>1, LeastNat
  <2>2. m # 0 /\ m - 1 \in Nat
    BY <2>1
  <2>3. m - 1 \in S
    BY <2>1, <2>2
  <2> QED
    BY <2>1, <2>2, <2>3
<1> QED
  BY <1>1

\* A finite set of integers has a largest and a smallest element.
LEMMA FiniteHasEnds ==
  ASSUME NEW S \in SUBSET Int, IsFiniteSet(S), S # {}
  PROVE  \E x, z \in S : \A y \in S : z <= y /\ y <= x
<1> DEFINE HasEnds(A) == \E x, z \in A : \A y \in A : z <= y /\ y <= x
           N == {n \in Nat : \A A \in SUBSET Int : IsFiniteSet(A) /\ Cardinality(A) = n /\ A # {} => HasEnds(A)}
<1>1. 0 \in N
  BY FS_EmptySet
<1>2. ASSUME NEW n \in N
      PROVE  n + 1 \in N
  <2>1. ASSUME NEW A \in SUBSET Int, IsFiniteSet(A), Cardinality(A) = n + 1, A # {}
        PROVE  HasEnds(A)
    <3>1. PICK a \in A : TRUE
      BY <2>1
    <3> DEFINE B == A \ {a}
    <3>2. IsFiniteSet(A \ {a}) /\ Cardinality(A \ {a}) = Cardinality(A) - 1
      BY <2>1, <3>1, FS_RemoveElement
    <3>3. IsFiniteSet(B) /\ Cardinality(B) = n /\ B \in SUBSET Int /\ n \in Nat
      BY <2>1, <3>2
    <3>4. CASE B = {}
      BY <3>1, <3>4
    <3>5. CASE B # {}
      <4>1. HasEnds(B)
        BY <1>2, <3>3, <3>5
      <4>2. PICK x, z \in B : \A y \in B : z <= y /\ y <= x
        BY <4>1
      <4>3. a \in Int /\ x \in Int /\ z \in Int
        BY <2>1
      <4>4. PICK u \in A : u = IF a <= x THEN x ELSE a
        OBVIOUS
      <4>5. PICK v \in A : v = IF z <= a THEN z ELSE a
        OBVIOUS
      <4>6. \A y \in A : v <= y /\ y <= u
        BY <2>1, <4>2, <4>3, <4>4, <4>5
      <4> QED
        BY <4>6
    <3> QED
      BY <3>4, <3>5
  <2> QED
    BY <2>1
<1> HIDE DEF N
<1>3. N = Nat
  BY <1>1, <1>2, EveryNat DEF N
<1> QED
  BY <1>3, FS_CardinalityType DEF N

LEMMA MaxIs ==
  ASSUME NEW S \in SUBSET Int, IsFiniteSet(S), S # {}
  PROVE  Max(S) \in S /\ \A y \in S : y <= Max(S)
<1>1. \E x \in S : \A y \in S : x >= y
  BY FiniteHasEnds
<1> QED
  BY <1>1 DEF Max

LEMMA MinIs ==
  ASSUME NEW S \in SUBSET Int, IsFiniteSet(S), S # {}
  PROVE  Min(S) \in S /\ \A y \in S : Min(S) <= y
<1>1. \E x \in S : \A y \in S : x <= y
  BY FiniteHasEnds
<1> QED
  BY <1>1 DEF Min


\* A recursion over a finite set that takes out one element after the other has a
\* value: what a fold of the community modules chooses exists.
Folds(g, S, base, step, pick) ==
  \A s \in SUBSET S : g[s] = IF s = {} THEN base ELSE step[<<g[s \ {pick[s]}], pick[s]>>]

LEMMA FoldExists ==
  ASSUME NEW S, IsFiniteSet(S), NEW T, NEW base \in T, NEW step \in [T \X S -> T],
         NEW pick, \A s \in SUBSET S : s # {} => pick[s] \in s
  PROVE  \E g \in [SUBSET S -> T] : Folds(g, S, base, step, pick)
<1> DEFINE Right(g, n) ==
             \A s \in SUBSET S : Cardinality(s) <= n =>
               g[s] = IF s = {} THEN base ELSE step[<<g[s \ {pick[s]}], pick[s]>>]
           N == {n \in Nat : \E g \in [SUBSET S -> T] : Right(g, n)}
<1>0. \A s \in SUBSET S : /\ IsFiniteSet(s) /\ Cardinality(s) \in Nat
                          /\ Cardinality(s) = 0 <=> s = {}
                          /\ s # {} => /\ s \ {pick[s]} \in SUBSET S /\ pick[s] \in S
                                       /\ Cardinality(s \ {pick[s]}) = Cardinality(s) - 1
  <2>1. SUFFICES ASSUME NEW s \in SUBSET S
                 PROVE  /\ IsFiniteSet(s) /\ Cardinality(s) \in Nat
                        /\ Cardinality(s) = 0 <=> s = {}
                        /\ s # {} => /\ s \ {pick[s]} \in SUBSET S /\ pick[s] \in S
                                     /\ Cardinality(s \ {pick[s]}) = Cardinality(s) - 1
    OBVIOUS
  <2>2. IsFiniteSet(s) /\ Cardinality(s) \in Nat
    BY FS_Subset, FS_CardinalityType
  <2>3. Cardinality(s) = 0 <=> s = {}
    BY <2>2, FS_EmptySet
  <2>4. s # {} => pick[s] \in s
    OBVIOUS
  <2>5. ASSUME s # {}
        PROVE  Cardinality(s \ {pick[s]}) = Cardinality(s) - 1
    BY <2>2, <2>4, <2>5, FS_RemoveElement
  <2> QED
    BY <2>2, <2>3, <2>4, <2>5
<1>1. 0 \in N
  <2>1. [s \in SUBSET S |-> base] \in [SUBSET S -> T]
    OBVIOUS
  <2>2. ASSUME NEW s \in SUBSET S, Cardinality(s) <= 0
        PROVE  s = {}
    <3>1. Cardinality(s) \in Nat /\ (Cardinality(s) = 0 <=> s = {})
      BY <1>0
    <3> QED
      BY <2>2, <3>1
  <2>3. Right([s \in SUBSET S |-> base], 0)
    BY <2>2
  <2> QED
    BY <2>1, <2>3
<1>2. ASSUME NEW n \in N
      PROVE  n + 1 \in N
  <2>0. n \in Nat
    OBVIOUS
  <2>1. PICK g \in [SUBSET S -> T] : Right(g, n)
    OBVIOUS
  <2> DEFINE h == [s \in SUBSET S |->
                     IF s = {} THEN base
                     ELSE IF Cardinality(s) <= n THEN g[s] ELSE step[<<g[s \ {pick[s]}], pick[s]>>]]
  <2>2. h \in [SUBSET S -> T]
    BY <1>0
  <2>3. ASSUME NEW s \in SUBSET S, Cardinality(s) <= n
        PROVE  h[s] = g[s]
    BY <1>0, <2>1, <2>3
  <2>4. ASSUME NEW s \in SUBSET S, Cardinality(s) <= n + 1, s # {}
        PROVE  h[s] = step[<<h[s \ {pick[s]}], pick[s]>>]
    <3>1. Cardinality(s \ {pick[s]}) <= n /\ s \ {pick[s]} \in SUBSET S
      <4>1. Cardinality(s) \in Nat /\ Cardinality(s \ {pick[s]}) = Cardinality(s) - 1
        BY <1>0, <2>4
      <4> QED
        BY <2>0, <2>4, <4>1
    <3>2. h[s \ {pick[s]}] = g[s \ {pick[s]}]
      BY <2>3, <3>1
    <3>3. h[s] = step[<<g[s \ {pick[s]}], pick[s]>>]
      BY <2>1, <2>4
    <3> QED
      BY <3>2, <3>3
  <2>5. Right(h, n + 1)
    BY <2>4
  <2> HIDE DEF h
  <2>6. n + 1 \in Nat
    OBVIOUS
  <2> QED
    BY <2>2, <2>5, <2>6
<1>a. N \in SUBSET Nat
  OBVIOUS
<1> HIDE DEF N
<1>3. N = Nat
  BY <1>1, <1>2, <1>a, EveryNat
<1>4. Cardinality(S) \in Nat
  BY FS_CardinalityType
<1>5. PICK g \in [SUBSET S -> T] : Right(g, Cardinality(S))
  BY <1>3, <1>4 DEF N
<1>6. \A s \in SUBSET S : Cardinality(s) <= Cardinality(S)
  BY FS_Subset
<1> QED
  BY <1>5, <1>6 DEF Folds

LEMMA FunctionIsSeq ==
  ASSUME NEW S, NEW n \in Nat, NEW f, f \in [1..n -> S]
  PROVE  f \in Seq(S) /\ Len(f) = n
OBVIOUS

LEMMA ConcatIs ==
  ASSUME NEW S, NEW s \in Seq(S), NEW t \in Seq(S)
  PROVE  /\ s \o t \in Seq(S) /\ Len(s \o t) = Len(s) + Len(t)
         /\ \A k \in 1..Len(s) : (s \o t)[k] = s[k]
         /\ \A k \in Len(s) + 1..Len(s) + Len(t) : (s \o t)[k] = t[k - Len(s)]
OBVIOUS

\* The sets that a fold over a sequence goes through.
LEMMA PrefixSets ==
  ASSUME NEW n \in Nat, NEW i \in 1..n
  PROVE  /\ 1..i \in SUBSET (1..n) /\ 1..i # {} /\ Max(1..i) = i /\ (1..i) \ {Max(1..i)} = 1..i - 1
<1>1. 1..i \in SUBSET (1..n) /\ i \in 1..i /\ \A y \in 1..i : i >= y
  OBVIOUS
<1>2. \A x \in 1..i : (\A y \in 1..i : x >= y) => x = i
  BY <1>1
<1>3. Max(1..i) = i
  BY <1>1, <1>2 DEF Max
<1> QED
  BY <1>1, <1>3

LEMMA PickMax ==
  ASSUME NEW n \in Nat, NEW s \in SUBSET (1..n), s # {}
  PROVE  Max(s) \in s
<1>1. IsFiniteSet(1..n) /\ s \in SUBSET Int
  BY FS_Interval
<1>2. IsFiniteSet(s)
  BY <1>1, FS_Subset
<1> QED
  BY <1>1, <1>2, MaxIs

LEMMA AppendIs ==
  ASSUME NEW S, NEW s \in Seq(S), NEW x \in S
  PROVE  /\ Append(s, x) \in Seq(S) /\ Len(Append(s, x)) = Len(s) + 1
         /\ Append(s, x)[Len(s) + 1] = x
         /\ \A k \in 1..Len(s) : Append(s, x)[k] = s[k]
OBVIOUS

LEMMA FrontIs ==
  ASSUME NEW S, NEW s \in Seq(S), s # <<>>
  PROVE  /\ Front(s) \in Seq(S) /\ Len(Front(s)) = Len(s) - 1
         /\ \A k \in 1..Len(s) - 1 : Front(s)[k] = s[k]
<1>1. Len(s) \in Nat /\ Len(s) >= 1
  OBVIOUS
<1>2. \A k \in 1..Len(s) : s[k] \in S
  OBVIOUS
<1>3. Front(s) = [k \in 1..Len(s) - 1 |-> s[k]]
  BY <1>1 DEF Front
<1>4. Len(s) - 1 \in Nat /\ \A k \in 1..Len(s) - 1 : s[k] \in S
  BY <1>1, <1>2
<1> DEFINE g == [k \in 1..Len(s) - 1 |-> s[k]]
<1>5. g \in [1..Len(s) - 1 -> S]
  BY <1>4
<1>6. g \in Seq(S) /\ Len(g) = Len(s) - 1 /\ \A k \in 1..Len(s) - 1 : g[k] = s[k]
  BY <1>4, <1>5, FunctionIsSeq
<1> QED
  BY <1>3, <1>6
-----------------------------------------------------------------------------
(* The result of a task is what the program computes for it.                 *)

Computed ==
  /\ task \in Tasks
  /\ result # Pending =>
       /\ task.kind = "note" => result = Generate(task.answers, task.retries)
       /\ task.kind = "prompt" => result = Prompt(task.named, task.features, task.history, task.goal)
       /\ task.kind = "detect" => result = Emit(task.flux, task.out, task.gap)
       /\ task.kind = "match" => result = Match(task.predicted, task.truth, task.tolerance)
       /\ task.kind = "gate" =>
            result = Gate(task.probs, task.labels, task.sets, task.metadata, {"station"}, task.limits)
       /\ task.kind = "head" => result = HeadGate(task.probs, task.labels, task.metadata, {"station"}, task.limits)
       /\ task.kind = "conformal" =>
            result = [k \in DOMAIN task.truth |->
                        PredictionSet(RemoveAt(task.truth, k), <<task.truth[k], 100 - task.truth[k]>>, task.coverage)]
       /\ task.kind = "coreset" => result = Coreset(task.points, task.budget, task.first)
       /\ task.kind = "progress" =>
            result = AthleteProgress(task.sessions, task.memberships, task.athlete, task.lastN)
       /\ task.kind = "federation" =>
            result = [overview |-> Overview(task.sessions, task.profiles, task.clubs, task.cohorts, task.today),
                      clubs |-> Clubs(task.sessions, task.profiles, task.memberships, task.clubs, task.today),
                      listed |-> Cohorts(task.profiles, task.cohorts),
                      athletes |-> Athletes(task.memberships),
                      orgs |-> [u \in Athletes(task.memberships) |-> Orgs(task.memberships, u)]]

\* What is computed is never changed, and each kind of task has one computation.
LEMMA IsComputed == Spec => []Computed
<1>1. Init => Computed
  BY DEF Init, Computed
<1>2. Computed /\ [Next]_vars => Computed'
  <2> SUFFICES ASSUME Computed, [Next]_vars
               PROVE  Computed'
    OBVIOUS
  <2>1. CASE WriteNote
    BY <2>1 DEF Computed, WriteNote, Finish
  <2>2. CASE WritePrompt
    BY <2>2 DEF Computed, WritePrompt, Finish
  <2>3. CASE DetectShots
    BY <2>3 DEF Computed, DetectShots, Finish
  <2>4. CASE ScoreShots
    BY <2>4 DEF Computed, ScoreShots, Finish
  <2>5. CASE AlignCameras
    BY <2>5 DEF Computed, AlignCameras, Finish
  <2>6. CASE JudgeModel
    BY <2>6 DEF Computed, JudgeModel, Finish
  <2>7. CASE JudgeHead
    BY <2>7 DEF Computed, JudgeHead, Finish
  <2>8. CASE PredictSets
    BY <2>8 DEF Computed, PredictSets, Finish
  <2>9. CASE ChooseSamples
    BY <2>9 DEF Computed, ChooseSamples, Finish
  <2>10. CASE NameCause
    BY <2>10 DEF Computed, NameCause, Finish
  <2>11. CASE ReportProgress
    BY <2>11 DEF Computed, ReportProgress, Finish
  <2>12. CASE ReportFederation
    BY <2>12 DEF Computed, ReportFederation, Finish
  <2>13. CASE Train
    BY <2>13 DEF Computed, Train
  <2>14. CASE UNCHANGED vars
    BY <2>14 DEF Computed, vars
  <2> QED
    BY <2>1, <2>2, <2>3, <2>4, <2>5, <2>6, <2>7, <2>8, <2>9, <2>10, <2>11, <2>12, <2>13, <2>14 DEF Next
<1> QED
  BY <1>1, <1>2, PTL DEF Spec

-----------------------------------------------------------------------------
(* Notes.                                                                    *)

LEMMA MinOfTwo ==
  ASSUME NEW a \in Int, NEW b \in Int
  PROVE  /\ Min({a, b}) \in Int /\ Min({a, b}) <= a /\ Min({a, b}) <= b
         /\ Min({a, b}) = a \/ Min({a, b}) = b
<1>1. \E x \in {a, b} : \A y \in {a, b} : x <= y
  OBVIOUS
<1>2. Min({a, b}) \in {a, b} /\ \A y \in {a, b} : Min({a, b}) <= y
  BY <1>1 DEF Min
<1> QED
  BY <1>2

LEMMA StampedIs ==
  ASSUME NEW draft \in Drafts
  PROVE  /\ Stamped(draft).session = Ledger.session
         /\ Stamped(draft).degraded = FALSE /\ Stamped(draft).passed = TRUE
BY DEF Drafts, Stamped

\* The attempts that are made are those up to the first that ends the loop.
LEMMA NotesAreGrounded ==
  ASSUME NEW answers \in Seq(Answers), NEW retries \in Nat
  PROVE  LET note == Generate(answers, retries)
             Good(k) == answers[k].says = "note" /\ Verified(Stamped(answers[k].note))
             reached == {k \in 1..Min({retries + 1, Len(answers)}) : \A m \in 1..k : answers[m].says # "nothing"}
         IN  /\ note.session = Ledger.session /\ note.degraded = ~note.passed
             /\ note.passed => Verified(note)
             /\ note.degraded <=> \A k \in reached : ~Good(k)
<1> DEFINE note == Generate(answers, retries)
           Good(k) == answers[k].says = "note" /\ Verified(Stamped(answers[k].note))
           top == Min({retries + 1, Len(answers)})
           reached == {k \in 1..top : \A m \in 1..k : answers[m].says # "nothing"}
           ends == {k \in DOMAIN answers : k <= retries + 1 /\ Ends(answers[k])}
<1>1. top \in Int /\ top <= retries + 1 /\ top <= Len(answers) /\ (top = retries + 1 \/ top = Len(answers))
  <2>1. retries + 1 \in Int /\ Len(answers) \in Int
    OBVIOUS
  <2> QED
    BY <2>1, MinOfTwo
<1>2. \A k \in DOMAIN answers : Ends(answers[k]) <=> answers[k].says = "nothing" \/ Good(k)
  BY DEF Ends
<1>3. \A k \in DOMAIN answers : answers[k] \in Answers /\ answers[k].note \in Drafts
  <2>1. \A k \in DOMAIN answers : answers[k] \in Answers
    OBVIOUS
  <2>2. \A a \in Answers : a.note \in Drafts
    BY DEF Answers
  <2> QED
    BY <2>1, <2>2
<1>4. ends \in SUBSET Nat /\ \A k \in ends : k \in 1..top
  BY <1>1
<1>5. \A k \in 1..top : k \in DOMAIN answers /\ k <= retries + 1
  BY <1>1
<1>6. /\ Degraded.session = Ledger.session /\ Degraded.degraded = TRUE /\ Degraded.passed = FALSE
  BY DEF Degraded, Note
<1> HIDE DEF top, Good
<1>7. CASE ends = {}
  <2>1. note = Degraded
    BY <1>7 DEF Generate
  <2>2. \A k \in reached : ~Good(k)
    BY <1>2, <1>5, <1>7
  <2> QED
    BY <2>1, <2>2, <1>6 DEF top, Good
<1>8. CASE ends # {}
  <2> DEFINE first == CHOOSE k \in ends : \A m \in ends : k <= m
  <2>1. first \in ends /\ \A m \in ends : first <= m
    BY <1>4, <1>8, LeastNat
  <2> HIDE DEF first
  <2>2. note = IF answers[first].says = "nothing" THEN Degraded ELSE Stamped(answers[first].note)
    BY <1>8 DEF Generate, first
  <2>3. CASE answers[first].says = "nothing"
    <3>1. ASSUME NEW k \in reached
          PROVE  ~Good(k)
      <4>1. k < first
        BY <1>1, <1>4, <2>1, <2>3
      <4>2. k \notin ends
        BY <1>4, <2>1, <4>1
      <4> QED
        BY <1>1, <1>2, <1>5, <4>2
    <3> QED
      BY <2>2, <2>3, <3>1, <1>6 DEF top, Good
  <2>4. CASE answers[first].says # "nothing"
    <3>1. Good(first)
      BY <1>2, <2>1, <2>4
    <3>2. first \in reached
      <4>1. first \in 1..top
        BY <1>4, <2>1
      <4>2. ASSUME NEW m \in 1..first
            PROVE  answers[m].says # "nothing"
        <5>1. m \in 1..top
          BY <1>1, <4>1
        <5>2. CASE m = first
          BY <2>4, <5>2
        <5>3. CASE m # first
          <6>1. m \notin ends
            BY <1>4, <2>1, <4>1, <5>3
          <6> QED
            BY <1>2, <1>5, <5>1, <6>1
        <5> QED
          BY <5>2, <5>3
      <4> QED
        BY <4>1, <4>2
    <3>3. note = Stamped(answers[first].note) /\ answers[first].note \in Drafts
      BY <1>3, <2>1, <2>2, <2>4
    <3>4. note.session = Ledger.session /\ note.degraded = FALSE /\ note.passed = TRUE
      BY <3>3, StampedIs
    <3>5. Verified(note)
      BY <3>1, <3>3 DEF Good
    <3> QED
      BY <3>1, <3>2, <3>4, <3>5 DEF top, Good
  <2> QED
    BY <2>3, <2>4
<1> QED
  BY <1>7, <1>8

\* Whatever a host answers, however often it is asked: the note is about this session
\* and has passed the verifier, or it is the degraded one, and that only if no
\* attempt before the host's first failure was good (llm/generate.py).
THEOREM NotesAreAlwaysGrounded == Spec => []NotesGrounded
<1>1. Computed => NotesGrounded
  <2> SUFFICES ASSUME Computed, Done("note")
               PROVE  NotesGrounded
    BY DEF NotesGrounded
  <2>1. task.answers \in Seq(Answers) /\ task.retries \in Nat
    BY TasksAssumption DEF Computed, Done
  <2>2. result = Generate(task.answers, task.retries)
    BY DEF Computed, Done
  <2> QED
    BY <2>1, <2>2, NotesAreGrounded DEF NotesGrounded
<1> QED
  BY <1>1, IsComputed, PTL
-----------------------------------------------------------------------------
(* The prompt.                                                               *)

LEMMA ReplacedIs ==
  ASSUME NEW text \in Seq(Tokens), NEW found, NEW by \in Tokens
  PROVE  /\ Replace(text, found, by) \in Seq(Tokens)
         /\ Len(Replace(text, found, by)) = Len(text)
         /\ \A k \in 1..Len(text) :
              /\ text[k] \in found => Replace(text, found, by)[k] = by
              /\ text[k] \notin found => Replace(text, found, by)[k] = text[k]
<1>1. DOMAIN text = 1..Len(text) /\ Len(text) \in Nat /\ \A k \in 1..Len(text) : text[k] \in Tokens
  OBVIOUS
<1>2. /\ Replace(text, found, by) \in [1..Len(text) -> Tokens]
      /\ \A k \in 1..Len(text) :
           /\ text[k] \in found => Replace(text, found, by)[k] = by
           /\ text[k] \notin found => Replace(text, found, by)[k] = text[k]
  BY <1>1 DEF Replace
<1> QED
  BY <1>1, <1>2, FunctionIsSeq

\* What a text is when its tags are escaped.
LEMMA EscapedIs ==
  ASSUME NEW text \in Seq(Tokens)
  PROVE  /\ Escaped(text) \in Seq(Tokens) /\ Len(Escaped(text)) = Len(text)
         /\ \A k \in 1..Len(text) :
              /\ Escaped(text)[k] # "tag"
              /\ text[k] # "tag" => Escaped(text)[k] = text[k]
<1> DEFINE d == Replace(text, {"tag"}, "lt")
<1>1. "lt" \in Tokens
  BY DEF Tokens
<1>2. d \in Seq(Tokens) /\ Len(d) = Len(text)
      /\ \A k \in 1..Len(text) :
           /\ text[k] = "tag" => d[k] = "lt"
           /\ text[k] # "tag" => d[k] = text[k]
  BY <1>1, ReplacedIs
<1>3. Escaped(text) = d
  BY DEF Escaped
<1> HIDE DEF d
<1> QED
  BY <1>2, <1>3

\* What a text is when what is personal is stripped: as long as before, with no address
\* and no number, and the pseudonym where the name stood, if there is one to look for.
LEMMA StrippedIs ==
  ASSUME NEW text \in Seq(Tokens), NEW named
  PROVE  LET t == Stripped(text, named) IN
         /\ t \in Seq(Tokens) /\ Len(t) = Len(text)
         /\ \A k \in 1..Len(text) :
              /\ t[k] \notin {"email", "phone"}
              /\ named => t[k] # "name"
              /\ (named /\ text[k] = "name") => t[k] = "pseudonym"
<1> DEFINE a == Replace(text, {"email"}, "no_email")
           b == Replace(a, {"phone", "pseudonym"}, "no_phone")
           c == Replace(b, Name(named), "pseudonym")
<1>1. a \in Seq(Tokens) /\ Len(a) = Len(text)
      /\ \A k \in 1..Len(text) :
           /\ text[k] = "email" => a[k] = "no_email"
           /\ text[k] # "email" => a[k] = text[k]
  <2>1. "no_email" \in Tokens
    BY DEF Tokens
  <2> QED
    BY <2>1, ReplacedIs
<1> HIDE DEF a
<1>2. b \in Seq(Tokens) /\ Len(b) = Len(a)
      /\ \A k \in 1..Len(a) :
           /\ a[k] \in {"phone", "pseudonym"} => b[k] = "no_phone"
           /\ a[k] \notin {"phone", "pseudonym"} => b[k] = a[k]
  <2>1. "no_phone" \in Tokens
    BY DEF Tokens
  <2> QED
    BY <1>1, <2>1, ReplacedIs
<1> HIDE DEF b
<1>3. c \in Seq(Tokens) /\ Len(c) = Len(b)
      /\ \A k \in 1..Len(b) :
           /\ b[k] \in Name(named) => c[k] = "pseudonym"
           /\ b[k] \notin Name(named) => c[k] = b[k]
  <2>1. "pseudonym" \in Tokens
    BY DEF Tokens
  <2> QED
    BY <1>2, <2>1, ReplacedIs
<1> HIDE DEF c
<1>4. Stripped(text, named) = c
  BY DEF Stripped, LooksLikePhone, a, b, c
<1>5. ASSUME NEW k \in 1..Len(text)
      PROVE  /\ c[k] \notin {"email", "phone"}
             /\ named => c[k] # "name"
             /\ (named /\ text[k] = "name") => c[k] = "pseudonym"
  <2>1. k \in 1..Len(a) /\ k \in 1..Len(b)
    BY <1>1, <1>2
  <2>2. a[k] # "email" /\ (text[k] = "name" => a[k] = "name")
    BY <1>1
  <2>3. b[k] \notin {"email", "phone"} /\ (a[k] = "name" => b[k] = "name")
    BY <1>2, <2>1, <2>2
  <2>4. c[k] = "pseudonym" \/ (c[k] = b[k] /\ b[k] \notin Name(named))
    BY <1>3, <2>1
  <2>5. b[k] \in Name(named) => c[k] = "pseudonym"
    BY <1>3, <2>1
  <2>6. named => "name" \in Name(named)
    BY DEF Name
  <2> QED
    BY <2>2, <2>3, <2>4, <2>5, <2>6
<1> QED
  BY <1>1, <1>2, <1>3, <1>4, <1>5

LEMMA GoalIsClean ==
  ASSUME NEW goal \in Seq(Tokens), NEW named
  PROVE  LET g == Escaped(Stripped(goal, named)) IN
         /\ DOMAIN g = DOMAIN goal
         /\ "tag" \notin ToSet(g)
         /\ \A k \in DOMAIN goal :
              /\ g[k] \notin {"email", "phone"}
              /\ named => g[k] # "name"
              /\ (named /\ goal[k] = "name") => g[k] = "pseudonym"
<1> DEFINE t == Stripped(goal, named)
           g == Escaped(t)
<1>1. /\ t \in Seq(Tokens) /\ Len(t) = Len(goal)
      /\ \A k \in 1..Len(goal) :
           /\ t[k] \notin {"email", "phone"}
           /\ named => t[k] # "name"
           /\ (named /\ goal[k] = "name") => t[k] = "pseudonym"
  BY StrippedIs
<1> HIDE DEF t
<1>2. /\ g \in Seq(Tokens) /\ Len(g) = Len(t)
      /\ \A k \in 1..Len(t) : g[k] # "tag" /\ (t[k] # "tag" => g[k] = t[k])
  BY <1>1, EscapedIs
<1>3. ASSUME NEW k \in 1..Len(goal), t[k] = "tag"
      PROVE  g[k] = "lt"
  <2>1. g = [i \in DOMAIN t |-> IF t[i] \in {"tag"} THEN "lt" ELSE t[i]] /\ k \in DOMAIN t
    BY <1>1 DEF Escaped, Replace
  <2> HIDE DEF g
  <2> QED
    BY <1>3, <2>1
<1> HIDE DEF g
<1>4. \A k \in 1..Len(goal) :
        /\ g[k] \notin {"email", "phone"} /\ g[k] # "tag"
        /\ named => g[k] # "name"
        /\ (named /\ goal[k] = "name") => g[k] = "pseudonym"
  BY <1>1, <1>2, <1>3
<1>5. DOMAIN g = 1..Len(goal) /\ DOMAIN goal = 1..Len(goal)
  BY <1>1, <1>2
<1> QED
  BY <1>4, <1>5 DEF ToSet, t, g

\* Whatever an athlete writes and whatever an earlier note says: the goal reaches the
\* host without an address or a number, with the pseudonym wherever the name of the
\* record stood, and no tag is forged (llm/pii.py, llm/prompt.py).
THEOREM GoalAlwaysCleaned == Spec => []GoalCleaned
<1>1. Computed => GoalCleaned
  <2> SUFFICES ASSUME Computed, Done("prompt")
               PROVE  GoalCleaned
    BY DEF GoalCleaned
  <2> DEFINE g == Escaped(Stripped(task.goal, task.named))
             h == Escaped(task.history)
  <2>1. task.goal \in Seq(Tokens) /\ task.history \in Seq(Tokens)
    BY TasksAssumption DEF Computed, Done
  <2>2. result = [features |-> task.features, history |-> h, goal |-> g]
    BY DEF Computed, Done, Prompt
  <2>3. /\ DOMAIN g = DOMAIN task.goal
        /\ "tag" \notin ToSet(g)
        /\ \A k \in DOMAIN task.goal :
             /\ g[k] \notin {"email", "phone"}
             /\ task.named => g[k] # "name"
             /\ (task.named /\ task.goal[k] = "name") => g[k] = "pseudonym"
    BY <2>1, GoalIsClean
  <2>4. "tag" \notin ToSet(h)
    BY <2>1, EscapedIs DEF ToSet
  <2> HIDE DEF g, h
  <2>5. result.goal = g /\ result.history = h
    BY <2>2
  <2> QED
    BY <2>3, <2>4, <2>5 DEF GoalCleaned
<1> QED
  BY <1>1, IsComputed, PTL
-----------------------------------------------------------------------------
(* The exclusion list.                                                       *)

\* A process that has read the file knows every line that was in it then.
ListRight ==
  /\ lines \in Seq(Hashes)
  /\ DOMAIN cache = Trainers /\ DOMAIN batch = Trainers
  /\ toldAt \in [Trainers -> Nat]
  /\ \A t \in Trainers :
       /\ toldAt[t] <= Len(lines)
       /\ cache[t] = {Unread} \/ \A i \in 1..toldAt[t] : lines[i] \in cache[t]

\* What a process knows once it has loaded the file, and until when it knows it.
LEMMA LoadedIs ==
  ASSUME ListRight, NEW t \in Trainers
  PROVE  /\ ReadNow(t) \in [Trainers -> Nat]
         /\ \A u \in Trainers : ReadNow(t)[u] <= Len(lines)
         /\ \A u \in Trainers \ {t} : ReadNow(t)[u] = toldAt[u]
         /\ \A i \in 1..ReadNow(t)[t] : lines[i] \in Loaded(t)
<1>1. Len(lines) \in Nat /\ \A i \in 1..Len(lines) : lines[i] \in ToSet(lines)
  BY DEF ListRight, ToSet
<1>2. CASE cache[t] = {Unread}
  BY <1>1, <1>2 DEF ListRight, ReadNow, Loaded
<1>3. CASE cache[t] # {Unread}
  BY <1>1, <1>3 DEF ListRight, ReadNow, Loaded
<1> QED
  BY <1>2, <1>3

LEMMA AddKeepsList ==
  ASSUME ListRight, NEW t \in Trainers, NEW hash \in Hashes, Add(t, hash)
  PROVE  ListRight' /\ batch' = batch
<1>1. /\ lines' \in Seq(Hashes) /\ Len(lines) \in Nat /\ Len(lines) <= Len(lines')
      /\ \A i \in 1..Len(lines) : lines'[i] = lines[i]
  BY DEF ListRight, Add
<1>2. /\ cache' = [cache EXCEPT ![t] = Loaded(t) \cup {hash}] /\ toldAt' = ReadNow(t) /\ batch' = batch
  BY DEF Add
<1>3. ASSUME NEW u \in Trainers
      PROVE  toldAt'[u] <= Len(lines') /\ (cache'[u] = {Unread} \/ \A i \in 1..toldAt'[u] : lines'[i] \in cache'[u])
  <2>1. toldAt'[u] \in Nat /\ toldAt'[u] <= Len(lines)
    BY <1>2, LoadedIs
  <2>2. CASE u = t
    <3>1. cache'[u] = Loaded(t) \cup {hash}
      BY <1>2, <2>2 DEF ListRight
    <3>2. \A i \in 1..toldAt'[u] : lines[i] \in Loaded(t)
      BY <1>2, <2>2, LoadedIs
    <3> QED
      BY <1>1, <2>1, <3>1, <3>2
  <2>3. CASE u # t
    <3>1. cache'[u] = cache[u] /\ toldAt'[u] = toldAt[u]
      BY <1>2, <2>3, LoadedIs DEF ListRight
    <3>2. cache[u] = {Unread} \/ \A i \in 1..toldAt[u] : lines[i] \in cache[u]
      BY DEF ListRight
    <3> QED
      BY <1>1, <2>1, <3>1, <3>2
  <2> QED
    BY <2>2, <2>3
<1>4. toldAt' \in [Trainers -> Nat]
  BY <1>2, LoadedIs
<1>5. DOMAIN cache' = Trainers /\ DOMAIN batch' = Trainers
  BY <1>2 DEF ListRight
<1> QED
  BY <1>1, <1>2, <1>3, <1>4, <1>5 DEF ListRight

LEMMA ReloadKeepsList ==
  ASSUME ListRight, NEW t \in Trainers, Reload(t)
  PROVE  ListRight' /\ batch' = batch
<1>1. /\ cache' = [cache EXCEPT ![t] = ToSet(lines)] /\ toldAt' = [toldAt EXCEPT ![t] = Len(lines)]
      /\ lines' = lines /\ batch' = batch
  BY DEF Reload, Reloaded
<1>2. Len(lines) \in Nat /\ \A i \in 1..Len(lines) : lines[i] \in ToSet(lines)
  BY DEF ListRight, ToSet
<1> QED
  BY <1>1, <1>2 DEF ListRight

LEMMA SelectKeepsList ==
  ASSUME ListRight, NEW t \in Trainers, NEW samples \in SUBSET Samples, Select(t, samples)
  PROVE  /\ ListRight'
         /\ \A u \in Trainers : batch'[u] # batch[u] => \A i \in 1..toldAt'[u] : lines'[i] \notin batch'[u]
<1>1. /\ cache' = [cache EXCEPT ![t] = Loaded(t)] /\ toldAt' = ReadNow(t) /\ lines' = lines
      /\ batch' = [batch EXCEPT ![t] = {s.hash : s \in ForTraining(samples, Loaded(t))}]
  BY DEF Select
<1>2. ASSUME NEW u \in Trainers
      PROVE  toldAt'[u] <= Len(lines') /\ (cache'[u] = {Unread} \/ \A i \in 1..toldAt'[u] : lines'[i] \in cache'[u])
  <2>1. CASE u = t
    BY <1>1, <2>1, LoadedIs DEF ListRight
  <2>2. CASE u # t
    BY <1>1, <2>2, LoadedIs DEF ListRight
  <2> QED
    BY <2>1, <2>2
<1>3. toldAt' \in [Trainers -> Nat]
  BY <1>1, LoadedIs
<1>4. DOMAIN cache' = Trainers /\ DOMAIN batch' = Trainers
  BY <1>1 DEF ListRight
<1>5. ASSUME NEW u \in Trainers, batch'[u] # batch[u], NEW i \in 1..toldAt'[u]
      PROVE  lines'[i] \notin batch'[u]
  <2>1. u = t
    BY <1>1, <1>5 DEF ListRight
  <2>2. batch'[u] = {s.hash : s \in ForTraining(samples, Loaded(t))}
    BY <1>1, <2>1 DEF ListRight
  <2>3. \A s \in ForTraining(samples, Loaded(t)) : s.hash \notin Loaded(t)
    BY DEF ForTraining
  <2>4. lines'[i] \in Loaded(t)
    BY <1>1, <1>5, <2>1, LoadedIs
  <2> QED
    BY <2>2, <2>3, <2>4
<1> QED
  BY <1>1, <1>2, <1>3, <1>4, <1>5 DEF ListRight

\* Each step keeps what the processes know right, and a batch that it selects holds
\* nothing that its process has read.
LEMMA TrainersStep ==
  ASSUME ListRight, [Next]_vars
  PROVE  /\ ListRight'
         /\ \A u \in Trainers : batch'[u] # batch[u] => \A i \in 1..toldAt'[u] : lines'[i] \notin batch'[u]
<1>1. CASE UNCHANGED exclusionVars
  BY <1>1 DEF exclusionVars, ListRight
<1>2. CASE ExclusionNext
  <2>1. ASSUME NEW t \in Trainers, NEW h \in Hashes, Add(t, h)
        PROVE  ListRight' /\ batch' = batch
    BY <2>1, AddKeepsList
  <2>2. ASSUME NEW t \in Trainers, Reload(t)
        PROVE  ListRight' /\ batch' = batch
    BY <2>2, ReloadKeepsList
  <2>3. ASSUME NEW t \in Trainers, NEW samples \in SUBSET Samples, Select(t, samples)
        PROVE  /\ ListRight'
               /\ \A u \in Trainers : batch'[u] # batch[u] => \A i \in 1..toldAt'[u] : lines'[i] \notin batch'[u]
    BY <2>3, SelectKeepsList
  <2> QED
    BY <1>2, <2>1, <2>2, <2>3 DEF ExclusionNext
<1>3. UNCHANGED exclusionVars \/ ExclusionNext
  BY DEF Next, vars, WriteNote, WritePrompt, DetectShots, ScoreShots, AlignCameras, JudgeModel, JudgeHead,
         PredictSets, ChooseSamples, NameCause, ReportProgress, ReportFederation, Finish, Train
<1> QED
  BY <1>1, <1>2, <1>3

\* However many processes train from one list, and add to it at once: a batch holds
\* no sample that was on the list when its process last read the
\* file (data/exclusion_list.py, data/provenance.py).
THEOREM ExcludedNeverSelected == Spec => ExcludedStaysOut
<1>1. Init => ListRight
  BY DEF Init, ExclusionInit, ListRight
<1>2. ListRight /\ [Next]_vars => ListRight'
  BY TrainersStep
<1>3. ListRight /\ ListRight' /\ [Next]_vars =>
        [\A t \in Trainers : batch'[t] # batch[t] => batch'[t] \cap ToSet(SubSeq(lines', 1, toldAt'[t])) = {}]_vars
  <2> SUFFICES ASSUME ListRight, ListRight', [Next]_vars, NEW t \in Trainers, batch'[t] # batch[t]
               PROVE  batch'[t] \cap ToSet(SubSeq(lines', 1, toldAt'[t])) = {}
    OBVIOUS
  <2>1. \A i \in 1..toldAt'[t] : lines'[i] \notin batch'[t]
    BY TrainersStep
  <2>2. toldAt'[t] \in Nat /\ toldAt'[t] <= Len(lines') /\ lines' \in Seq(Hashes)
    BY DEF ListRight
  <2>3. \A s \in Seq(Hashes), n \in Nat : n <= Len(s) => ToSet(SubSeq(s, 1, n)) = {s[i] : i \in 1..n}
    BY DEF ToSet
  <2> QED
    BY <2>1, <2>2, <2>3
<1> QED
  BY <1>1, <1>2, <1>3, PTL DEF Spec, ExcludedStaysOut
-----------------------------------------------------------------------------
(* The detection of shots: the fold, one frame at a time.                    *)

EmitStep(flux, out, gap, shots, i) ==
  IF i \notin out THEN shots
  ELSE IF shots # <<>> /\ i - Last(shots) < gap
  THEN (IF flux[i] > flux[Last(shots)] THEN Append(Front(shots), i) ELSE shots)
  ELSE Append(shots, i)

EmitFold(flux, out, gap) ==
  CHOOSE f : f = [s \in SUBSET DOMAIN [i \in DOMAIN flux |-> i] |->
     IF s = {} THEN <<>> ELSE EmitStep(flux, out, gap, f[s \ {Max(s)}], [i \in DOMAIN flux |-> i][Max(s)])]

LEMMA EmitIsFold ==
  ASSUME NEW flux, NEW out, NEW gap
  PROVE  Emit(flux, out, gap) = EmitFold(flux, out, gap)[DOMAIN [i \in DOMAIN flux |-> i]]
BY DEF Emit, EmitFold, FoldLeft, MapThenFoldSet, EmitStep

LEMMA EmitStepType ==
  ASSUME NEW n \in Nat, NEW shots \in Seq(1..n), NEW i \in 1..n, NEW flux, NEW out, NEW gap
  PROVE  EmitStep(flux, out, gap, shots, i) \in Seq(1..n)
<1>1. Append(shots, i) \in Seq(1..n)
  OBVIOUS
<1>2. ASSUME shots # <<>>
      PROVE  Append(Front(shots), i) \in Seq(1..n)
  <2>1. Front(shots) \in Seq(1..n)
    BY <1>2 DEF Front
  <2> QED
    BY <2>1
<1> QED
  BY <1>1, <1>2 DEF EmitStep

LEMMA EmitFoldIs ==
  ASSUME NEW flux \in Seq(Int), NEW out, NEW gap
  PROVE  LET n == Len(flux)
             f == EmitFold(flux, out, gap)
         IN  /\ Emit(flux, out, gap) = f[1..n]
             /\ f[{}] = <<>>
             /\ \A i \in 1..n : f[1..i] = EmitStep(flux, out, gap, f[1..i - 1], i)
<1> DEFINE n == Len(flux)
           T == Seq(1..n)
           seq == [i \in DOMAIN flux |-> i]
           step == [x \in T \X (1..n) |-> EmitStep(flux, out, gap, x[1], x[2])]
           pick == [s \in SUBSET (1..n) |-> Max(s)]
           Is(f) == f = [s \in SUBSET DOMAIN seq |->
                           IF s = {} THEN <<>> ELSE EmitStep(flux, out, gap, f[s \ {Max(s)}], seq[Max(s)])]
<1>1. n \in Nat /\ DOMAIN flux = 1..n /\ DOMAIN seq = 1..n /\ \A i \in 1..n : seq[i] = i
  OBVIOUS
<1> HIDE DEF n, seq
<1>2. step \in [T \X (1..n) -> T]
  BY <1>1, EmitStepType
<1>3. \A s \in SUBSET (1..n) : s # {} => Max(s) \in s
  BY <1>1, PickMax
<1>4. \E f : Is(f)
  <2>1. <<>> \in T /\ \A s \in SUBSET (1..n) : s # {} => pick[s] \in s
    BY <1>3
  <2>f. IsFiniteSet(1..n)
    BY <1>1, FS_Interval
  <2> HIDE DEF step, pick, T
  <2>2. PICK g \in [SUBSET (1..n) -> T] : Folds(g, 1..n, <<>>, step, pick)
    BY <1>2, <2>1, <2>f, FoldExists
  <2>3. ASSUME NEW s \in SUBSET (1..n), s # {}
        PROVE  g[s] = EmitStep(flux, out, gap, g[s \ {Max(s)}], seq[Max(s)])
    <3>1. pick[s] = Max(s) /\ Max(s) \in 1..n /\ seq[Max(s)] = Max(s) /\ g[s \ {Max(s)}] \in T
      BY <1>1, <1>3, <2>3 DEF pick
    <3>2. g[s] = step[<<g[s \ {Max(s)}], Max(s)>>]
      BY <2>2, <2>3, <3>1 DEF Folds
    <3> QED
      BY <3>1, <3>2 DEF step
  <2>4. Is(g)
    BY <1>1, <2>2, <2>3 DEF Folds
  <2> QED
    BY <2>4
<1>5. Is(EmitFold(flux, out, gap))
  BY <1>4 DEF EmitFold, seq
<1>6. Emit(flux, out, gap) = EmitFold(flux, out, gap)[1..n]
  BY <1>1, EmitIsFold DEF seq
<1> DEFINE f == EmitFold(flux, out, gap)
<1> HIDE DEF f
<1>7. f = [s \in SUBSET DOMAIN seq |->
             IF s = {} THEN <<>> ELSE EmitStep(flux, out, gap, f[s \ {Max(s)}], seq[Max(s)])]
  BY <1>5 DEF f
<1>8. f[{}] = <<>>
  BY <1>7
<1>9. ASSUME NEW i \in 1..n
      PROVE  f[1..i] = EmitStep(flux, out, gap, f[1..i - 1], i)
  <2>1. 1..i \in SUBSET DOMAIN seq /\ 1..i # {} /\ Max(1..i) = i /\ (1..i) \ {Max(1..i)} = 1..i - 1 /\ seq[i] = i
    BY <1>1, PrefixSets
  <2>2. f[1..i] = EmitStep(flux, out, gap, f[(1..i) \ {Max(1..i)}], seq[Max(1..i)])
    BY <1>7, <2>1
  <2> QED
    BY <2>1, <2>2
<1> QED
  BY <1>6, <1>8, <1>9 DEF f, n

\* What holds of the shots after the first i frames.
ShotsUpTo(flux, out, gap, i, shots) ==
  /\ shots \in Seq(1..i) /\ \A k \in 1..Len(shots) : shots[k] \in out
  /\ \A k \in 1..Len(shots) - 1 : shots[k] < shots[k + 1] /\ shots[k + 1] - shots[k] >= gap
  /\ \A j \in out : j <= i /\ (\A k \in 1..Len(shots) : shots[k] # j) =>
       \E s \in out \ {j} : Dist(j, s) < gap /\ flux[s] >= flux[j]

LEMMA DistIs ==
  ASSUME NEW a \in Int, NEW b \in Int, a <= b
  PROVE  Dist(a, b) = b - a /\ Dist(b, a) = b - a
BY DEF Dist

LEMMA AtLeast ==
  ASSUME NEW a \in Int, NEW b \in Int, ~(a > b)
  PROVE  b >= a
OBVIOUS

LEMMA Later ==
  ASSUME NEW a \in Int, NEW b \in Int, NEW c \in Int, NEW g \in Int, a < b, b - a >= g, b <= c
  PROVE  a < c /\ c - a >= g
OBVIOUS

LEMMA EmitStepKeeps ==
  ASSUME NEW flux \in Seq(Int), NEW out \in SUBSET (1..Len(flux)), NEW gap \in Nat, NEW i \in 1..Len(flux),
         NEW shots, ShotsUpTo(flux, out, gap, i - 1, shots)
  PROVE  ShotsUpTo(flux, out, gap, i, EmitStep(flux, out, gap, shots, i))
<1> DEFINE m == Len(shots)
<1>1. /\ shots \in Seq(1..i - 1) /\ m \in Nat /\ i \in Nat
      /\ \A k \in 1..m : shots[k] \in Nat /\ shots[k] <= i - 1 /\ shots[k] \in out
      /\ \A k \in 1..m - 1 : shots[k] < shots[k + 1] /\ shots[k + 1] - shots[k] >= gap
      /\ \A j \in out : j <= i - 1 /\ (\A k \in 1..m : shots[k] # j) =>
           \E s \in out \ {j} : Dist(j, s) < gap /\ flux[s] >= flux[j]
  BY DEF ShotsUpTo
<1>2. shots \in Seq(1..i) /\ \A j \in out : j \in Nat /\ flux[j] \in Int
  BY <1>1
<1> HIDE DEF m
<1>3. m = Len(shots) /\ (shots = <<>> <=> m = 0) /\ (m # 0 => Last(shots) = shots[m])
  BY <1>1 DEF m, Last
<1>4. CASE i \notin out
  <2>1. EmitStep(flux, out, gap, shots, i) = shots
    BY <1>4 DEF EmitStep
  <2>2. \A j \in out : j <= i => j <= i - 1
    BY <1>1, <1>2, <1>4
  <2> QED
    BY <1>1, <1>2, <1>3, <2>1, <2>2 DEF ShotsUpTo
<1>5. CASE i \in out /\ m # 0 /\ i - shots[m] < gap /\ ~(flux[i] > flux[shots[m]])
  <2>1. EmitStep(flux, out, gap, shots, i) = shots
    BY <1>3, <1>5 DEF EmitStep
  <2>2. shots[m] \in out \ {i} /\ Dist(i, shots[m]) < gap /\ flux[shots[m]] >= flux[i]
    <3>1. shots[m] \in out /\ shots[m] \in Nat /\ shots[m] <= i - 1
      BY <1>1, <1>5
    <3>2. flux[shots[m]] \in Int /\ flux[i] \in Int
      BY <1>2, <1>5, <3>1
    <3>3. Dist(i, shots[m]) = i - shots[m] /\ shots[m] # i
      <4>1. i \in Int /\ shots[m] \in Int /\ shots[m] <= i /\ shots[m] # i
        BY <1>1, <3>1
      <4> QED
        BY <4>1, DistIs
    <3>4. flux[shots[m]] >= flux[i]
      BY <1>5, <3>2, AtLeast
    <3> QED
      BY <1>5, <3>1, <3>3, <3>4
  <2>3. \A j \in out : j <= i => j <= i - 1 \/ j = i
    BY <1>1, <1>2
  <2> QED
    BY <1>1, <1>2, <1>3, <2>1, <2>2, <2>3 DEF ShotsUpTo
<1>6. CASE i \in out /\ m # 0 /\ i - shots[m] < gap /\ flux[i] > flux[shots[m]]
  <2> DEFINE front == Front(shots)
             r == Append(front, i)
  <2>1. EmitStep(flux, out, gap, shots, i) = r
    BY <1>3, <1>6 DEF EmitStep
  <2>2. front \in Seq(1..i) /\ Len(front) = m - 1 /\ \A k \in 1..m - 1 : front[k] = shots[k]
    <3>1. shots # <<>>
      BY <1>3, <1>6
    <3> QED
      BY <1>2, <1>3, <3>1, FrontIs
  <2> HIDE DEF front
  <2>3. r \in Seq(1..i) /\ Len(r) = m /\ r[m] = i /\ \A k \in 1..m - 1 : r[k] = shots[k]
    <3>1. i \in 1..i /\ m - 1 + 1 = m
      BY <1>1
    <3>2. /\ Append(front, i) \in Seq(1..i) /\ Len(Append(front, i)) = Len(front) + 1
          /\ Append(front, i)[Len(front) + 1] = i
          /\ \A k \in 1..Len(front) : Append(front, i)[k] = front[k]
      BY <2>2, <3>1, AppendIs
    <3> QED
      BY <2>2, <3>1, <3>2
  <2> HIDE DEF r
  <2>4. \A k \in 1..m : r[k] \in out
    <3>1. \A k \in 1..m : k = m \/ k \in 1..m - 1
      BY <1>1
    <3> QED
      BY <1>1, <1>6, <2>3, <3>1
  <2>5. ASSUME NEW k \in 1..m - 1
        PROVE  r[k] < r[k + 1] /\ r[k + 1] - r[k] >= gap
    <3>1. shots[k] < shots[k + 1] /\ shots[k + 1] - shots[k] >= gap /\ r[k] = shots[k]
      BY <1>1, <2>3
    <3>2. CASE k + 1 = m
      <4>1. k \in 1..m /\ m \in 1..m /\ m - 1 = k
        BY <1>1, <3>2
      <4>2. shots[m] \in Nat /\ shots[k] \in Nat /\ shots[m] <= i - 1 /\ r[k + 1] = i
        BY <1>1, <2>3, <3>2, <4>1
      <4>3. shots[k] < shots[m] /\ shots[m] - shots[k] >= gap /\ r[k] = shots[k]
        BY <3>1, <3>2
      <4>4. r[k] \in Nat /\ r[k] < shots[m] /\ shots[m] - r[k] >= gap
        BY <4>2, <4>3
      <4>5. r[k] < i /\ i - r[k] >= gap
        <5>1. shots[m] <= i /\ i \in Int /\ shots[m] \in Int /\ r[k] \in Int /\ gap \in Int
          BY <1>1, <4>2, <4>4
        <5> QED
          BY <4>4, <5>1, Later
      <4> QED
        BY <4>2, <4>5
    <3>3. CASE k + 1 # m
      <4>1. k + 1 \in 1..m - 1
        BY <1>1, <3>3
      <4> QED
        BY <2>3, <3>1, <4>1
    <3> QED
      BY <3>2, <3>3
  <2>6. ASSUME NEW j \in out, j <= i, \A k \in 1..m : r[k] # j
        PROVE  \E s \in out \ {j} : Dist(j, s) < gap /\ flux[s] >= flux[j]
    <3>1. CASE j = shots[m]
      <4>1. i \in out \ {j} /\ Dist(j, i) < gap /\ flux[i] >= flux[j]
        <5>1. j \in Nat /\ j <= i - 1
          BY <1>1, <1>6, <3>1
        <5>2. flux[j] \in Int /\ flux[i] \in Int
          BY <1>2, <1>6
        <5>3. Dist(j, i) = i - j /\ i # j
          <6>1. i \in Int /\ j \in Int /\ j <= i /\ i # j
            BY <1>1, <5>1
          <6> QED
            BY <6>1, DistIs
        <5>4. flux[i] > flux[j] /\ i - j < gap
          BY <1>6, <3>1
        <5>5. flux[i] >= flux[j]
          BY <5>2, <5>4
        <5> QED
          BY <1>6, <5>3, <5>4, <5>5
      <4> QED
        BY <4>1
    <3>2. CASE j # shots[m]
      <4>1. j # i
        BY <1>1, <1>6, <2>3, <2>6
      <4>2. j <= i - 1
        BY <1>1, <1>2, <2>6, <4>1
      <4>3. \A k \in 1..m : shots[k] # j
        <5>1. SUFFICES ASSUME NEW k \in 1..m
                       PROVE  shots[k] # j
          OBVIOUS
        <5>2. CASE k = m
          BY <3>2, <5>2
        <5>3. CASE k # m
          <6>1. k \in 1..m - 1
            BY <1>1, <5>3
          <6> QED
            BY <2>3, <2>6, <6>1
        <5> QED
          BY <5>2, <5>3
      <4> QED
        BY <1>1, <4>2, <4>3
    <3> QED
      BY <3>1, <3>2
  <2> QED
    BY <2>1, <2>3, <2>4, <2>5, <2>6 DEF ShotsUpTo
<1>7. CASE i \in out /\ (m = 0 \/ ~(i - shots[m] < gap))
  <2> DEFINE r == Append(shots, i)
  <2>1. EmitStep(flux, out, gap, shots, i) = r
    BY <1>3, <1>7 DEF EmitStep
  <2>2. r \in Seq(1..i) /\ Len(r) = m + 1 /\ r[m + 1] = i /\ \A k \in 1..m : r[k] = shots[k]
    BY <1>1, <1>2, <1>3
  <2> HIDE DEF r
  <2>3. \A k \in 1..m + 1 : r[k] \in out
    <3>1. \A k \in 1..m + 1 : k = m + 1 \/ k \in 1..m
      BY <1>1
    <3> QED
      BY <1>1, <1>7, <2>2, <3>1
  <2>4. ASSUME NEW k \in 1..m
        PROVE  r[k] < r[k + 1] /\ r[k + 1] - r[k] >= gap
    <3>1. CASE k = m
      BY <1>1, <1>7, <2>2, <3>1
    <3>2. CASE k # m
      <4>1. k \in 1..m - 1 /\ k + 1 \in 1..m
        BY <1>1, <3>2
      <4> QED
        BY <1>1, <2>2, <4>1
    <3> QED
      BY <3>1, <3>2
  <2>5. ASSUME NEW j \in out, j <= i, \A k \in 1..m + 1 : r[k] # j
        PROVE  \E s \in out \ {j} : Dist(j, s) < gap /\ flux[s] >= flux[j]
    <3>1. j # i
      BY <1>1, <2>2, <2>5
    <3>2. j <= i - 1 /\ \A k \in 1..m : shots[k] # j
      BY <1>1, <1>2, <2>2, <2>5, <3>1
    <3> QED
      BY <1>1, <3>2
  <2> QED
    BY <1>1, <2>1, <2>2, <2>3, <2>4, <2>5 DEF ShotsUpTo
<1> QED
  BY <1>1, <1>4, <1>5, <1>6, <1>7

LEMMA EmitKeeps ==
  ASSUME NEW flux \in Seq(Int), NEW out \in SUBSET (1..Len(flux)), NEW gap \in Nat
  PROVE  ShotsUpTo(flux, out, gap, Len(flux), Emit(flux, out, gap))
<1> DEFINE n == Len(flux)
           f == EmitFold(flux, out, gap)
           N == {i \in Nat : i <= n => ShotsUpTo(flux, out, gap, i, f[1..i])}
<1>1. /\ n \in Nat /\ Emit(flux, out, gap) = f[1..n] /\ f[{}] = <<>>
      /\ \A i \in 1..n : f[1..i] = EmitStep(flux, out, gap, f[1..i - 1], i)
  BY EmitFoldIs
<1> HIDE DEF f
<1>2. 0 \in N
  <2>1. 1..0 = {} /\ f[1..0] = <<>>
    BY <1>1
  <2>2. \A j \in out : ~(j <= 0)
    OBVIOUS
  <2>3. ShotsUpTo(flux, out, gap, 0, <<>>)
    BY <2>2 DEF ShotsUpTo
  <2> QED
    BY <2>1, <2>3
<1>3. ASSUME NEW i \in N
      PROVE  i + 1 \in N
  <2>1. CASE i + 1 <= n
    <3>1. i + 1 \in 1..Len(flux) /\ i + 1 - 1 = i
      BY <1>1, <2>1
    <3>2. ShotsUpTo(flux, out, gap, i, f[1..i])
      BY <1>1, <2>1
    <3>3. ShotsUpTo(flux, out, gap, i + 1, EmitStep(flux, out, gap, f[1..i], i + 1))
      BY <3>1, <3>2, EmitStepKeeps
    <3> QED
      BY <1>1, <3>1, <3>3
  <2>2. CASE ~(i + 1 <= n)
    BY <2>2
  <2> QED
    BY <2>1, <2>2
<1>4. N \in SUBSET Nat
  OBVIOUS
<1> HIDE DEF N
<1>5. N = Nat
  BY <1>2, <1>3, <1>4, EveryNat
<1> QED
  BY <1>1, <1>5 DEF N
-----------------------------------------------------------------------------
(* The order of the values of a sequence (module Sorting).                   *)

LEMMA UpToSize ==
  ASSUME NEW n \in Nat
  PROVE  IsFiniteSet(1..n) /\ Cardinality(1..n) = n
<1>1. IsFiniteSet(1..n) /\ Cardinality(1..n) = IF 1 > n THEN 0 ELSE n - 1 + 1
  BY FS_Interval
<1> QED
  BY <1>1

LEMMA UpToIs ==
  ASSUME NEW s \in Seq(Int), NEW p \in 1..Len(s)
  PROVE  /\ UpTo(s, p) \in SUBSET (1..Len(s)) /\ p \in UpTo(s, p)
         /\ IsFiniteSet(UpTo(s, p)) /\ Cardinality(UpTo(s, p)) \in 1..Len(s)
<1>1. Len(s) \in Nat /\ DOMAIN s = 1..Len(s) /\ s[p] \in Int /\ p \in Nat
  OBVIOUS
<1>2. UpTo(s, p) \in SUBSET (1..Len(s)) /\ p \in UpTo(s, p)
  BY <1>1 DEF UpTo
<1>3. IsFiniteSet(1..Len(s)) /\ Cardinality(1..Len(s)) = Len(s)
  BY <1>1, UpToSize
<1>4. IsFiniteSet(UpTo(s, p)) /\ Cardinality(UpTo(s, p)) <= Len(s)
  BY <1>2, <1>3, FS_Subset
<1>5. Cardinality(UpTo(s, p)) \in Nat /\ Cardinality(UpTo(s, p)) # 0
  BY <1>2, <1>4, FS_CardinalityType, FS_EmptySet
<1> QED
  BY <1>1, <1>2, <1>4, <1>5

LEMMA UpToGrows ==
  ASSUME NEW s \in Seq(Int), NEW p \in 1..Len(s), NEW q \in 1..Len(s),
         s[p] < s[q] \/ (s[p] = s[q] /\ p < q)
  PROVE  Cardinality(UpTo(s, p)) < Cardinality(UpTo(s, q))
<1>1. DOMAIN s = 1..Len(s) /\ p \in Nat /\ q \in Nat /\ \A k \in 1..Len(s) : s[k] \in Int /\ k \in Nat
  OBVIOUS
<1>2. UpTo(s, p) \in SUBSET UpTo(s, q)
  BY <1>1 DEF UpTo
<1>3. q \notin UpTo(s, p) /\ q \in UpTo(s, q)
  BY <1>1 DEF UpTo
<1>4. /\ IsFiniteSet(UpTo(s, q)) /\ Cardinality(UpTo(s, q)) \in Nat
      /\ Cardinality(UpTo(s, p)) \in Nat
  <2>1. IsFiniteSet(UpTo(s, q)) /\ Cardinality(UpTo(s, q)) \in 1..Len(s)
    BY UpToIs
  <2>2. Cardinality(UpTo(s, p)) \in 1..Len(s)
    BY UpToIs
  <2> QED
    BY <2>1, <2>2
<1>5. /\ Cardinality(UpTo(s, p)) <= Cardinality(UpTo(s, q))
      /\ Cardinality(UpTo(s, q)) = Cardinality(UpTo(s, p)) => UpTo(s, q) = UpTo(s, p)
  BY <1>2, <1>4, FS_Subset
<1> QED
  BY <1>3, <1>4, <1>5

\* Every position has a rank, and every rank a position.
LEMMA InOrderIs ==
  ASSUME NEW s \in Seq(Int)
  PROVE  /\ InOrder(s) \in [1..Len(s) -> 1..Len(s)]
         /\ \A r \in 1..Len(s) : Cardinality(UpTo(s, InOrder(s)[r])) = r
         /\ \A p \in 1..Len(s) : InOrder(s)[Cardinality(UpTo(s, p))] = p
<1> DEFINE n == Len(s)
           rank == [p \in 1..n |-> Cardinality(UpTo(s, p))]
<1>1. n \in Nat /\ DOMAIN s = 1..n /\ \A k \in 1..n : s[k] \in Int /\ k \in Nat
  OBVIOUS
<1>2. rank \in [1..n -> 1..n]
  BY UpToIs
<1>3. ASSUME NEW p \in 1..n, NEW q \in 1..n, Cardinality(UpTo(s, p)) = Cardinality(UpTo(s, q))
      PROVE  p = q
  <2>1. Cardinality(UpTo(s, p)) \in Nat /\ Cardinality(UpTo(s, q)) \in Nat
    BY UpToIs
  <2>2. ~(s[p] < s[q] \/ (s[p] = s[q] /\ p < q))
    BY <1>3, <2>1, UpToGrows
  <2>3. ~(s[q] < s[p] \/ (s[q] = s[p] /\ q < p))
    BY <1>3, <2>1, UpToGrows
  <2> QED
    BY <1>1, <2>2, <2>3
<1>4. rank \in Injection(1..n, 1..n)
  BY <1>2, <1>3 DEF Injection, IsInjective
<1>5. IsFiniteSet(1..n)
  BY <1>1, FS_Interval
<1>6. rank \in Surjection(1..n, 1..n)
  BY <1>4, <1>5, FS_Injection
<1>7. \A r \in 1..n : \E p \in 1..n : Cardinality(UpTo(s, p)) = r
  BY <1>6 DEF Surjection
<1>8. \A r \in 1..n : InOrder(s)[r] \in 1..n /\ Cardinality(UpTo(s, InOrder(s)[r])) = r
  BY <1>1, <1>7 DEF InOrder
<1>9. \A p \in 1..n : InOrder(s)[Cardinality(UpTo(s, p))] = p
  <2>1. SUFFICES ASSUME NEW p \in 1..n
                 PROVE  InOrder(s)[Cardinality(UpTo(s, p))] = p
    OBVIOUS
  <2>2. Cardinality(UpTo(s, p)) \in 1..n
    BY UpToIs
  <2> QED
    BY <1>3, <1>8, <2>2
<1> QED
  BY <1>1, <1>8, <1>9 DEF InOrder
-----------------------------------------------------------------------------
(* The scoring of shots: the fold, one prediction at a time.                 *)

LEMMA DistType ==
  ASSUME NEW a \in Int, NEW b \in Int
  PROVE  Dist(a, b) \in Nat /\ Dist(a, b) = Dist(b, a)
BY DEF Dist

LEMMA PairIs ==
  ASSUME NEW truth \in Seq(Int), NEW tolerance \in Nat, NEW used, NEW at \in Int
  PROVE  LET t == Pair(truth, tolerance, used, at)
         IN  \/ t = 0 /\ \A u \in (1..Len(truth)) \ used : Dist(truth[u], at) > tolerance
             \/ t \in (1..Len(truth)) \ used /\ Dist(truth[t], at) <= tolerance
<1> DEFINE near == {t \in DOMAIN truth \ used : Dist(truth[t], at) <= tolerance}
           best == {t \in near : \A s \in near : Dist(truth[t], at) <= Dist(truth[s], at)}
<1>1. DOMAIN truth = 1..Len(truth) /\ Len(truth) \in Nat /\ \A u \in 1..Len(truth) : Dist(truth[u], at) \in Nat
  <2>1. DOMAIN truth = 1..Len(truth) /\ Len(truth) \in Nat /\ \A u \in 1..Len(truth) : truth[u] \in Int
    OBVIOUS
  <2>2. \A a \in Int : Dist(a, at) \in Nat
    BY DistType
  <2> QED
    BY <2>1, <2>2
<1>2. Pair(truth, tolerance, used, at) = IF near = {} THEN 0 ELSE Max(best)
  BY DEF Pair
<1>3. CASE near = {}
  <2>1. \A u \in (1..Len(truth)) \ used : ~(Dist(truth[u], at) <= tolerance)
    BY <1>1, <1>3
  <2> QED
    BY <1>1, <1>2, <1>3, <2>1
<1>4. CASE near # {}
  <2>1. near \in SUBSET (1..Len(truth)) /\ best \in SUBSET near
    BY <1>1
  <2>2. best # {}
    <3> DEFINE dists == {Dist(truth[t], at) : t \in near}
    <3>1. dists \in SUBSET Nat /\ dists # {}
      BY <1>1, <1>4
    <3>2. PICK d \in dists : \A e \in dists : d <= e
      BY <3>1, LeastNat
    <3>3. PICK t \in near : d = Dist(truth[t], at)
      BY <3>2
    <3>4. t \in best
      BY <3>2, <3>3
    <3> QED
      BY <3>4
  <2>3. best \in SUBSET (1..Len(truth))
    BY <2>1
  <2>4. Max(best) \in best
    BY <1>1, <2>2, <2>3, PickMax
  <2> QED
    BY <1>1, <1>2, <1>4, <2>4
<1> QED
  BY <1>3, <1>4

MatchStep(predicted, truth, tolerance, pairs, p) ==
  LET t == Pair(truth, tolerance, {m[2] : m \in pairs}, predicted[p])
  IN  IF t = 0 THEN pairs ELSE pairs \cup {<<p, t>>}

MatchFold(predicted, truth, tolerance) ==
  CHOOSE f : f = [s \in SUBSET DOMAIN InOrder(predicted) |->
     IF s = {} THEN {} ELSE MatchStep(predicted, truth, tolerance, f[s \ {Max(s)}], InOrder(predicted)[Max(s)])]

LEMMA MatchIsFold ==
  ASSUME NEW predicted, NEW truth, NEW tolerance
  PROVE  Match(predicted, truth, tolerance) = MatchFold(predicted, truth, tolerance)[DOMAIN InOrder(predicted)]
BY DEF Match, MatchFold, FoldLeft, MapThenFoldSet, MatchStep

LEMMA MatchStepType ==
  ASSUME NEW predicted \in Seq(Int), NEW truth \in Seq(Int), NEW tolerance \in Nat,
         NEW pairs \in SUBSET ((1..Len(predicted)) \X (1..Len(truth))), NEW p \in 1..Len(predicted)
  PROVE  MatchStep(predicted, truth, tolerance, pairs, p) \in SUBSET ((1..Len(predicted)) \X (1..Len(truth)))
<1> DEFINE t == Pair(truth, tolerance, {m[2] : m \in pairs}, predicted[p])
<1>1. predicted[p] \in Int
  OBVIOUS
<1>2. t = 0 \/ t \in 1..Len(truth)
  BY <1>1, PairIs
<1>3. t # 0 => <<p, t>> \in (1..Len(predicted)) \X (1..Len(truth))
  BY <1>2
<1>4. MatchStep(predicted, truth, tolerance, pairs, p) = IF t = 0 THEN pairs ELSE pairs \cup {<<p, t>>}
  BY DEF MatchStep
<1> HIDE DEF t
<1> QED
  BY <1>3, <1>4

LEMMA MatchFoldIs ==
  ASSUME NEW predicted \in Seq(Int), NEW truth \in Seq(Int), NEW tolerance \in Nat
  PROVE  LET n == Len(predicted)
             f == MatchFold(predicted, truth, tolerance)
         IN  /\ Match(predicted, truth, tolerance) = f[1..n]
             /\ f[{}] = {}
             /\ \A i \in 1..n :
                  f[1..i] = MatchStep(predicted, truth, tolerance, f[1..i - 1], InOrder(predicted)[i])
<1> DEFINE n == Len(predicted)
           T == SUBSET ((1..n) \X (1..Len(truth)))
           seq == InOrder(predicted)
           step == [x \in T \X (1..n) |-> MatchStep(predicted, truth, tolerance, x[1], seq[x[2]])]
           pick == [s \in SUBSET (1..n) |-> Max(s)]
           Is(f) == f = [s \in SUBSET DOMAIN seq |->
                           IF s = {} THEN {} ELSE MatchStep(predicted, truth, tolerance, f[s \ {Max(s)}], seq[Max(s)])]
<1>1. n \in Nat /\ DOMAIN seq = 1..n /\ \A i \in 1..n : seq[i] \in 1..n
  <2>1. InOrder(predicted) \in [1..n -> 1..n]
    BY InOrderIs
  <2>2. n \in Nat
    OBVIOUS
  <2> HIDE DEF n
  <2> QED
    BY <2>1, <2>2
<1> HIDE DEF seq
<1>2. step \in [T \X (1..n) -> T]
  BY <1>1, MatchStepType
<1> HIDE DEF n
<1>3. \A s \in SUBSET (1..n) : s # {} => Max(s) \in s
  BY <1>1, PickMax
<1>4. \E f : Is(f)
  <2>1. {} \in T /\ \A s \in SUBSET (1..n) : s # {} => pick[s] \in s
    BY <1>3
  <2>f. IsFiniteSet(1..n)
    BY <1>1, FS_Interval
  <2> HIDE DEF step, pick, T
  <2>2. PICK g \in [SUBSET (1..n) -> T] : Folds(g, 1..n, {}, step, pick)
    BY <1>2, <2>1, <2>f, FoldExists
  <2>3. ASSUME NEW s \in SUBSET (1..n), s # {}
        PROVE  g[s] = MatchStep(predicted, truth, tolerance, g[s \ {Max(s)}], seq[Max(s)])
    <3>1. pick[s] = Max(s) /\ Max(s) \in 1..n /\ g[s \ {Max(s)}] \in T
      BY <1>1, <1>3, <2>3 DEF pick
    <3>2. g[s] = step[<<g[s \ {Max(s)}], Max(s)>>]
      BY <2>2, <2>3, <3>1 DEF Folds
    <3> QED
      BY <3>1, <3>2 DEF step
  <2>4. Is(g)
    BY <1>1, <2>2, <2>3 DEF Folds
  <2> QED
    BY <2>4
<1>5. Is(MatchFold(predicted, truth, tolerance))
  BY <1>4 DEF MatchFold, seq
<1>6. Match(predicted, truth, tolerance) = MatchFold(predicted, truth, tolerance)[1..n]
  BY <1>1, MatchIsFold DEF seq
<1> DEFINE f == MatchFold(predicted, truth, tolerance)
<1> HIDE DEF f
<1>7. f = [s \in SUBSET DOMAIN seq |->
             IF s = {} THEN {} ELSE MatchStep(predicted, truth, tolerance, f[s \ {Max(s)}], seq[Max(s)])]
  BY <1>5 DEF f
<1>8. f[{}] = {}
  BY <1>7
<1>9. ASSUME NEW i \in 1..n
      PROVE  f[1..i] = MatchStep(predicted, truth, tolerance, f[1..i - 1], seq[i])
  <2>1. 1..i \in SUBSET DOMAIN seq /\ 1..i # {} /\ Max(1..i) = i /\ (1..i) \ {Max(1..i)} = 1..i - 1
    BY <1>1, PrefixSets
  <2>2. f[1..i] = MatchStep(predicted, truth, tolerance, f[(1..i) \ {Max(1..i)}], seq[Max(1..i)])
    BY <1>7, <2>1
  <2> QED
    BY <2>1, <2>2
<1> QED
  BY <1>6, <1>8, <1>9 DEF f, n, seq

\* What holds of the pairs after the first i predictions in order of time.
PairsUpTo(predicted, truth, tolerance, i, pairs) ==
  /\ pairs \in SUBSET ((1..Len(predicted)) \X (1..Len(truth)))
  /\ \A m \in pairs : \E k \in 1..i : m[1] = InOrder(predicted)[k]
  /\ \A m, n \in pairs : (m[1] = n[1] \/ m[2] = n[2]) => m = n
  /\ \A m \in pairs : Dist(predicted[m[1]], truth[m[2]]) <= tolerance
  /\ \A k \in 1..i : (\A m \in pairs : m[1] # InOrder(predicted)[k]) =>
       \A t \in 1..Len(truth) : (\A m \in pairs : m[2] # t) =>
         Dist(predicted[InOrder(predicted)[k]], truth[t]) > tolerance

LEMMA MatchStepKeeps ==
  ASSUME NEW predicted \in Seq(Int), NEW truth \in Seq(Int), NEW tolerance \in Nat, NEW i \in 1..Len(predicted),
         NEW pairs, PairsUpTo(predicted, truth, tolerance, i - 1, pairs)
  PROVE  PairsUpTo(predicted, truth, tolerance, i, MatchStep(predicted, truth, tolerance, pairs, InOrder(predicted)[i]))
<1> DEFINE np == Len(predicted)
           nt == Len(truth)
           ord == InOrder(predicted)
           p == ord[i]
           used == {m[2] : m \in pairs}
           t == Pair(truth, tolerance, used, predicted[p])
           r == MatchStep(predicted, truth, tolerance, pairs, p)
<1>1. /\ ord \in [1..np -> 1..np] /\ i \in Nat /\ np \in Nat /\ nt \in Nat
      /\ \A k \in 1..np : k # i => ord[k] # p
      /\ p \in 1..np /\ predicted[p] \in Int
  <2>1. /\ InOrder(predicted) \in [1..Len(predicted) -> 1..Len(predicted)]
        /\ \A k \in 1..Len(predicted) : Cardinality(UpTo(predicted, InOrder(predicted)[k])) = k
    BY InOrderIs
  <2>2. \A k \in 1..np : k # i => ord[k] # p
    BY <2>1
  <2>3. p \in 1..np
    BY <2>1
  <2>4. i \in Nat /\ np \in Nat /\ nt \in Nat /\ \A k \in 1..np : predicted[k] \in Int
    OBVIOUS
  <2> QED
    BY <2>1, <2>2, <2>3, <2>4
<1>2. /\ pairs \in SUBSET ((1..np) \X (1..nt))
      /\ \A m \in pairs : \E k \in 1..i - 1 : m[1] = ord[k]
      /\ \A m, n \in pairs : (m[1] = n[1] \/ m[2] = n[2]) => m = n
      /\ \A m \in pairs : Dist(predicted[m[1]], truth[m[2]]) <= tolerance
      /\ \A k \in 1..i - 1 : (\A m \in pairs : m[1] # ord[k]) =>
           \A u \in 1..nt : (\A m \in pairs : m[2] # u) => Dist(predicted[ord[k]], truth[u]) > tolerance
  BY DEF PairsUpTo
<1>3. \/ t = 0 /\ \A u \in (1..nt) \ used : Dist(truth[u], predicted[p]) > tolerance
      \/ t \in (1..nt) \ used /\ Dist(truth[t], predicted[p]) <= tolerance
  BY <1>1, PairIs
<1>4. \A u \in 1..nt : Dist(truth[u], predicted[p]) = Dist(predicted[p], truth[u])
  <2>1. \A u \in 1..nt : truth[u] \in Int
    OBVIOUS
  <2> QED
    BY <1>1, <2>1, DistType
<1>5. \A k \in 1..i : k = i \/ k \in 1..i - 1
  BY <1>1
<1>6. \A k \in 1..i - 1 : k \in 1..i /\ k \in 1..np /\ k # i
  BY <1>1
<1>7. r = IF t = 0 THEN pairs ELSE pairs \cup {<<p, t>>}
  BY DEF MatchStep
<1>8. \A m \in pairs : m[1] # p
  BY <1>1, <1>2, <1>6
<1>9. i \in 1..i
  BY <1>1
<1> HIDE DEF t, r, p, ord, np, nt
<1>10. CASE t = 0
  <2>1. r = pairs
    BY <1>7, <1>10
  <2>2. \A u \in 1..nt : (\A m \in pairs : m[2] # u) => Dist(predicted[p], truth[u]) > tolerance
    <3>1. ~(0 \in 1..nt)
      BY <1>1
    <3> QED
      BY <1>3, <1>4, <1>10, <3>1
  <2>3. \A m \in pairs : \E k \in 1..i : m[1] = ord[k]
    BY <1>2, <1>6
  <2>4. ASSUME NEW k \in 1..i, \A m \in pairs : m[1] # ord[k], NEW u \in 1..nt, \A m \in pairs : m[2] # u
        PROVE  Dist(predicted[ord[k]], truth[u]) > tolerance
    BY <1>2, <1>5, <2>2, <2>4 DEF p
  <2>5. PairsUpTo(predicted, truth, tolerance, i, pairs)
    BY <1>2, <2>3, <2>4 DEF PairsUpTo, ord, np, nt
  <2> QED
    BY <2>1, <2>5 DEF r, p, ord
<1>11. CASE t # 0
  <2>1. r = pairs \cup {<<p, t>>} /\ t \in 1..nt /\ \A m \in pairs : m[2] # t
    BY <1>3, <1>7, <1>11
  <2>2. Dist(predicted[p], truth[t]) <= tolerance
    BY <1>3, <1>4, <1>11
  <2>3. r \in SUBSET ((1..np) \X (1..nt))
    <3>1. <<p, t>> \in (1..np) \X (1..nt)
      BY <1>1, <2>1
    <3> QED
      BY <1>2, <2>1, <3>1
  <2>4. \A m \in r : m \in pairs \/ (m = <<p, t>> /\ m[1] = p /\ m[2] = t)
    BY <2>1
  <2>5. ASSUME NEW m \in r
        PROVE  \E k \in 1..i : m[1] = ord[k]
    BY <1>2, <1>6, <1>9, <2>4 DEF p
  <2>6. ASSUME NEW m \in r, NEW n \in r, m[1] = n[1] \/ m[2] = n[2]
        PROVE  m = n
    BY <1>2, <1>8, <2>1, <2>4, <2>6
  <2>7. ASSUME NEW m \in r
        PROVE  Dist(predicted[m[1]], truth[m[2]]) <= tolerance
    BY <1>2, <2>2, <2>4
  <2>8. ASSUME NEW k \in 1..i, \A m \in r : m[1] # ord[k], NEW u \in 1..nt, \A m \in r : m[2] # u
        PROVE  Dist(predicted[ord[k]], truth[u]) > tolerance
    <3>1. k # i
      <4>1. <<p, t>> \in r /\ <<p, t>>[1] = p
        BY <2>1
      <4> QED
        BY <2>8, <4>1 DEF p
    <3>2. \A m \in pairs : m \in r
      BY <2>1
    <3> QED
      BY <1>2, <1>5, <2>8, <3>1, <3>2
  <2>9. PairsUpTo(predicted, truth, tolerance, i, r)
    BY <2>3, <2>5, <2>6, <2>7, <2>8 DEF PairsUpTo, ord, np, nt
  <2> QED
    BY <2>9 DEF r, p, ord
<1> QED
  BY <1>10, <1>11

LEMMA MatchKeeps ==
  ASSUME NEW predicted \in Seq(Int), NEW truth \in Seq(Int), NEW tolerance \in Nat
  PROVE  PairsUpTo(predicted, truth, tolerance, Len(predicted), Match(predicted, truth, tolerance))
<1> DEFINE n == Len(predicted)
           f == MatchFold(predicted, truth, tolerance)
           N == {i \in Nat : i <= n => PairsUpTo(predicted, truth, tolerance, i, f[1..i])}
<1>1. /\ n \in Nat /\ Match(predicted, truth, tolerance) = f[1..n] /\ f[{}] = {}
      /\ \A i \in 1..n : f[1..i] = MatchStep(predicted, truth, tolerance, f[1..i - 1], InOrder(predicted)[i])
  BY MatchFoldIs
<1> HIDE DEF f
<1>2. 0 \in N
  <2>1. 1..0 = {} /\ f[1..0] = {}
    BY <1>1
  <2>2. PairsUpTo(predicted, truth, tolerance, 0, {})
    BY <2>1 DEF PairsUpTo
  <2> QED
    BY <2>1, <2>2
<1>3. ASSUME NEW i \in N
      PROVE  i + 1 \in N
  <2>1. CASE i + 1 <= n
    <3>1. i + 1 \in 1..Len(predicted) /\ i + 1 - 1 = i
      BY <1>1, <2>1
    <3>2. PairsUpTo(predicted, truth, tolerance, i, f[1..i])
      BY <1>1, <2>1
    <3>3. PairsUpTo(predicted, truth, tolerance, i + 1,
                    MatchStep(predicted, truth, tolerance, f[1..i], InOrder(predicted)[i + 1]))
      BY <3>1, <3>2, MatchStepKeeps
    <3> QED
      BY <1>1, <3>1, <3>3
  <2>2. CASE ~(i + 1 <= n)
    BY <2>2
  <2> QED
    BY <2>1, <2>2
<1>4. N \in SUBSET Nat
  OBVIOUS
<1> HIDE DEF N
<1>5. N = Nat
  BY <1>2, <1>3, <1>4, EveryNat
<1> QED
  BY <1>1, <1>5 DEF N

\* The detection and the scoring of shots are right, whatever the recordings
\* (inference/audio_shot.py, eval/audio_detection_eval.py).
THEOREM ShotsAreCounted == Spec => []ShotsCounted
<1>1. Computed => ShotsCounted
  <2>1. ASSUME Computed, Done("detect")
        PROVE  /\ \A k \in 1..Len(result) - 1 : result[k + 1] - result[k] >= task.gap
               /\ \A i \in task.out : i \notin ToSet(result) =>
                    \E s \in task.out \ {i} : Dist(i, s) < task.gap /\ task.flux[s] >= task.flux[i]
    <3>1. result = Emit(task.flux, task.out, task.gap)
      BY <2>1 DEF Computed, Done
    <3>2. task.flux \in Seq(Int) /\ task.out \in SUBSET (1..Len(task.flux)) /\ task.gap \in Nat
      <4>1. task \in Tasks /\ task.kind = "detect"
        BY <2>1 DEF Computed, Done
      <4>2. task.flux \in Seq(Int) /\ task.out \subseteq DOMAIN task.flux /\ task.gap \in Nat
        BY <4>1, TasksAssumption
      <4>3. DOMAIN task.flux = 1..Len(task.flux)
        BY <4>2
      <4> QED
        BY <4>2, <4>3
    <3>3. ShotsUpTo(task.flux, task.out, task.gap, Len(task.flux), result)
      BY <3>1, <3>2, EmitKeeps
    <3>4. /\ result \in Seq(1..Len(task.flux)) /\ \A k \in 1..Len(result) - 1 : result[k + 1] - result[k] >= task.gap
          /\ \A j \in task.out : j <= Len(task.flux) /\ (\A k \in 1..Len(result) : result[k] # j) =>
               \E s \in task.out \ {j} : Dist(j, s) < task.gap /\ task.flux[s] >= task.flux[j]
      BY <3>3 DEF ShotsUpTo
    <3>5. \A i \in task.out : i <= Len(task.flux)
      BY <3>2
    <3>6. \A i : i \notin ToSet(result) => \A k \in 1..Len(result) : result[k] # i
      <4>1. DOMAIN result = 1..Len(result)
        BY <3>4
      <4> QED
        BY <4>1 DEF ToSet
    <3> QED
      BY <3>4, <3>5, <3>6
  <2>2. ASSUME Computed, Done("match")
        PROVE  /\ \A m, n \in result : (m[1] = n[1] \/ m[2] = n[2]) => m = n
               /\ \A m \in result : Dist(task.predicted[m[1]], task.truth[m[2]]) <= task.tolerance
               /\ \A p \in DOMAIN task.predicted \ {m[1] : m \in result} :
                    \A t \in DOMAIN task.truth \ {m[2] : m \in result} :
                      Dist(task.predicted[p], task.truth[t]) > task.tolerance
    <3>1. result = Match(task.predicted, task.truth, task.tolerance)
      BY <2>2 DEF Computed, Done
    <3>2. task.predicted \in Seq(Int) /\ task.truth \in Seq(Int) /\ task.tolerance \in Nat
      <4>1. task \in Tasks /\ task.kind = "match"
        BY <2>2 DEF Computed, Done
      <4> QED
        BY <4>1, TasksAssumption
    <3>3. PairsUpTo(task.predicted, task.truth, task.tolerance, Len(task.predicted), result)
      BY <3>1, <3>2, MatchKeeps
    <3>4. /\ \A m, n \in result : (m[1] = n[1] \/ m[2] = n[2]) => m = n
          /\ \A m \in result : Dist(task.predicted[m[1]], task.truth[m[2]]) <= task.tolerance
          /\ \A k \in 1..Len(task.predicted) : (\A m \in result : m[1] # InOrder(task.predicted)[k]) =>
               \A t \in 1..Len(task.truth) : (\A m \in result : m[2] # t) =>
                 Dist(task.predicted[InOrder(task.predicted)[k]], task.truth[t]) > task.tolerance
      BY <3>3 DEF PairsUpTo
    <3>5. ASSUME NEW p \in DOMAIN task.predicted \ {m[1] : m \in result},
                 NEW t \in DOMAIN task.truth \ {m[2] : m \in result}
          PROVE  Dist(task.predicted[p], task.truth[t]) > task.tolerance
      <4>1. p \in 1..Len(task.predicted) /\ t \in 1..Len(task.truth)
        BY <3>2
      <4>2. /\ Cardinality(UpTo(task.predicted, p)) \in 1..Len(task.predicted)
            /\ InOrder(task.predicted)[Cardinality(UpTo(task.predicted, p))] = p
        <5>1. Cardinality(UpTo(task.predicted, p)) \in 1..Len(task.predicted)
          BY <3>2, <4>1, UpToIs
        <5>2. \A x \in 1..Len(task.predicted) : InOrder(task.predicted)[Cardinality(UpTo(task.predicted, x))] = x
          BY <3>2, InOrderIs
        <5> QED
          BY <4>1, <5>1, <5>2
      <4>3. (\A m \in result : m[1] # p) /\ (\A m \in result : m[2] # t)
        OBVIOUS
      <4> QED
        BY <3>4, <4>1, <4>2, <4>3
    <3> QED
      BY <3>4, <3>5
  <2> QED
    BY <2>1, <2>2 DEF ShotsCounted
<1> QED
  BY <1>1, IsComputed, PTL
-----------------------------------------------------------------------------
(* The choice of samples: Gonzalez' argument for the farthest-first choice.  *)

LEMMA SquareIsNat ==
  ASSUME NEW u \in Int
  PROVE  u * u \in Nat
<1>1. CASE u >= 0
  BY <1>1
<1>2. CASE u < 0
  <2>1. -u \in Nat /\ u * u = (-u) * (-u)
    BY <1>2
  <2> QED
    BY <2>1
<1> QED
  BY <1>1, <1>2

LEMMA SquareOfDifference ==
  ASSUME NEW u \in Int, NEW v \in Int
  PROVE  (u - v) * (u - v) <= 2 * (u * u) + 2 * (v * v)
<1>1. (u + v) * (u + v) \in Nat
  BY SquareIsNat
<1>2. (u - v) * (u - v) + (u + v) * (u + v) = 2 * (u * u) + 2 * (v * v)
  OBVIOUS
<1> QED
  BY <1>1, <1>2

Plane == Int \X Int

LEMMA ApartIs ==
  ASSUME NEW x \in Plane, NEW y \in Plane
  PROVE  Apart2(x, y) \in Nat /\ Apart2(x, y) = Apart2(y, x)
<1>1. x[1] \in Int /\ x[2] \in Int /\ y[1] \in Int /\ y[2] \in Int
  BY DEF Plane
<1>2. x[1] - y[1] \in Int /\ x[2] - y[2] \in Int
  BY <1>1
<1>3. (x[1] - y[1]) * (x[1] - y[1]) \in Nat /\ (x[2] - y[2]) * (x[2] - y[2]) \in Nat
  BY <1>2, SquareIsNat
<1>4. /\ (x[1] - y[1]) * (x[1] - y[1]) = (y[1] - x[1]) * (y[1] - x[1])
      /\ (x[2] - y[2]) * (x[2] - y[2]) = (y[2] - x[2]) * (y[2] - x[2])
  BY <1>1
<1> QED
  BY <1>3, <1>4 DEF Apart2

\* Two points near a third are near each other.
LEMMA ApartTwice ==
  ASSUME NEW x \in Plane, NEW y \in Plane, NEW z \in Plane
  PROVE  Apart2(x, y) <= 2 * Apart2(x, z) + 2 * Apart2(y, z)
<1>1. /\ x[1] \in Int /\ x[2] \in Int /\ y[1] \in Int /\ y[2] \in Int
      /\ z[1] \in Int /\ z[2] \in Int
  BY DEF Plane
<1> DEFINE One(k) == (x[k] - y[k]) * (x[k] - y[k])
           Two(k) == (x[k] - z[k]) * (x[k] - z[k])
           Three(k) == (y[k] - z[k]) * (y[k] - z[k])
<1>2. ASSUME NEW k \in {1, 2}
      PROVE  One(k) <= 2 * Two(k) + 2 * Three(k) /\ One(k) \in Nat /\ Two(k) \in Nat /\ Three(k) \in Nat
  <2>1. x[k] \in Int /\ y[k] \in Int /\ z[k] \in Int
    BY <1>1
  <2>2. x[k] - z[k] \in Int /\ y[k] - z[k] \in Int /\ x[k] - y[k] \in Int
        /\ x[k] - y[k] = (x[k] - z[k]) - (y[k] - z[k])
    BY <2>1
  <2>3. One(k) <= 2 * Two(k) + 2 * Three(k)
    BY <2>2, SquareOfDifference
  <2>4. One(k) \in Nat /\ Two(k) \in Nat /\ Three(k) \in Nat
    BY <2>2, SquareIsNat
  <2> QED
    BY <2>3, <2>4
<1>3. Apart2(x, y) = One(1) + One(2) /\ Apart2(x, z) = Two(1) + Two(2) /\ Apart2(y, z) = Three(1) + Three(2)
  BY DEF Apart2
<1> HIDE DEF One, Two, Three
<1> QED
  BY <1>2, <1>3

LEMMA ImageIsFinite ==
  ASSUME NEW S, IsFiniteSet(S), NEW f, DOMAIN f = S
  PROVE  IsFiniteSet({f[x] : x \in S})
<1> DEFINE T == {f[x] : x \in S}
           g == [x \in S |-> f[x]]
<1>1. g \in Surjection(S, T)
  BY DEF Surjection
<1> QED
  BY <1>1, FS_Surjection

LEMMA MinOfNat ==
  ASSUME NEW S \in SUBSET Nat, S # {}
  PROVE  Min(S) \in S /\ \A y \in S : Min(S) <= y
<1>1. \E x \in S : \A y \in S : x <= y
  BY LeastNat
<1> QED
  BY <1>1 DEF Min

LEMMA ArgMaxIs ==
  ASSUME NEW n \in Nat \ {0}, NEW p \in [1..n -> Int]
  PROVE  ArgMax(p) \in 1..n /\ \A d \in 1..n : p[d] <= p[ArgMax(p)]
<1> DEFINE best == {c \in DOMAIN p : \A d \in DOMAIN p : p[d] <= p[c]}
           values == {p[x] : x \in 1..n}
<1>1. DOMAIN p = 1..n /\ 1 \in 1..n
  OBVIOUS
<1>2. IsFiniteSet(1..n)
  BY FS_Interval
<1>3. IsFiniteSet(values) /\ values \in SUBSET Int /\ values # {}
  BY <1>1, <1>2, ImageIsFinite
<1>4. PICK v \in values : \A y \in values : y <= v
  BY <1>3, FiniteHasEnds
<1>5. PICK c \in 1..n : p[c] = v
  BY <1>4
<1>6. c \in best
  BY <1>1, <1>4, <1>5
<1>7. best \in SUBSET Nat /\ best # {}
  BY <1>1, <1>6
<1>8. Min(best) \in best
  BY <1>7, MinOfNat
<1>9. ArgMax(p) = Min(best)
  BY DEF ArgMax
<1> QED
  BY <1>1, <1>8, <1>9

Between(points, i, j) == Apart2(points[i], points[j])

CoreState(n) == [chosen : Seq(1..n), dist : [1..n -> Nat]]
CoreBase(points, first) == [chosen |-> <<first>>, dist |-> [i \in DOMAIN points |-> Apart2(points[i], points[first])]]
CoreStep(points, c) ==
  LET next == ArgMax(c.dist)
  IN  [chosen |-> Append(c.chosen, next), dist |-> Nearest(points, c.dist, next)]

CoreFold(points, budget, first) ==
  CHOOSE f : f = [s \in SUBSET DOMAIN [step \in 1..budget - 1 |-> step] |->
     IF s = {} THEN CoreBase(points, first) ELSE CoreStep(points, f[s \ {Max(s)}])]

LEMMA CoresetIsFold ==
  ASSUME NEW points, NEW budget, NEW first
  PROVE  Coreset(points, budget, first)
           = CoreFold(points, budget, first)[DOMAIN [step \in 1..budget - 1 |-> step]].chosen
BY DEF Coreset, CoreFold, FoldLeft, MapThenFoldSet, CoreStep, CoreBase

\* What holds when i points have been chosen: how far every point is from them, and
\* no two of them are nearer than any point is to the nearest of them.
CoreUpTo(points, i, c) ==
  /\ c \in CoreState(Len(points)) /\ Len(c.chosen) = i
  /\ \A p \in 1..Len(points) :
       /\ \E m \in 1..i : c.dist[p] = Between(points, p, c.chosen[m])
       /\ \A m \in 1..i : c.dist[p] <= Between(points, p, c.chosen[m])
       /\ \A a, b \in 1..i : a # b => c.dist[p] <= Between(points, c.chosen[a], c.chosen[b])

LEMMA BetweenIs ==
  ASSUME NEW points \in Seq(Plane), NEW i \in 1..Len(points), NEW j \in 1..Len(points)
  PROVE  Between(points, i, j) \in Nat /\ Between(points, i, j) = Between(points, j, i)
<1>1. points[i] \in Plane /\ points[j] \in Plane
  OBVIOUS
<1> QED
  BY <1>1, ApartIs DEF Between

LEMMA NearestIs ==
  ASSUME NEW points \in Seq(Plane), NEW old \in [1..Len(points) -> Nat], NEW new \in 1..Len(points)
  PROVE  /\ Nearest(points, old, new) \in [1..Len(points) -> Nat]
         /\ \A p \in 1..Len(points) :
              LET d == Nearest(points, old, new)[p]
              IN  /\ d = old[p] \/ d = Between(points, p, new)
                  /\ d <= old[p] /\ d <= Between(points, p, new)
<1>1. DOMAIN points = 1..Len(points)
  OBVIOUS
<1>2. ASSUME NEW p \in 1..Len(points)
      PROVE  LET d == Nearest(points, old, new)[p]
             IN  d \in Nat /\ (d = old[p] \/ d = Between(points, p, new)) /\ d <= old[p] /\ d <= Between(points, p, new)
  <2> DEFINE both == {old[p], Between(points, p, new)}
  <2>1. Nearest(points, old, new)[p] = Min(both)
    BY <1>1 DEF Nearest, Between
  <2>2. Between(points, p, new) \in Nat /\ old[p] \in Nat
    BY BetweenIs
  <2>3. Min(both) \in both /\ \A y \in both : Min(both) <= y
    BY <2>2, MinOfNat
  <2> QED
    BY <2>1, <2>2, <2>3
<1>3. Nearest(points, old, new) \in [1..Len(points) -> Nat]
  <2>1. Nearest(points, old, new)
          = [i \in 1..Len(points) |-> Min({old[i], Apart2(points[i], points[new])})]
    BY <1>1 DEF Nearest
  <2>2. \A p \in 1..Len(points) : Nearest(points, old, new)[p] \in Nat
    BY <1>2
  <2> QED
    BY <2>1, <2>2
<1> QED
  BY <1>2, <1>3

LEMMA CoreBaseIs ==
  ASSUME NEW points \in Seq(Plane), NEW first \in 1..Len(points)
  PROVE  CoreUpTo(points, 1, CoreBase(points, first))
<1> DEFINE c == CoreBase(points, first)
           n == Len(points)
<1>1. DOMAIN points = 1..n
  OBVIOUS
<1>2. c.chosen = <<first>> /\ c.dist = [i \in 1..n |-> Between(points, i, first)]
  BY <1>1 DEF CoreBase, Between
<1>3. c = [chosen |-> c.chosen, dist |-> c.dist]
  BY DEF CoreBase
<1>4. \A i \in 1..n : Between(points, i, first) \in Nat
  BY BetweenIs
<1>5. c.chosen \in Seq(1..n) /\ Len(c.chosen) = 1 /\ c.chosen[1] = first
  BY <1>2
<1>6. c.dist \in [1..n -> Nat] /\ \A i \in 1..n : c.dist[i] = Between(points, i, first)
  BY <1>2, <1>4
<1>7. c \in CoreState(n)
  BY <1>3, <1>5, <1>6 DEF CoreState
<1>8. \A m \in 1..1 : m = 1
  OBVIOUS
<1> HIDE DEF c
<1>9. CoreUpTo(points, 1, c)
  BY <1>4, <1>5, <1>6, <1>7, <1>8 DEF CoreUpTo
<1> QED
  BY <1>9 DEF c

LEMMA CoreStepType ==
  ASSUME NEW points \in Seq(Plane), points # <<>>, NEW c \in CoreState(Len(points))
  PROVE  /\ CoreStep(points, c) \in CoreState(Len(points))
         /\ ArgMax(c.dist) \in 1..Len(points) /\ \A d \in 1..Len(points) : c.dist[d] <= c.dist[ArgMax(c.dist)]
         /\ CoreStep(points, c).chosen = Append(c.chosen, ArgMax(c.dist))
         /\ CoreStep(points, c).dist = Nearest(points, c.dist, ArgMax(c.dist))
<1>1. c.chosen \in Seq(1..Len(points)) /\ c.dist \in [1..Len(points) -> Nat] /\ Len(points) \in Nat \ {0}
  BY DEF CoreState
<1>2. ArgMax(c.dist) \in 1..Len(points) /\ \A d \in 1..Len(points) : c.dist[d] <= c.dist[ArgMax(c.dist)]
  <2>1. c.dist \in [1..Len(points) -> Int]
    BY <1>1
  <2> QED
    BY <1>1, <2>1, ArgMaxIs
<1>3. Append(c.chosen, ArgMax(c.dist)) \in Seq(1..Len(points))
  BY <1>1, <1>2, AppendIs
<1>4. Nearest(points, c.dist, ArgMax(c.dist)) \in [1..Len(points) -> Nat]
  BY <1>1, <1>2, NearestIs
<1> QED
  BY <1>2, <1>3, <1>4 DEF CoreStep, CoreState

LEMMA CoreStepKeeps ==
  ASSUME NEW points \in Seq(Plane), points # <<>>, NEW i \in Nat \ {0}, NEW c, CoreUpTo(points, i, c)
  PROVE  CoreUpTo(points, i + 1, CoreStep(points, c))
<1> DEFINE n == Len(points)
           next == ArgMax(c.dist)
           r == CoreStep(points, c)
<1>1. /\ c \in CoreState(n) /\ Len(c.chosen) = i
      /\ \A p \in 1..n :
           /\ \E m \in 1..i : c.dist[p] = Between(points, p, c.chosen[m])
           /\ \A m \in 1..i : c.dist[p] <= Between(points, p, c.chosen[m])
           /\ \A a, b \in 1..i : a # b => c.dist[p] <= Between(points, c.chosen[a], c.chosen[b])
  BY DEF CoreUpTo
<1>2. /\ r \in CoreState(n) /\ next \in 1..n /\ \A d \in 1..n : c.dist[d] <= c.dist[next]
      /\ r.chosen = Append(c.chosen, next) /\ r.dist = Nearest(points, c.dist, next)
  BY <1>1, CoreStepType
<1>3. c.chosen \in Seq(1..n) /\ c.dist \in [1..n -> Nat]
  BY <1>1 DEF CoreState
<1>4. Len(r.chosen) = i + 1 /\ r.chosen[i + 1] = next /\ \A m \in 1..i : r.chosen[m] = c.chosen[m]
  BY <1>1, <1>2, <1>3, AppendIs
<1>5. \A m \in 1..i : c.chosen[m] \in 1..n
  BY <1>1, <1>3
<1>6. r.dist \in [1..n -> Nat] /\ \A p \in 1..n :
         /\ r.dist[p] = c.dist[p] \/ r.dist[p] = Between(points, p, next)
         /\ r.dist[p] <= c.dist[p] /\ r.dist[p] <= Between(points, p, next)
  <2>1. /\ Nearest(points, c.dist, next) \in [1..n -> Nat]
        /\ \A p \in 1..n :
             LET d == Nearest(points, c.dist, next)[p]
             IN  /\ d = c.dist[p] \/ d = Between(points, p, next)
                 /\ d <= c.dist[p] /\ d <= Between(points, p, next)
    <3>1. c.dist \in [1..Len(points) -> Nat] /\ next \in 1..Len(points)
      BY <1>2, <1>3
    <3> HIDE DEF next
    <3> QED
      BY <3>1, NearestIs
  <2>2. r.dist = Nearest(points, c.dist, next)
    BY <1>2
  <2> HIDE DEF r, next, n
  <2> QED
    BY <2>1, <2>2
<1>7. \A p, q \in 1..n : Between(points, p, q) \in Nat /\ Between(points, p, q) = Between(points, q, p)
  BY BetweenIs
<1>8. \A m \in 1..i + 1 : m = i + 1 \/ m \in 1..i
  OBVIOUS
<1>8b. i + 1 \in 1..i + 1 /\ \A m \in 1..i : m \in 1..i + 1
  OBVIOUS
<1>8c. \A m \in 1..i + 1 : r.chosen[m] \in 1..n
  BY <1>2, <1>4, <1>5, <1>8
<1> HIDE DEF r, next, n
<1>9. ASSUME NEW p \in 1..n
      PROVE  /\ \E m \in 1..i + 1 : r.dist[p] = Between(points, p, r.chosen[m])
             /\ \A m \in 1..i + 1 : r.dist[p] <= Between(points, p, r.chosen[m])
             /\ \A a, b \in 1..i + 1 : a # b => r.dist[p] <= Between(points, r.chosen[a], r.chosen[b])
  <2>0. c.dist[p] \in Nat /\ r.dist[p] \in Nat /\ r.dist[p] <= c.dist[p] /\ c.dist[next] \in Nat
    BY <1>2, <1>3, <1>6
  <2>1. \E m \in 1..i + 1 : r.dist[p] = Between(points, p, r.chosen[m])
    <3>1. CASE r.dist[p] = Between(points, p, next)
      BY <1>4, <1>8b, <3>1
    <3>2. CASE r.dist[p] = c.dist[p]
      <4>1. PICK m \in 1..i : c.dist[p] = Between(points, p, c.chosen[m])
        BY <1>1 DEF n
      <4> QED
        BY <1>4, <1>8b, <3>2, <4>1
    <3> QED
      BY <1>6, <3>1, <3>2
  <2>2. ASSUME NEW m \in 1..i + 1
        PROVE  r.dist[p] <= Between(points, p, r.chosen[m])
    <3>1. CASE m = i + 1
      BY <1>4, <1>6, <3>1
    <3>2. CASE m \in 1..i
      <4>1. c.dist[p] <= Between(points, p, c.chosen[m]) /\ Between(points, p, c.chosen[m]) \in Nat
        BY <1>1, <1>5, <1>7, <3>2 DEF n
      <4> QED
        BY <1>4, <2>0, <3>2, <4>1
    <3> QED
      BY <1>8, <3>1, <3>2
  <2>3. ASSUME NEW m \in 1..i
        PROVE  r.dist[p] <= Between(points, next, c.chosen[m]) /\ r.dist[p] <= Between(points, c.chosen[m], next)
    <3>1. c.dist[next] <= Between(points, next, c.chosen[m]) /\ c.dist[p] <= c.dist[next]
      BY <1>1, <1>2 DEF n
    <3>2. Between(points, next, c.chosen[m]) \in Nat /\ Between(points, next, c.chosen[m]) = Between(points, c.chosen[m], next)
      BY <1>2, <1>5, <1>7
    <3> QED
      BY <2>0, <3>1, <3>2
  <2>4. ASSUME NEW a \in 1..i, NEW b \in 1..i, a # b
        PROVE  r.dist[p] <= Between(points, c.chosen[a], c.chosen[b])
    <3>1. c.dist[p] <= Between(points, c.chosen[a], c.chosen[b]) /\ Between(points, c.chosen[a], c.chosen[b]) \in Nat
      BY <1>1, <1>5, <1>7, <2>4 DEF n
    <3> QED
      BY <2>0, <3>1
  <2>5. ASSUME NEW a \in 1..i + 1, NEW b \in 1..i + 1, a # b
        PROVE  r.dist[p] <= Between(points, r.chosen[a], r.chosen[b])
    BY <1>4, <1>8, <2>3, <2>4, <2>5
  <2> QED
    BY <2>1, <2>2, <2>5
<1> QED
  BY <1>2, <1>4, <1>9 DEF CoreUpTo, r, n

LEMMA CoreFoldIs ==
  ASSUME NEW points \in Seq(Plane), NEW budget \in 1..Len(points), NEW first \in 1..Len(points)
  PROVE  LET f == CoreFold(points, budget, first)
         IN  /\ Coreset(points, budget, first) = f[1..budget - 1].chosen
             /\ f[{}] = CoreBase(points, first)
             /\ \A i \in 1..budget - 1 : f[1..i] = CoreStep(points, f[1..i - 1])
<1> DEFINE n == budget - 1
           T == CoreState(Len(points))
           seq == [step \in 1..budget - 1 |-> step]
           base == CoreBase(points, first)
           step == [x \in T \X (1..n) |-> CoreStep(points, x[1])]
           pick == [s \in SUBSET (1..n) |-> Max(s)]
           Is(f) == f = [s \in SUBSET DOMAIN seq |->
                           IF s = {} THEN CoreBase(points, first) ELSE CoreStep(points, f[s \ {Max(s)}])]
<1>0. points # <<>>
  OBVIOUS
<1>1. n \in Nat /\ DOMAIN seq = 1..n
  OBVIOUS
<1>2. step \in [T \X (1..n) -> T]
  BY <1>0, CoreStepType
<1>b. base \in T
  BY CoreBaseIs DEF CoreUpTo
<1> HIDE DEF n, seq
<1>3. \A s \in SUBSET (1..n) : s # {} => Max(s) \in s
  BY <1>1, PickMax
<1>4. \E f : Is(f)
  <2>1. \A s \in SUBSET (1..n) : s # {} => pick[s] \in s
    BY <1>3
  <2>f. IsFiniteSet(1..n)
    BY <1>1, FS_Interval
  <2> HIDE DEF step, pick, T, base
  <2>2. PICK g \in [SUBSET (1..n) -> T] : Folds(g, 1..n, base, step, pick)
    BY <1>2, <1>b, <2>1, <2>f, FoldExists
  <2>3. ASSUME NEW s \in SUBSET (1..n), s # {}
        PROVE  g[s] = CoreStep(points, g[s \ {Max(s)}])
    <3>1. pick[s] = Max(s) /\ Max(s) \in 1..n /\ g[s \ {Max(s)}] \in T
      BY <1>1, <1>3, <2>3 DEF pick
    <3>2. g[s] = step[<<g[s \ {Max(s)}], Max(s)>>]
      BY <2>2, <2>3, <3>1 DEF Folds
    <3> QED
      BY <3>1, <3>2 DEF step
  <2>4. Is(g)
    BY <1>1, <2>2, <2>3 DEF Folds, base
  <2> QED
    BY <2>4
<1>5. Is(CoreFold(points, budget, first))
  BY <1>4 DEF CoreFold, seq
<1>6. Coreset(points, budget, first) = CoreFold(points, budget, first)[1..n].chosen
  BY <1>1, CoresetIsFold DEF seq
<1> DEFINE f == CoreFold(points, budget, first)
<1> HIDE DEF f
<1>7. f = [s \in SUBSET DOMAIN seq |->
             IF s = {} THEN CoreBase(points, first) ELSE CoreStep(points, f[s \ {Max(s)}])]
  BY <1>5 DEF f
<1>8. f[{}] = CoreBase(points, first)
  BY <1>7
<1>9. ASSUME NEW i \in 1..n
      PROVE  f[1..i] = CoreStep(points, f[1..i - 1])
  <2>1. 1..i \in SUBSET DOMAIN seq /\ 1..i # {} /\ Max(1..i) = i /\ (1..i) \ {Max(1..i)} = 1..i - 1
    BY <1>1, PrefixSets
  <2>2. f[1..i] = CoreStep(points, f[(1..i) \ {Max(1..i)}])
    BY <1>7, <2>1
  <2> QED
    BY <2>1, <2>2
<1> QED
  BY <1>6, <1>8, <1>9 DEF f, n

LEMMA CoresetKeeps ==
  ASSUME NEW points \in Seq(Plane), NEW budget \in 1..Len(points), NEW first \in 1..Len(points)
  PROVE  \E c : CoreUpTo(points, budget, c) /\ Coreset(points, budget, first) = c.chosen
<1> DEFINE n == budget - 1
           f == CoreFold(points, budget, first)
           N == {i \in Nat : i <= n => CoreUpTo(points, i + 1, f[1..i])}
<1>0. n \in Nat /\ n + 1 = budget /\ points # <<>>
  OBVIOUS
<1>1. /\ Coreset(points, budget, first) = f[1..n].chosen /\ f[{}] = CoreBase(points, first)
      /\ \A i \in 1..n : f[1..i] = CoreStep(points, f[1..i - 1])
  BY CoreFoldIs
<1> HIDE DEF f, n
<1>2. 0 \in N
  <2>1. 1..0 = {} /\ f[1..0] = CoreBase(points, first) /\ 0 + 1 = 1
    BY <1>1
  <2>2. CoreUpTo(points, 1, CoreBase(points, first))
    BY CoreBaseIs
  <2> QED
    BY <2>1, <2>2
<1>3. ASSUME NEW i \in N
      PROVE  i + 1 \in N
  <2>1. CASE i + 1 <= n
    <3>1. i + 1 \in 1..n /\ i + 1 - 1 = i /\ i + 1 \in Nat \ {0}
      BY <1>0, <2>1
    <3>2. CoreUpTo(points, i + 1, f[1..i])
      BY <1>0, <2>1
    <3>3. CoreUpTo(points, i + 1 + 1, CoreStep(points, f[1..i]))
      BY <1>0, <3>1, <3>2, CoreStepKeeps
    <3> QED
      BY <1>1, <3>1, <3>3
  <2>2. CASE ~(i + 1 <= n)
    BY <2>2
  <2> QED
    BY <2>1, <2>2
<1>4. N \in SUBSET Nat
  OBVIOUS
<1> HIDE DEF N
<1>5. N = Nat
  BY <1>2, <1>3, <1>4, EveryNat
<1>6. CoreUpTo(points, budget, f[1..n])
  BY <1>0, <1>5 DEF N
<1> QED
  BY <1>1, <1>6

\* How far the farthest point is from the points of C.
RadiusOf(points, C) == Max({Min({Apart2(points[i], points[c]) : c \in C}) : i \in DOMAIN points})

LEMMA RadiusIs ==
  ASSUME NEW points \in Seq(Plane), points # <<>>, NEW C \in SUBSET (1..Len(points)), C # {}
  PROVE  /\ RadiusOf(points, C) \in Nat
         /\ \A p \in 1..Len(points) : \E c \in C : Between(points, p, c) <= RadiusOf(points, C)
         /\ \E p \in 1..Len(points) : \A c \in C : RadiusOf(points, C) <= Between(points, p, c)
<1> DEFINE n == Len(points)
           from(i) == {Apart2(points[i], points[c]) : c \in C}
           near == [i \in 1..n |-> Min(from(i))]
           all == {near[i] : i \in 1..n}
<1>1. n \in Nat \ {0} /\ DOMAIN points = 1..n /\ 1 \in 1..n
  OBVIOUS
<1>2. ASSUME NEW i \in 1..n
      PROVE  /\ near[i] \in Nat /\ \E c \in C : near[i] = Between(points, i, c)
             /\ \A c \in C : near[i] <= Between(points, i, c)
  <2>1. \A c \in C : Apart2(points[i], points[c]) \in Nat
    BY BetweenIs DEF Between
  <2>2. from(i) \in SUBSET Nat /\ from(i) # {}
    BY <2>1
  <2>3. Min(from(i)) \in from(i) /\ \A y \in from(i) : Min(from(i)) <= y
    BY <2>2, MinOfNat
  <2>4. near[i] = Min(from(i))
    OBVIOUS
  <2> QED
    BY <2>2, <2>3, <2>4 DEF Between
<1>3. RadiusOf(points, C) = Max(all)
  <2>1. {Min({Apart2(points[i], points[c]) : c \in C}) : i \in DOMAIN points} = all
    BY <1>1
  <2> QED
    BY <2>1 DEF RadiusOf
<1>4. DOMAIN near = 1..n /\ IsFiniteSet(1..n)
  BY <1>1, FS_Interval
<1> HIDE DEF near
<1>5. all \in SUBSET Nat /\ all # {}
  BY <1>1, <1>2
<1>6. IsFiniteSet(all)
  BY <1>4, ImageIsFinite
<1>7. Max(all) \in all /\ \A y \in all : y <= Max(all)
  <2>1. all \in SUBSET Int
    BY <1>5
  <2> HIDE DEF all
  <2> QED
    BY <1>5, <1>6, <2>1, MaxIs
<1>8. PICK q \in 1..n : Max(all) = near[q]
  BY <1>7
<1>9. ASSUME NEW p \in 1..n
      PROVE  \E c \in C : Between(points, p, c) <= Max(all)
  <2>1. near[p] <= Max(all)
    BY <1>7
  <2> QED
    BY <1>2, <2>1
<1> QED
  BY <1>2, <1>3, <1>8, <1>9

\* Of budget + 1 points that are pairwise as far apart as the farthest point is from
\* the chosen ones, two have the same nearest point in any set of budget points.
LEMMA CoresetIsNear ==
  ASSUME NEW points \in Seq(Plane), NEW budget \in 1..Len(points), NEW first \in 1..Len(points),
         NEW C \in SUBSET (1..Len(points)), Cardinality(C) = budget
  PROVE  RadiusOf(points, ToSet(Coreset(points, budget, first))) <= 4 * RadiusOf(points, C)
<1> DEFINE n == Len(points)
           near == RadiusOf(points, C)
<1>1. PICK c : CoreUpTo(points, budget, c) /\ Coreset(points, budget, first) = c.chosen
  BY CoresetKeeps
<1>2. /\ c \in CoreState(n) /\ Len(c.chosen) = budget /\ budget \in Nat \ {0} /\ points # <<>> /\ n \in Nat
      /\ \A p \in 1..n :
           /\ \E m \in 1..budget : c.dist[p] = Between(points, p, c.chosen[m])
           /\ \A m \in 1..budget : c.dist[p] <= Between(points, p, c.chosen[m])
           /\ \A a, b \in 1..budget : a # b => c.dist[p] <= Between(points, c.chosen[a], c.chosen[b])
  BY <1>1 DEF CoreUpTo
<1>3. c.chosen \in Seq(1..n) /\ c.dist \in [1..n -> Nat] /\ \A m \in 1..budget : c.chosen[m] \in 1..n
  BY <1>2 DEF CoreState
<1> DEFINE B == ToSet(c.chosen)
           far == RadiusOf(points, B)
<1>4. B = {c.chosen[m] : m \in 1..budget}
  <2>1. DOMAIN c.chosen = 1..budget
    BY <1>2, <1>3
  <2> QED
    BY <2>1 DEF ToSet
<1>5. B \in SUBSET (1..n) /\ B # {}
  BY <1>2, <1>3, <1>4
<1> HIDE DEF B
<1>6. far \in Nat /\ \E p \in 1..n : \A x \in B : far <= Between(points, p, x)
  BY <1>2, <1>5, RadiusIs
<1>7. PICK p \in 1..n : \A x \in B : far <= Between(points, p, x)
  BY <1>6
<1> HIDE DEF n
<1>8. PICK m \in 1..budget : c.dist[p] = Between(points, p, c.chosen[m])
  BY <1>2
<1>9. far <= c.dist[p] /\ c.dist[p] \in Nat
  BY <1>3, <1>4, <1>7, <1>8
<1>10. IsFiniteSet(C) /\ C # {}
  <2>1. IsFiniteSet(1..Len(points))
    BY FS_Interval
  <2>2. IsFiniteSet(C)
    BY <2>1, FS_Subset
  <2> QED
    BY <1>2, <2>2, FS_EmptySet
<1>11. near \in Nat /\ \A q \in 1..n : \E x \in C : Between(points, q, x) <= near
  BY <1>2, <1>10, RadiusIs DEF n
<1> DEFINE spot == [k \in 1..budget + 1 |-> IF k = budget + 1 THEN p ELSE c.chosen[k]]
           center == [k \in 1..budget + 1 |-> CHOOSE x \in C : Between(points, spot[k], x) <= near]
<1>12. \A k \in 1..budget + 1 : k = budget + 1 \/ k \in 1..budget
  BY <1>2
<1>13. \A k \in 1..budget + 1 : spot[k] \in 1..n
  BY <1>3, <1>12
<1>14. ASSUME NEW a \in 1..budget + 1, NEW b \in 1..budget + 1, a # b
       PROVE  far <= Between(points, spot[a], spot[b])
  <2>1. spot[budget + 1] = p /\ \A k \in 1..budget : spot[k] = c.chosen[k]
    BY <1>2
  <2>2. \A k \in 1..budget : /\ far <= Between(points, p, c.chosen[k])
                             /\ Between(points, p, c.chosen[k]) = Between(points, c.chosen[k], p)
    <3>1. \A k \in 1..budget : far <= Between(points, p, c.chosen[k])
      BY <1>4, <1>7
    <3>2. \A k \in 1..budget : Between(points, p, c.chosen[k]) = Between(points, c.chosen[k], p)
      BY <1>3, BetweenIs DEF n
    <3> QED
      BY <3>1, <3>2
  <2>3. CASE a = budget + 1
    <3>1. b \in 1..budget
      BY <1>12, <1>14, <2>3
    <3> QED
      BY <2>1, <2>2, <2>3, <3>1
  <2>4. CASE b = budget + 1
    <3>1. a \in 1..budget
      BY <1>12, <1>14, <2>4
    <3> QED
      BY <2>1, <2>2, <2>4, <3>1
  <2>5. CASE a # budget + 1 /\ b # budget + 1
    <3>1. a \in 1..budget /\ b \in 1..budget
      BY <1>12, <2>5
    <3>2. c.dist[p] <= Between(points, c.chosen[a], c.chosen[b])
      BY <1>2, <1>14, <3>1
    <3>3. Between(points, c.chosen[a], c.chosen[b]) \in Nat
      BY <1>3, <3>1, BetweenIs DEF n
    <3>4. far <= Between(points, c.chosen[a], c.chosen[b])
      BY <1>6, <1>9, <3>2, <3>3
    <3> QED
      BY <2>1, <3>1, <3>4
  <2> QED
    BY <2>3, <2>4, <2>5
<1> HIDE DEF spot
<1>15. \A k \in 1..budget + 1 : center[k] \in C /\ Between(points, spot[k], center[k]) <= near
  BY <1>11, <1>13
<1>16. center \in [1..budget + 1 -> C]
  BY <1>15
<1> HIDE DEF center
<1>17. PICK a, b \in 1..budget + 1 : a # b /\ center[a] = center[b]
  <2>1. IsFiniteSet(1..budget + 1) /\ Cardinality(1..budget + 1) = budget + 1
    BY <1>2, UpToSize
  <2>2. Cardinality(C) < Cardinality(1..budget + 1)
    BY <1>2, <2>1
  <2> QED
    BY <1>10, <1>16, <2>1, <2>2, FS_PigeonHole
<1>18. /\ Between(points, spot[a], spot[b]) \in Nat /\ far <= Between(points, spot[a], spot[b])
       /\ Between(points, spot[a], center[a]) \in Nat /\ Between(points, spot[a], center[a]) <= near
       /\ Between(points, spot[b], center[a]) \in Nat /\ Between(points, spot[b], center[a]) <= near
  <2>1. spot[a] \in 1..n /\ spot[b] \in 1..n /\ center[a] \in 1..n
    BY <1>13, <1>15 DEF n
  <2>2. \A x, y \in 1..n : Between(points, x, y) \in Nat
    BY BetweenIs DEF n
  <2> QED
    BY <1>14, <1>15, <1>17, <2>1, <2>2
<1>19. Between(points, spot[a], spot[b])
         <= 2 * Between(points, spot[a], center[a]) + 2 * Between(points, spot[b], center[a])
  <2>1. points[spot[a]] \in Plane /\ points[spot[b]] \in Plane /\ points[center[a]] \in Plane
    <3>1. \A x \in 1..n : points[x] \in Plane
      BY DEF n
    <3>2. spot[a] \in 1..n /\ spot[b] \in 1..n /\ center[a] \in 1..n
      BY <1>13, <1>15 DEF n
    <3> QED
      BY <3>1, <3>2
  <2> QED
    BY <2>1, ApartTwice DEF Between
<1> HIDE DEF far, near
<1>20. far <= 4 * near
  BY <1>6, <1>11, <1>18, <1>19
<1> QED
  BY <1>1, <1>20 DEF far, near, B

\* Whatever the points, the budget and the first choice: the farthest point from the
\* chosen ones is at most twice as far, four times in squares, as with the best
\* choice of as many (training/active_learning.py, select_coreset).
THEOREM CoresetAlwaysNearBest == Spec => []CoresetNearBest
<1>1. Computed => CoresetNearBest
  <2> SUFFICES ASSUME Computed, Done("coreset")
               PROVE  CoresetNearBest
    BY DEF CoresetNearBest
  <2> DEFINE n == Len(task.points)
             few == kSubset(task.budget, DOMAIN task.points)
             radii == {RadiusOf(task.points, C) : C \in few}
  <2>1. result = Coreset(task.points, task.budget, task.first)
    BY DEF Computed, Done
  <2>2. task.points \in Seq(Plane) /\ task.budget \in 1..n /\ task.first \in 1..n /\ DOMAIN task.points = 1..n
    <3>1. task \in Tasks /\ task.kind = "coreset"
      BY DEF Computed, Done
    <3>2. task.points \in Seq(Int \X Int) /\ task.budget \in 1..Len(task.points) /\ task.first \in DOMAIN task.points
      BY <3>1, TasksAssumption
    <3> QED
      BY <3>2 DEF Plane
  <2>3. few = {s \in SUBSET (1..n) : Cardinality(s) = task.budget}
    BY <2>2 DEF kSubset
  <2>4. few # {}
    <3>1. 1..task.budget \in SUBSET (1..n) /\ task.budget \in Nat
      BY <2>2
    <3>2. Cardinality(1..task.budget) = task.budget
      BY <3>1, UpToSize
    <3> QED
      BY <2>3, <3>1, <3>2
  <2>5. ASSUME NEW C \in few
        PROVE  /\ RadiusOf(task.points, C) \in Nat
               /\ RadiusOf(task.points, ToSet(result)) <= 4 * RadiusOf(task.points, C)
    <3>1. C \in SUBSET (1..n) /\ Cardinality(C) = task.budget
      BY <2>3
    <3>2. C # {} /\ task.points # <<>>
      <4>1. Cardinality({}) = 0
        BY FS_EmptySet
      <4>2. task.budget # 0 /\ n # 0
        BY <2>2
      <4>3. C # {}
        BY <3>1, <4>1, <4>2
      <4>4. Len(<<>>) = 0
        OBVIOUS
      <4> QED
        BY <4>2, <4>3, <4>4
    <3>3. RadiusOf(task.points, C) \in Nat
      BY <2>2, <3>1, <3>2, RadiusIs
    <3>4. RadiusOf(task.points, ToSet(Coreset(task.points, task.budget, task.first))) <= 4 * RadiusOf(task.points, C)
      BY <2>2, <3>1, CoresetIsNear
    <3> QED
      BY <2>1, <3>3, <3>4
  <2> HIDE DEF few
  <2>6. radii \in SUBSET Nat /\ radii # {}
    BY <2>4, <2>5
  <2>7. Min(radii) \in radii
    BY <2>6, MinOfNat
  <2>8. RadiusOf(task.points, ToSet(result)) <= 4 * Min(radii)
    BY <2>5, <2>7
  <2> QED
    BY <2>8 DEF CoresetNearBest, RadiusOf, few
<1> QED
  BY <1>1, IsComputed, PTL
-----------------------------------------------------------------------------
(* Conformal prediction: of n + 1 samples, one is under the quantile of the  *)
(* others whenever its score is among the first Rank of all.                 *)

LEMMA DivOf ==
  ASSUME NEW n \in Nat \ {0}, NEW q \in Nat, NEW m \in 0..n - 1
  PROVE  (n * q + m) \div n = q /\ (n * q + m) % n = m
OBVIOUS

LEMMA PlaceOfQuantile ==
  ASSUME NEW n \in Nat \ {0}, NEW r \in 1..n
  PROVE  ((n - 1) * r) \div n = r - 1 /\ ((n - 1) * r) % n = n - r
<1>1. (n - 1) * r = n * (r - 1) + (n - r)
  OBVIOUS
<1>2. r - 1 \in Nat /\ n - r \in 0..n - 1
  OBVIOUS
<1> QED
  BY <1>1, <1>2, DivOf

LEMMA HundredthsUp ==
  ASSUME NEW x \in Nat \ {0}, NEW m \in Nat, x <= 100 * m
  PROVE  /\ (x + 99) \div 100 \in 1..m
         /\ 100 * ((x + 99) \div 100) >= x
OBVIOUS

LEMMA RankIs ==
  ASSUME NEW n \in Nat, NEW coverage \in 1..99, (n + 1) * coverage <= 100 * n
  PROVE  n # 0 /\ Rank(n, coverage) \in 1..n /\ 100 * Rank(n, coverage) >= (n + 1) * coverage
<1> DEFINE x == (n + 1) * coverage
           r == (x + 99) \div 100
<1>1. x \in Nat \ {0}
  OBVIOUS
<1>2. r \in 1..n /\ 100 * r >= x
  BY <1>1, HundredthsUp
<1>3. Rank(n, coverage) = Min({n, r})
  BY DEF Rank
<1> HIDE DEF x, r
<1>4. Min({n, r}) \in {n, r} /\ \A y \in {n, r} : Min({n, r}) <= y
  BY <1>2, MinOfNat
<1>5. Min({n, r}) = r
  BY <1>2, <1>4
<1> QED
  BY <1>2, <1>3, <1>5 DEF x

LEMMA SortedIs ==
  ASSUME NEW s \in Seq(Int)
  PROVE  /\ Sorted(s) \in [1..Len(s) -> Int]
         /\ \A r \in 1..Len(s) : Sorted(s)[r] = s[InOrder(s)[r]]
         /\ \A a, b \in 1..Len(s) : a <= b => Sorted(s)[a] <= Sorted(s)[b]
<1> DEFINE n == Len(s)
           ord == InOrder(s)
<1>1. n \in Nat /\ DOMAIN s = 1..n /\ \A k \in 1..n : s[k] \in Int
  OBVIOUS
<1>2. ord \in [1..n -> 1..n] /\ \A r \in 1..n : Cardinality(UpTo(s, ord[r])) = r
  BY InOrderIs
<1>3. /\ Sorted(s) \in [1..n -> Int]
      /\ \A r \in 1..n : Sorted(s)[r] = s[ord[r]] /\ ord[r] \in 1..n
  BY <1>1, <1>2 DEF Sorted
<1>4. ASSUME NEW a \in 1..n, NEW b \in 1..n, a <= b
      PROVE  s[ord[a]] <= s[ord[b]]
  <2>1. ord[a] \in 1..n /\ ord[b] \in 1..n
    BY <1>2
  <2>2. Cardinality(UpTo(s, ord[a])) = a /\ Cardinality(UpTo(s, ord[b])) = b
    BY <1>2
  <2>3. s[ord[a]] \in Int /\ s[ord[b]] \in Int
    BY <1>1, <2>1
  <2> HIDE DEF ord
  <2>4. CASE s[ord[b]] < s[ord[a]]
    <3>1. Cardinality(UpTo(s, ord[b])) < Cardinality(UpTo(s, ord[a]))
      BY <2>1, <2>4, UpToGrows
    <3> QED
      BY <1>1, <1>4, <2>2, <3>1
  <2> QED
    BY <2>3, <2>4
<1> QED
  BY <1>3, <1>4

\* The quantile is at least the score of its rank.
LEMMA QuantileIs ==
  ASSUME NEW s \in Seq(Int), NEW coverage \in 1..99, (Len(s) + 1) * coverage <= 100 * Len(s)
  PROVE  Quantile(s, coverage) \in Int /\ Len(s) * Sorted(s)[Rank(Len(s), coverage)] <= Quantile(s, coverage)
<1> DEFINE n == Len(s)
           r == Rank(n, coverage)
           at == (n - 1) * r
           next == Min({at \div n + 2, n})
           lo == Sorted(s)[at \div n + 1]
           hi == Sorted(s)[next]
<1>1. n \in Nat \ {0} /\ r \in 1..n
  <2>1. n \in Nat
    OBVIOUS
  <2> HIDE DEF n
  <2>2. (n + 1) * coverage <= 100 * n
    BY DEF n
  <2> QED
    BY <2>1, <2>2, RankIs
<1>2. Quantile(s, coverage) = n * lo + (at % n) * (hi - lo)
  BY DEF Quantile
<1> HIDE DEF n, r
<1>3. at \div n = r - 1 /\ at % n = n - r
  BY <1>1, PlaceOfQuantile
<1>4. at \div n + 1 = r /\ at \div n + 2 = r + 1
  BY <1>1, <1>3
<1>5. next \in 1..n /\ r <= next
  <2>1. next = Min({r + 1, n})
    BY <1>4
  <2>2. {r + 1, n} \in SUBSET Nat
    BY <1>1
  <2>3. Min({r + 1, n}) \in {r + 1, n} /\ \A y \in {r + 1, n} : Min({r + 1, n}) <= y
    BY <2>2, MinOfNat
  <2> HIDE DEF next
  <2> QED
    BY <1>1, <2>1, <2>3
<1> HIDE DEF at
<1>6. lo = Sorted(s)[r]
  BY <1>4
<1> HIDE DEF next
<1>7. lo \in Int /\ hi \in Int /\ lo <= hi
  <2>1. /\ Sorted(s) \in [1..n -> Int]
        /\ \A a, b \in 1..n : a <= b => Sorted(s)[a] <= Sorted(s)[b]
    BY SortedIs DEF n
  <2>2. hi = Sorted(s)[next]
    OBVIOUS
  <2> HIDE DEF lo, hi
  <2> QED
    BY <1>1, <1>5, <1>6, <2>1, <2>2
<1>8. at % n \in Nat
  BY <1>1, <1>3
<1> HIDE DEF lo, hi
<1>9. (at % n) * (hi - lo) \in Nat
  BY <1>7, <1>8
<1>10. n * lo <= n * lo + (at % n) * (hi - lo) /\ n * lo + (at % n) * (hi - lo) \in Int
  BY <1>1, <1>7, <1>9
<1> QED
  BY <1>2, <1>6, <1>10 DEF n, r

LEMMA RemoveAtIs ==
  ASSUME NEW S, NEW s \in Seq(S), NEW i \in 1..Len(s)
  PROVE  /\ RemoveAt(s, i) \in Seq(S) /\ Len(RemoveAt(s, i)) = Len(s) - 1
         /\ \A j \in 1..Len(s) - 1 : RemoveAt(s, i)[j] = IF j < i THEN s[j] ELSE s[j + 1]
<1> DEFINE n == Len(s)
           a == SubSeq(s, 1, i - 1)
           b == SubSeq(s, i + 1, n)
<1>1. n \in Nat /\ i \in Nat /\ 1 <= i /\ i <= n /\ \A k \in 1..n : s[k] \in S
  OBVIOUS
<1>2. a \in Seq(S) /\ Len(a) = i - 1 /\ \A k \in 1..i - 1 : a[k] = s[k]
  <2>1. a = [k \in 1..i - 1 |-> s[k]]
    BY <1>1
  <2>2. [k \in 1..i - 1 |-> s[k]] \in [1..i - 1 -> S] /\ i - 1 \in Nat
    BY <1>1
  <2> QED
    BY <2>1, <2>2, FunctionIsSeq
<1>3. b \in Seq(S) /\ Len(b) = n - i /\ \A k \in 1..n - i : b[k] = s[k + i]
  <2>1. b = [k \in 1..n - i |-> s[k + i]]
    BY <1>1
  <2>2. [k \in 1..n - i |-> s[k + i]] \in [1..n - i -> S] /\ n - i \in Nat
    BY <1>1
  <2> QED
    BY <2>1, <2>2, FunctionIsSeq
<1>4. RemoveAt(s, i) = a \o b
  BY DEF RemoveAt
<1> HIDE DEF a, b, n
<1>5. /\ a \o b \in Seq(S) /\ Len(a \o b) = Len(a) + Len(b)
      /\ \A k \in 1..Len(a) : (a \o b)[k] = a[k]
      /\ \A k \in Len(a) + 1..Len(a) + Len(b) : (a \o b)[k] = b[k - Len(a)]
  BY <1>2, <1>3, ConcatIs
<1>6. ASSUME NEW j \in 1..n - 1
      PROVE  (a \o b)[j] = IF j < i THEN s[j] ELSE s[j + 1]
  <2>1. CASE j < i
    <3>1. j \in 1..Len(a) /\ j \in 1..i - 1
      BY <1>1, <1>2, <2>1
    <3> QED
      BY <1>2, <1>5, <2>1, <3>1
  <2>2. CASE ~(j < i)
    <3>1. j \in Len(a) + 1..Len(a) + Len(b)
      BY <1>1, <1>2, <1>3, <2>2
    <3>2. j - Len(a) \in 1..n - i /\ j - Len(a) + i = j + 1
      BY <1>1, <1>2, <2>2
    <3> QED
      BY <1>3, <1>5, <2>2, <3>1, <3>2
  <2> QED
    BY <2>1, <2>2
<1> QED
  BY <1>1, <1>2, <1>3, <1>4, <1>5, <1>6 DEF n

LEMMA SeqIsFunction ==
  ASSUME NEW S, NEW s \in Seq(S)
  PROVE  s \in [1..Len(s) -> S] /\ Len(s) \in Nat /\ DOMAIN s = 1..Len(s)
OBVIOUS

LEMMA SharesAreInts ==
  ASSUME NEW s \in Seq(0..100)
  PROVE  s \in Seq(Int) /\ DOMAIN s = 1..Len(s) /\ Len(s) \in Nat
<1>1. s \in [1..Len(s) -> 0..100] /\ Len(s) \in Nat /\ DOMAIN s = 1..Len(s)
  BY SeqIsFunction
<1>2. \A x \in 0..100 : x \in Int
  OBVIOUS
<1>3. s \in [1..Len(s) -> Int]
  BY <1>1, <1>2
<1> QED
  BY <1>1, <1>3, FunctionIsSeq

LEMMA ConformalSetIs ==
  ASSUME NEW cal \in Seq(Int), NEW x \in Int, NEW coverage \in 1..99,
         (Len(cal) + 1) * coverage <= 100 * Len(cal)
  PROVE  LET scores == [k \in DOMAIN cal |-> 100 - cal[k]]
         IN  100 - x <= Sorted(scores)[Rank(Len(cal), coverage)]
               => 1 \in PredictionSet(cal, <<x, 100 - x>>, coverage)
<1> DEFINE scores == [k \in DOMAIN cal |-> 100 - cal[k]]
           n == Len(cal)
           p == <<x, 100 - x>>
           q == Quantile(scores, coverage)
           top == Sorted(scores)[Rank(n, coverage)]
<1>1. n \in Nat /\ n # 0 /\ Rank(n, coverage) \in 1..n
  <2>1. n \in Nat
    OBVIOUS
  <2>2. (n + 1) * coverage <= 100 * n
    OBVIOUS
  <2> HIDE DEF n
  <2> QED
    BY <2>1, <2>2, RankIs
<1>2. scores \in Seq(Int) /\ Len(scores) = n
  <2>1. scores \in [1..n -> Int]
    OBVIOUS
  <2> QED
    BY <1>1, <2>1, FunctionIsSeq
<1> SUFFICES ASSUME 100 - x <= top
             PROVE  1 \in PredictionSet(cal, p, coverage)
  OBVIOUS
<1>3. n * top <= q /\ q \in Int
  <2>1. (Len(scores) + 1) * coverage <= 100 * Len(scores)
    BY <1>2
  <2> HIDE DEF scores
  <2> QED
    BY <1>2, <2>1, QuantileIs
<1>4. top \in Int
  BY <1>1, <1>2, SortedIs
<1>5. PredictionSet(cal, p, coverage)
        = LET members == IF n = 0 THEN {} ELSE {c \in DOMAIN p : n * (100 - p[c]) <= q}
          IN  IF members = {} THEN {ArgMax(p)} ELSE members
  BY DEF PredictionSet
<1>6. 1 \in DOMAIN p /\ p[1] = x
  OBVIOUS
<1>7. n * (100 - x) <= n * top
  <2> HIDE DEF n, top
  <2> QED
    BY <1>1, <1>4
<1>9. n * (100 - x) <= q
  <2>1. n * (100 - x) \in Int /\ n * top \in Int
    BY <1>1, <1>4
  <2> HIDE DEF n, top, q
  <2> QED
    BY <1>3, <1>7, <2>1
<1> HIDE DEF q, n, p
<1> QED
  BY <1>1, <1>5, <1>6, <1>9

\* The sequence o is s without its k-th element.
LeavesOut(o, s, k) ==
  /\ Len(o) = Len(s) - 1
  /\ \A j \in 1..Len(s) - 1 : o[j] = IF j < k THEN s[j] ELSE s[j + 1]

LEMMA Either ==
  ASSUME NEW a \in Int, NEW b \in Int, a < b \/ a = b
  PROVE  a <= b
OBVIOUS

LEMMA AtMostBelow ==
  ASSUME NEW a \in Int, NEW b \in Int, NEW c \in Int, a <= b, b < c
  PROVE  a < c
OBVIOUS

LEMMA NotBelow ==
  ASSUME NEW a \in Int, NEW b \in Int, ~(a < b)
  PROVE  b <= a
OBVIOUS

LEMMA ShiftIs ==
  ASSUME NEW n \in Nat, NEW k \in 1..n, NEW j \in 1..n - 1
  PROVE  LET m == IF j < k THEN j ELSE j + 1 IN m \in 1..n /\ m # k
OBVIOUS

LEMMA ShiftInjective ==
  ASSUME NEW k \in Nat, NEW i \in Nat, NEW j \in Nat,
         (IF i < k THEN i ELSE i + 1) = (IF j < k THEN j ELSE j + 1)
  PROVE  i = j
OBVIOUS

\* Whichever sample is left out: when its score is among the first r of all, it is at
\* most the r-th of the others.
LEMMA LeftOutIsCovered ==
  ASSUME NEW s \in Seq(Int), NEW o \in Seq(Int), NEW k \in 1..Len(s), LeavesOut(o, s, k),
         NEW r \in 1..Len(s) - 1, Cardinality(UpTo(s, k)) <= r
  PROVE  s[k] <= Sorted(o)[r]
<1> DEFINE n == Len(s)
           at == InOrder(o)[r]
           low == UpTo(o, at)
           move == [j \in low |-> IF j < k THEN j ELSE j + 1]
           before == UpTo(s, k) \ {k}
<1>1. /\ n \in Nat /\ k \in Nat /\ DOMAIN s = 1..n /\ \A j \in 1..n : s[j] \in Int
  OBVIOUS
<1>1b. Len(o) = n - 1 /\ \A j \in 1..n - 1 : o[j] = IF j < k THEN s[j] ELSE s[j + 1]
  BY DEF LeavesOut
<1>2. at \in 1..n - 1 /\ Cardinality(low) = r
  <2>1. /\ InOrder(o) \in [1..Len(o) -> 1..Len(o)]
        /\ \A x \in 1..Len(o) : Cardinality(UpTo(o, InOrder(o)[x])) = x
    BY InOrderIs
  <2>2. r \in 1..Len(o) /\ Len(o) = n - 1
    BY <1>1b
  <2> QED
    BY <2>1, <2>2
<1>3. Sorted(o)[r] = o[at] /\ \A j \in 1..n - 1 : o[j] \in Int
  <2>0. \A x \in 1..Len(o) : Sorted(o)[x] = o[InOrder(o)[x]]
    BY SortedIs
  <2>1. Sorted(o)[r] = o[at]
    BY <1>1b, <2>0
  <2>2. \A j \in 1..n - 1 : o[j] \in Int
    <3>1. \A j \in 1..Len(o) : o[j] \in Int
      OBVIOUS
    <3> QED
      BY <1>1b, <3>1
  <2> QED
    BY <2>1, <2>2
<1>4. low \in SUBSET (1..n - 1) /\ IsFiniteSet(low) /\ \A j \in low : o[j] <= o[at]
  <2>1. low \in SUBSET (1..n - 1) /\ IsFiniteSet(low)
    <3>1. at \in 1..Len(o)
      BY <1>1b, <1>2
    <3>2. UpTo(o, at) \in SUBSET (1..Len(o)) /\ IsFiniteSet(UpTo(o, at))
      BY <3>1, UpToIs
    <3> QED
      BY <1>1b, <3>2
  <2>2. \A j \in low : o[j] < o[at] \/ o[j] = o[at]
    BY DEF UpTo
  <2> HIDE DEF low, at, n
  <2>3. SUFFICES ASSUME NEW j \in low
                 PROVE  o[j] <= o[at]
    BY <2>1
  <2>4. o[j] \in Int /\ o[at] \in Int /\ (o[j] < o[at] \/ o[j] = o[at])
    BY <1>2, <1>3, <2>1, <2>2
  <2> QED
    BY <2>4, Either
<1>5. UpTo(s, k) \in SUBSET (1..n) /\ k \in UpTo(s, k) /\ IsFiniteSet(UpTo(s, k)) /\ Cardinality(UpTo(s, k)) \in Nat
  <2>1. UpTo(s, k) \in SUBSET (1..n) /\ k \in UpTo(s, k) /\ IsFiniteSet(UpTo(s, k)) /\ Cardinality(UpTo(s, k)) \in 1..n
    BY UpToIs
  <2> QED
    BY <2>1
<1>6. IsFiniteSet(before) /\ Cardinality(before) = Cardinality(UpTo(s, k)) - 1
  BY <1>5, FS_RemoveElement
<1>7. ASSUME o[at] < s[k]
      PROVE  FALSE
  <2> HIDE DEF low, at, n
  <2>1. ASSUME NEW j \in low
        PROVE  move[j] \in 1..n /\ move[j] # k /\ s[move[j]] = o[j] /\ move[j] \in before
    <3>1. j \in 1..n - 1 /\ j \in Nat /\ move[j] = IF j < k THEN j ELSE j + 1
      BY <1>1, <1>4
    <3>2. move[j] \in 1..n /\ move[j] # k
      <4>1. k \in 1..n
        BY DEF n
      <4> QED
        BY <1>1, <3>1, <4>1, ShiftIs
    <3>3. s[move[j]] = o[j]
      <4>1. o[j] = IF j < k THEN s[j] ELSE s[j + 1]
        BY <1>1b, <3>1
      <4> QED
        BY <3>1, <4>1
    <3>4. s[move[j]] < s[k]
      <4>1. o[j] <= o[at] /\ o[j] \in Int /\ o[at] \in Int /\ s[k] \in Int
        BY <1>1, <1>2, <1>3, <1>4, <3>1 DEF n
      <4>2. o[j] < s[k]
        BY <1>7, <4>1, AtMostBelow
      <4> QED
        BY <3>3, <4>2
    <3> QED
      BY <1>1, <3>2, <3>3, <3>4 DEF UpTo
  <2>4. ASSUME NEW i \in low, NEW j \in low, move[i] = move[j]
        PROVE  i = j
    <3>1. i \in Nat /\ j \in Nat
      BY <1>1, <1>4
    <3>2. move[i] = (IF i < k THEN i ELSE i + 1) /\ move[j] = (IF j < k THEN j ELSE j + 1)
      OBVIOUS
    <3> HIDE DEF move
    <3> QED
      BY <1>1, <2>4, <3>1, <3>2, ShiftInjective
  <2> HIDE DEF before
  <2>5. move \in Injection(low, before)
    BY <2>1, <2>4 DEF Injection, IsInjective
  <2>6. Cardinality(low) <= Cardinality(before)
    BY <1>6, <2>5, FS_Injection
  <2> QED
    BY <1>2, <1>5, <1>6, <2>6
<1>8. s[k] \in Int
  BY <1>1
<1>9. o[at] \in Int
  BY <1>2, <1>3
<1> HIDE DEF at
<1>10. s[k] <= o[at]
  BY <1>7, <1>8, <1>9, NotBelow
<1> QED
  BY <1>3, <1>10

\* So many samples are covered as there are ranks up to Rank.
LEMMA RanksAreCovered ==
  ASSUME NEW s \in Seq(Int), NEW r \in 1..Len(s), NEW A \in SUBSET (1..Len(s)),
         \A k \in 1..Len(s) : Cardinality(UpTo(s, k)) <= r => k \in A
  PROVE  Cardinality(A) \in Nat /\ r <= Cardinality(A)
<1> DEFINE first == [j \in 1..r |-> InOrder(s)[j]]
<1>1. /\ InOrder(s) \in [1..Len(s) -> 1..Len(s)] /\ Len(s) \in Nat /\ r \in Nat
      /\ \A j \in 1..Len(s) : Cardinality(UpTo(s, InOrder(s)[j])) = j
  BY InOrderIs
<1>2. \A j \in 1..r : j \in 1..Len(s) /\ j <= r
  BY <1>1
<1>3. \A j \in 1..r : first[j] \in A
  BY <1>1, <1>2
<1>4. first \in Injection(1..r, A)
  BY <1>1, <1>2, <1>3 DEF Injection, IsInjective
<1>5. IsFiniteSet(1..Len(s)) /\ IsFiniteSet(1..r) /\ Cardinality(1..r) = r
  BY <1>1, UpToSize
<1>6. IsFiniteSet(A)
  BY <1>5, FS_Subset
<1>7. Cardinality(1..r) <= Cardinality(A)
  BY <1>4, <1>6, FS_Injection
<1> QED
  BY <1>5, <1>6, <1>7, FS_CardinalityType

\* However well the model is calibrated, and with any ties: of n + 1 samples, each
\* predicted from the n others, the promised share is in its set, if n is large
\* enough for the quantile to exist (inference/calibration.py).
THEOREM ConformalAlwaysCovers == Spec => []ConformalCovers
<1>1. Computed => ConformalCovers
  <2>0. ASSUME Computed, Done("conformal")
        PROVE  Len(task.truth) - 1 + 1 = Len(task.truth)
    <3>1. task \in Tasks /\ task.kind = "conformal"
      BY <2>0 DEF Computed, Done
    <3>2. task.truth \in Seq(0..100)
      BY <3>1, TasksAssumption
    <3>3. Len(task.truth) \in Nat
      BY <3>2, SharesAreInts
    <3> QED
      BY <3>3
  <2> SUFFICES ASSUME Computed, Done("conformal"),
                      Len(task.truth) * task.coverage <= 100 * (Len(task.truth) - 1)
               PROVE  100 * Cardinality({k \in DOMAIN result : 1 \in result[k]}) >= task.coverage * Len(task.truth)
    BY <2>0 DEF ConformalCovers
  <2> DEFINE truth == task.truth
             coverage == task.coverage
             n == Len(truth) - 1
             s == [k \in DOMAIN truth |-> 100 - truth[k]]
             A == {k \in DOMAIN result : 1 \in result[k]}
             r == Rank(n, coverage)
  <2>1. truth \in Seq(Int) /\ coverage \in 1..99 /\ DOMAIN truth = 1..Len(truth) /\ Len(truth) \in Nat
    <3>1. task \in Tasks /\ task.kind = "conformal"
      BY DEF Computed, Done
    <3>2. task.truth \in Seq(0..100) /\ task.coverage \in 1..99
      BY <3>1, TasksAssumption
    <3> QED
      BY <3>2, SharesAreInts
  <2>2. result = [k \in 1..Len(truth) |-> PredictionSet(RemoveAt(truth, k), <<truth[k], 100 - truth[k]>>, coverage)]
    <3>1. result = [k \in DOMAIN task.truth |->
                      PredictionSet(RemoveAt(task.truth, k), <<task.truth[k], 100 - task.truth[k]>>, task.coverage)]
      <4>1. task.kind = "conformal" /\ result # Pending
        BY DEF Done
      <4>2. Computed
        OBVIOUS
      <4> QED
        BY ONLY <4>1, <4>2 DEF Computed
    <3> QED
      BY <2>1, <3>1
  <2> HIDE DEF truth, coverage
  <2>3. n \in Nat /\ (n + 1) * coverage <= 100 * n /\ Len(truth) = n + 1
    <3>1. Len(truth) * coverage <= 100 * (Len(truth) - 1)
      BY DEF truth, coverage
    <3>2. Len(truth) # 0
      BY <2>1, <3>1
    <3>3. n \in Nat /\ Len(truth) = n + 1
      BY <2>1, <3>2
    <3> QED
      BY <3>1, <3>3
  <2>4. s \in Seq(Int) /\ Len(s) = n + 1 /\ \A k \in 1..n + 1 : s[k] = 100 - truth[k]
    <3>1. s \in [1..n + 1 -> Int]
      BY <2>1, <2>3
    <3>2. n + 1 \in Nat
      BY <2>3
    <3>3. s \in Seq(Int) /\ Len(s) = n + 1
      BY <3>1, <3>2, FunctionIsSeq
    <3> QED
      BY <2>1, <2>3, <3>3
  <2> HIDE DEF n
  <2>5. r \in 1..n /\ 100 * r >= (n + 1) * coverage
    BY <2>1, <2>3, RankIs
  <2> HIDE DEF s, r
  <2>6. ASSUME NEW k \in 1..n + 1, Cardinality(UpTo(s, k)) <= r
        PROVE  k \in A
    <3> DEFINE cal == RemoveAt(truth, k)
               o == [j \in DOMAIN cal |-> 100 - cal[j]]
    <3>1. /\ cal \in Seq(Int) /\ Len(cal) = n
          /\ \A j \in 1..n : cal[j] = IF j < k THEN truth[j] ELSE truth[j + 1]
      <4>1. k \in 1..Len(truth) /\ Len(truth) - 1 = n
        BY <2>3
      <4> QED
        BY <2>1, <4>1, RemoveAtIs
    <3> HIDE DEF cal
    <3>2. o \in Seq(Int) /\ Len(o) = n /\ \A j \in 1..n : o[j] = 100 - cal[j]
      <4>1. o \in [1..n -> Int] /\ DOMAIN cal = 1..n
        BY <3>1
      <4> QED
        BY <2>3, <4>1, FunctionIsSeq
    <3>3. \A j \in 1..n : o[j] = IF j < k THEN s[j] ELSE s[j + 1]
      BY <2>3, <2>4, <3>1, <3>2
    <3>4. s[k] <= Sorted(o)[r]
      <4>1. Len(s) - 1 = n /\ k \in 1..Len(s) /\ r \in 1..Len(s) - 1 /\ Len(o) = Len(s) - 1
        BY <2>3, <2>4, <2>5, <3>2
      <4> HIDE DEF o
      <4> QED
        <5>1. LeavesOut(o, s, k)
          BY <3>3, <4>1 DEF LeavesOut
        <5> QED
          BY <2>4, <2>6, <3>2, <4>1, <5>1, LeftOutIsCovered
    <3>5. truth[k] \in Int /\ s[k] = 100 - truth[k] /\ k \in 1..Len(truth)
      BY <2>1, <2>3, <2>4
    <3>6. 1 \in PredictionSet(cal, <<truth[k], 100 - truth[k]>>, coverage)
      <4>1. (Len(cal) + 1) * coverage <= 100 * Len(cal)
        BY <2>3, <3>1
      <4>2. 100 - truth[k] <= Sorted(o)[Rank(Len(cal), coverage)]
        BY <3>1, <3>4, <3>5 DEF r
      <4> QED
        BY <2>1, <3>1, <3>5, <4>1, <4>2, ConformalSetIs
    <3> QED
      BY <2>2, <3>5, <3>6 DEF cal
  <2>7. A \in SUBSET (1..Len(s))
    BY <2>2, <2>3, <2>4
  <2> HIDE DEF A
  <2>8. Cardinality(A) \in Nat /\ r <= Cardinality(A)
    <3>1. r \in 1..Len(s) /\ \A k \in 1..Len(s) : Cardinality(UpTo(s, k)) <= r => k \in A
      BY <2>3, <2>4, <2>5, <2>6
    <3> QED
      BY <2>4, <2>7, <3>1, RanksAreCovered
  <2>9. (n + 1) * coverage = coverage * Len(truth) /\ (n + 1) * coverage \in Int
    BY <2>1, <2>3
  <2>10. 100 * Cardinality(A) >= coverage * Len(truth)
    BY <2>3, <2>5, <2>8, <2>9
  <2> QED
    BY <2>10 DEF A, coverage, truth
<1> QED
  BY <1>1, IsComputed, PTL
-----------------------------------------------------------------------------
(* Sums over finite sets: what MapThenSumSet adds up, in any order.          *)

OneOf(s) == CHOOSE x \in s : TRUE

IsTotal(f, S, g) == g = [s \in SUBSET S |-> IF s = {} THEN 0 ELSE f[OneOf(s)] + g[s \ {OneOf(s)}]]

Total(f, S) == (CHOOSE g : IsTotal(f, S, g))[S]

LEMMA SumIsInt ==
  ASSUME NEW u \in Int, NEW v \in Int
  PROVE  u + v \in Int
OBVIOUS

LEMMA Swapped ==
  ASSUME NEW u \in Int, NEW v \in Int, NEW w \in Int
  PROVE  u + (v + w) = v + (u + w)
OBVIOUS

LEMMA OneOfIsIn ==
  ASSUME NEW s, s # {}
  PROVE  OneOf(s) \in s
BY DEF OneOf

LEMMA OneLess ==
  ASSUME NEW s, IsFiniteSet(s), NEW n \in Nat, Cardinality(s) = n + 1
  PROVE  s # {} /\ \A y \in s : Cardinality(s \ {y}) = n
<1>1. s # {}
  <2>1. Cardinality({}) = 0 /\ n + 1 # 0
    BY FS_EmptySet
  <2> QED
    BY <2>1
<1>2. ASSUME NEW y \in s
      PROVE  Cardinality(s \ {y}) = n
  <2>1. Cardinality(s \ {y}) = Cardinality(s) - 1
    BY FS_RemoveElement
  <2> QED
    BY <2>1
<1> QED
  BY <1>1, <1>2

LEMMA PartsAreFinite ==
  ASSUME NEW S, IsFiniteSet(S)
  PROVE  \A s \in SUBSET S : IsFiniteSet(s) /\ Cardinality(s) \in Nat /\ (Cardinality(s) = 0 => s = {})
<1> SUFFICES ASSUME NEW s \in SUBSET S
             PROVE  IsFiniteSet(s) /\ Cardinality(s) \in Nat /\ (Cardinality(s) = 0 => s = {})
  OBVIOUS
<1>1. IsFiniteSet(s)
  BY FS_Subset
<1> QED
  BY <1>1, FS_CardinalityType, FS_EmptySet

IntsOn(f, S) == \A x \in S : f[x] \in Int

\* The function g adds up f over every part of S.
AddsUp(f, S, g) ==
  /\ g[{}] = 0
  /\ \A s \in SUBSET S : s # {} => g[s] = f[OneOf(s)] + g[s \ {OneOf(s)}]

\* The function by which the elements are added.
LEMMA TotalSteps ==
  ASSUME NEW S, IsFiniteSet(S), NEW f, IntsOn(f, S)
  PROVE  \E g : Total(f, S) = g[S] /\ AddsUp(f, S, g) /\ IntsOn(g, SUBSET S)
<1> DEFINE step == [x \in Int \X S |-> f[x[2]] + x[1]]
           pick == [s \in SUBSET S |-> OneOf(s)]
<1>1. step \in [Int \X S -> Int]
  BY DEF IntsOn
<1>2. \A s \in SUBSET S : s # {} => pick[s] \in s
  BY OneOfIsIn
<1> HIDE DEF step, pick
<1>3. 0 \in Int
  OBVIOUS
<1>4. PICK h \in [SUBSET S -> Int] : Folds(h, S, 0, step, pick)
  BY <1>1, <1>2, <1>3, FoldExists
<1>5. ASSUME NEW s \in SUBSET S, s # {}
      PROVE  h[s] = f[OneOf(s)] + h[s \ {OneOf(s)}]
  <2>1. pick[s] = OneOf(s) /\ OneOf(s) \in S /\ h[s \ {OneOf(s)}] \in Int
    BY <1>4, <1>5, OneOfIsIn DEF pick
  <2>2. h[s] = step[<<h[s \ {OneOf(s)}], OneOf(s)>>]
    BY <1>4, <1>5, <2>1 DEF Folds
  <2> QED
    BY <2>1, <2>2 DEF step
<1>6. h = [s \in SUBSET S |-> h[s]] /\ h[{}] = 0
  BY <1>4 DEF Folds
<1>7. IsTotal(f, S, h)
  BY <1>5, <1>6 DEF IsTotal
<1> DEFINE g == CHOOSE g : IsTotal(f, S, g)
<1>8. IsTotal(f, S, g)
  BY <1>7
<1> HIDE DEF g
<1>9. g = [s \in SUBSET S |-> IF s = {} THEN 0 ELSE f[OneOf(s)] + g[s \ {OneOf(s)}]]
  BY <1>8 DEF IsTotal
<1>10. g[{}] = 0 /\ \A s \in SUBSET S : s # {} => g[s] = f[OneOf(s)] + g[s \ {OneOf(s)}]
  BY <1>9
<1>11. \A s \in SUBSET S : g[s] \in Int
  <2> DEFINE N == {n \in Nat : \A s \in SUBSET S : Cardinality(s) = n => g[s] \in Int}
  <2>0. \A s \in SUBSET S : IsFiniteSet(s) /\ Cardinality(s) \in Nat /\ (Cardinality(s) = 0 => s = {})
    BY PartsAreFinite
  <2>1. 0 \in N
    <3>1. ASSUME NEW s \in SUBSET S, Cardinality(s) = 0
          PROVE  g[s] \in Int
      <4>1. s = {}
        BY <2>0, <3>1
      <4>2. g[s] = 0
        BY <1>10, <4>1
      <4> QED
        BY <4>2
    <3> QED
      BY <3>1
  <2>2. ASSUME NEW n \in N
        PROVE  n + 1 \in N
    <3>1. ASSUME NEW s \in SUBSET S, Cardinality(s) = n + 1
          PROVE  g[s] \in Int
      <4>1. IsFiniteSet(s) /\ n \in Nat
        BY <2>0
      <4>2. s # {} /\ \A y \in s : Cardinality(s \ {y}) = n
        BY <3>1, <4>1, OneLess
      <4>3. OneOf(s) \in s
        BY <4>2, OneOfIsIn
      <4>4. g[s \ {OneOf(s)}] \in Int /\ f[OneOf(s)] \in Int
        BY <2>2, <4>2, <4>3 DEF IntsOn
      <4>5. g[s] = f[OneOf(s)] + g[s \ {OneOf(s)}]
        BY <1>10, <4>2
      <4> QED
        BY <4>4, <4>5, SumIsInt
    <3> QED
      BY <3>1
  <2>3. N \in SUBSET Nat
    OBVIOUS
  <2> HIDE DEF N
  <2>4. N = Nat
    BY <2>1, <2>2, <2>3, EveryNat
  <2> QED
    BY <2>0, <2>4 DEF N
<1>12. Total(f, S) = g[S]
  BY DEF Total, g
<1> QED
  BY <1>10, <1>11, <1>12 DEF AddsUp, IntsOn

\* Two such functions agree, whatever sets they are defined for.
LEMMA TotalsAgree ==
  ASSUME NEW S, IsFiniteSet(S), NEW f, NEW g, NEW h, AddsUp(f, S, g), AddsUp(f, S, h)
  PROVE  g[S] = h[S]
<1> DEFINE N == {n \in Nat : \A s \in SUBSET S : Cardinality(s) = n => g[s] = h[s]}
<1>a. /\ g[{}] = 0 /\ h[{}] = 0
      /\ \A s \in SUBSET S : s # {} => g[s] = f[OneOf(s)] + g[s \ {OneOf(s)}]
      /\ \A s \in SUBSET S : s # {} => h[s] = f[OneOf(s)] + h[s \ {OneOf(s)}]
  BY DEF AddsUp
<1>0. \A s \in SUBSET S : IsFiniteSet(s) /\ Cardinality(s) \in Nat /\ (Cardinality(s) = 0 => s = {})
  BY PartsAreFinite
<1>1. 0 \in N
  BY <1>0, <1>a
<1>2. ASSUME NEW n \in N
      PROVE  n + 1 \in N
  <2>1. ASSUME NEW s \in SUBSET S, Cardinality(s) = n + 1
        PROVE  g[s] = h[s]
    <3>1. IsFiniteSet(s) /\ n \in Nat
      BY <1>0
    <3>2. s # {} /\ \A y \in s : Cardinality(s \ {y}) = n
      BY <2>1, <3>1, OneLess
    <3>3. OneOf(s) \in s
      BY <3>2, OneOfIsIn
    <3>4. g[s \ {OneOf(s)}] = h[s \ {OneOf(s)}]
      BY <1>2, <3>2, <3>3
    <3> QED
      BY <1>a, <3>2, <3>4
  <2> QED
    BY <2>1
<1>3. N \in SUBSET Nat
  OBVIOUS
<1> HIDE DEF N
<1>4. N = Nat
  BY <1>1, <1>2, <1>3, EveryNat
<1> QED
  BY <1>0, <1>4 DEF N

PartIs(f, s) ==
  /\ Total(f, s) \in Int
  /\ s = {} => Total(f, s) = 0
  /\ s # {} => Total(f, s) = f[OneOf(s)] + Total(f, s \ {OneOf(s)})

LEMMA TotalPart ==
  ASSUME NEW S, IsFiniteSet(S), NEW f, IntsOn(f, S), NEW s \in SUBSET S
  PROVE  PartIs(f, s)
<1>1. ASSUME NEW a \in SUBSET S
      PROVE  IsFiniteSet(a) /\ \E g : Total(f, a) = g[a] /\ AddsUp(f, a, g) /\ IntsOn(g, SUBSET a)
  <2>1. IsFiniteSet(a) /\ IntsOn(f, a)
    BY FS_Subset DEF IntsOn
  <2> QED
    BY <2>1, TotalSteps
<1>2. PICK g : Total(f, s) = g[s] /\ AddsUp(f, s, g) /\ IntsOn(g, SUBSET s)
  BY <1>1
<1>3. Total(f, s) \in Int /\ g[{}] = 0 /\ (s # {} => g[s] = f[OneOf(s)] + g[s \ {OneOf(s)}])
  BY <1>2 DEF AddsUp, IntsOn
<1>4. ASSUME s # {}
      PROVE  Total(f, s \ {OneOf(s)}) = g[s \ {OneOf(s)}]
  <2> DEFINE a == s \ {OneOf(s)}
  <2>1. a \in SUBSET S /\ a \in SUBSET s
    OBVIOUS
  <2> HIDE DEF a
  <2>2. IsFiniteSet(a) /\ \E h : Total(f, a) = h[a] /\ AddsUp(f, a, h) /\ IntsOn(h, SUBSET a)
    BY <1>1, <2>1
  <2>3. PICK h : Total(f, a) = h[a] /\ AddsUp(f, a, h)
    BY <2>2
  <2>4. AddsUp(f, a, g)
    BY <1>2, <2>1 DEF AddsUp
  <2>5. g[a] = h[a]
    BY <2>2, <2>3, <2>4, TotalsAgree
  <2> QED
    BY <2>3, <2>5 DEF a
<1> QED
  BY <1>2, <1>3, <1>4 DEF PartIs

\* Any element may be taken out.
LEMMA TotalTakeOut ==
  ASSUME NEW S, IsFiniteSet(S), NEW f, IntsOn(f, S), NEW s \in SUBSET S, NEW y \in s
  PROVE  Total(f, s) = f[y] + Total(f, s \ {y}) /\ f[y] \in Int /\ Total(f, s \ {y}) \in Int
<1>0. \A a \in SUBSET S : IsFiniteSet(a) /\ Cardinality(a) \in Nat /\ (Cardinality(a) = 0 => a = {})
  BY PartsAreFinite
<1>a. ASSUME NEW a \in SUBSET S
      PROVE  /\ Total(f, a) \in Int
             /\ a # {} => Total(f, a) = f[OneOf(a)] + Total(f, a \ {OneOf(a)})
  <2>1. PartIs(f, a)
    BY TotalPart
  <2> QED
    BY <2>1 DEF PartIs
<1> DEFINE Right(a) == \A z \in a : Total(f, a) = f[z] + Total(f, a \ {z})
           N == {n \in Nat : \A a \in SUBSET S : Cardinality(a) = n => Right(a)}
<1>b. \A x \in S : f[x] \in Int
  BY DEF IntsOn
<1>1. 0 \in N
  BY <1>0
<1>2. ASSUME NEW n \in N
      PROVE  n + 1 \in N
  <2>1. ASSUME NEW a \in SUBSET S, Cardinality(a) = n + 1, NEW z \in a
        PROVE  Total(f, a) = f[z] + Total(f, a \ {z})
    <3> DEFINE x == OneOf(a)
    <3>1. x \in a
      BY OneOfIsIn
    <3>2. Total(f, a) = f[x] + Total(f, a \ {x})
      BY <1>a, <3>1
    <3> HIDE DEF x
    <3>3. CASE x = z
      BY <3>2, <3>3
    <3>4. CASE x # z
      <4>1. IsFiniteSet(a) /\ n \in Nat
        BY <1>0
      <4>2. Cardinality(a \ {x}) = n /\ Cardinality(a \ {z}) = n
        BY <2>1, <3>1, <4>1, OneLess
      <4>3. Right(a \ {x}) /\ Right(a \ {z})
        BY <1>2, <4>2
      <4>4. Total(f, a \ {x}) = f[z] + Total(f, (a \ {x}) \ {z})
        BY <3>4, <4>3
      <4>5. Total(f, a \ {z}) = f[x] + Total(f, (a \ {z}) \ {x})
        BY <3>1, <3>4, <4>3
      <4>6. (a \ {x}) \ {z} = (a \ {z}) \ {x} /\ (a \ {z}) \ {x} \in SUBSET S
        OBVIOUS
      <4>7. f[x] \in Int /\ f[z] \in Int /\ Total(f, (a \ {z}) \ {x}) \in Int
        BY <1>a, <1>b, <3>1, <4>6
      <4>8. Total(f, a) = f[x] + (f[z] + Total(f, (a \ {z}) \ {x}))
        BY <3>2, <4>4, <4>6
      <4> QED
        BY <4>5, <4>7, <4>8, Swapped
    <3> QED
      BY <3>3, <3>4
  <2> QED
    BY <2>1
<1>3. N \in SUBSET Nat
  OBVIOUS
<1> HIDE DEF N
<1>4. N = Nat
  BY <1>1, <1>2, <1>3, EveryNat
<1>5. Total(f, s) = f[y] + Total(f, s \ {y})
  BY <1>0, <1>4 DEF N
<1> QED
  BY <1>5, <1>a, <1>b

\* Of two sets without a common element.
LEMMA TotalUnion ==
  ASSUME NEW S, IsFiniteSet(S), NEW f, IntsOn(f, S), NEW A \in SUBSET S, NEW B \in SUBSET (S \ A)
  PROVE  Total(f, A \cup B) = Total(f, A) + Total(f, B)
<1> DEFINE Right(C) == Total(f, A \cup C) = Total(f, A) + Total(f, C)
           N == {n \in Nat : \A C \in SUBSET (S \ A) : Cardinality(C) = n => Right(C)}
<1>0. \A C \in SUBSET (S \ A) : IsFiniteSet(C) /\ Cardinality(C) \in Nat /\ (Cardinality(C) = 0 => C = {})
  <2>1. \A C \in SUBSET S : IsFiniteSet(C) /\ Cardinality(C) \in Nat /\ (Cardinality(C) = 0 => C = {})
    BY PartsAreFinite
  <2> QED
    BY <2>1
<1>a. Total(f, A) \in Int /\ Total(f, {}) = 0
  <2>1. {} \in SUBSET S
    OBVIOUS
  <2> QED
    BY <2>1, TotalPart DEF PartIs
<1>1. 0 \in N
  <2>1. A \cup {} = A
    OBVIOUS
  <2>2. Right({})
    BY <1>a, <2>1
  <2> QED
    BY <1>0, <2>2
<1>2. ASSUME NEW n \in N
      PROVE  n + 1 \in N
  <2>1. ASSUME NEW C \in SUBSET (S \ A), Cardinality(C) = n + 1
        PROVE  Right(C)
    <3>1. C # {} /\ \A y \in C : Cardinality(C \ {y}) = n
      <4>1. IsFiniteSet(C) /\ n \in Nat
        BY <1>0
      <4> QED
        BY <2>1, <4>1, OneLess
    <3>2. PICK y \in C : Cardinality(C \ {y}) = n
      BY <3>1
    <3>3. Right(C \ {y})
      BY <1>2, <3>2
    <3>4. /\ (A \cup C) \ {y} = A \cup (C \ {y}) /\ A \cup C \in SUBSET S /\ C \in SUBSET S
          /\ y \in A \cup C
      OBVIOUS
    <3>5. Total(f, A \cup C) = f[y] + Total(f, (A \cup C) \ {y})
      BY <3>4, TotalTakeOut
    <3>6. Total(f, C) = f[y] + Total(f, C \ {y}) /\ f[y] \in Int /\ Total(f, C \ {y}) \in Int
      BY <3>4, TotalTakeOut
    <3>7. Total(f, A \cup C) = f[y] + (Total(f, A) + Total(f, C \ {y}))
      BY <3>3, <3>4, <3>5
    <3> QED
      BY <1>a, <3>6, <3>7, Swapped
  <2> QED
    BY <2>1
<1>3. N \in SUBSET Nat
  OBVIOUS
<1> HIDE DEF N
<1>4. N = Nat
  BY <1>1, <1>2, <1>3, EveryNat
<1> QED
  BY <1>0, <1>4 DEF N
-----------------------------------------------------------------------------
(* The calibration error bounds the distance of all that is predicted from   *)
(* all that comes true: the bins can only add up to more.                    *)

\* Each sum of the model, as a function it chooses.
IsGap(p, q, S, i) == i = [s \in SUBSET S |-> IF s = {} THEN 0 ELSE (p[OneOf(s)] - 100 * q[OneOf(s)]) + i[s \ {OneOf(s)}]]

LEMMA OneOfIsInS ==
  ASSUME NEW S, NEW s \in SUBSET S, s # {}
  PROVE  OneOf(s) \in S
BY DEF OneOf

GapSum(p, q, S) == SumOver(S, LAMBDA k : p[k] - 100 * q[k])

LEMMA GapChosen ==
  ASSUME NEW p, NEW q, NEW S
  PROVE  GapSum(p, q, S) = (CHOOSE i : IsGap(p, q, S, i))[S]
BY DEF GapSum, SumOver, MapThenSumSet, MapThenFoldSet, IsGap, OneOf

Gaps(f, p, q, S) == \A k \in S : f[k] = p[k] - 100 * q[k]

LEMMA GapIsTotal ==
  ASSUME NEW p, NEW q, NEW S, NEW f, Gaps(f, p, q, S)
  PROVE  GapSum(p, q, S) = Total(f, S)
<1>1. ASSUME NEW i
      PROVE  IsGap(p, q, S, i) <=> IsTotal(f, S, i)
  <2>1. ASSUME NEW s \in SUBSET S
        PROVE  (IF s = {} THEN 0 ELSE (p[OneOf(s)] - 100 * q[OneOf(s)]) + i[s \ {OneOf(s)}])
             = (IF s = {} THEN 0 ELSE f[OneOf(s)] + i[s \ {OneOf(s)}])
    BY OneOfIsInS DEF Gaps
  <2> QED
    BY <2>1 DEF IsGap, IsTotal
<1>2. \A i : IsGap(p, q, S, i) <=> IsTotal(f, S, i)
  BY <1>1
<1>3. (CHOOSE i : IsGap(p, q, S, i)) = (CHOOSE i : IsTotal(f, S, i))
  <2> HIDE DEF IsGap, IsTotal
  <2> QED
    BY <1>2
<1>4. GapSum(p, q, S) = (CHOOSE i : IsGap(p, q, S, i))[S]
  BY GapChosen
<1> QED
  BY <1>3, <1>4 DEF Total

IsBest(p, S, i) == i = [s \in SUBSET S |-> IF s = {} THEN 0 ELSE Max(ToSet(p[OneOf(s)])) + i[s \ {OneOf(s)}]]

BestSum(p, S) == SumOver(S, LAMBDA k : Max(ToSet(p[k])))

LEMMA BestChosen ==
  ASSUME NEW p, NEW S
  PROVE  BestSum(p, S) = (CHOOSE i : IsBest(p, S, i))[S]
BY DEF BestSum, SumOver, MapThenSumSet, MapThenFoldSet, IsBest, OneOf

Bests(f, p, S) == \A k \in S : f[k] = Max(ToSet(p[k]))

LEMMA BestIsTotal ==
  ASSUME NEW p, NEW S, NEW f, Bests(f, p, S)
  PROVE  BestSum(p, S) = Total(f, S)
<1>1. ASSUME NEW i
      PROVE  IsBest(p, S, i) <=> IsTotal(f, S, i)
  <2>1. ASSUME NEW s \in SUBSET S
        PROVE  (IF s = {} THEN 0 ELSE Max(ToSet(p[OneOf(s)])) + i[s \ {OneOf(s)}])
             = (IF s = {} THEN 0 ELSE f[OneOf(s)] + i[s \ {OneOf(s)}])
    BY OneOfIsInS DEF Bests
  <2> QED
    BY <2>1 DEF IsBest, IsTotal
<1>2. \A i : IsBest(p, S, i) <=> IsTotal(f, S, i)
  BY <1>1
<1>3. (CHOOSE i : IsBest(p, S, i)) = (CHOOSE i : IsTotal(f, S, i))
  <2> HIDE DEF IsBest, IsTotal
  <2> QED
    BY <1>2
<1>4. BestSum(p, S) = (CHOOSE i : IsBest(p, S, i))[S]
  BY BestChosen
<1> QED
  BY <1>3, <1>4 DEF Total

InBin(p, b) == {k \in DOMAIN p : BinOf(p[k]) = b}

IsBinned(p, q, S, i) ==
  i = [s \in SUBSET S |->
        IF s = {} THEN 0
        ELSE Magnitude(GapSum(p, q, InBin(p, OneOf(s)))) + i[s \ {OneOf(s)}]]

LEMMA BinnedChosen ==
  ASSUME NEW p, NEW q
  PROVE  CalibrationError(p, q) = (CHOOSE i : IsBinned(p, q, 0..NBins - 1, i))[0..NBins - 1]
BY DEF CalibrationError, GapSum, SumOver, MapThenSumSet, MapThenFoldSet, IsBinned, OneOf, InBin

Binned(h, p, q, bins) == \A b \in bins : h[b] = Magnitude(GapSum(p, q, InBin(p, b)))

LEMMA BinnedIsTotal ==
  ASSUME NEW p, NEW q, NEW h,
         Binned(h, p, q, 0..NBins - 1)
  PROVE  CalibrationError(p, q) = Total(h, 0..NBins - 1)
<1> DEFINE S == 0..NBins - 1
<1>a. Binned(h, p, q, S)
  OBVIOUS
<1>b. CalibrationError(p, q) = (CHOOSE i : IsBinned(p, q, S, i))[S]
  BY BinnedChosen
<1> HIDE DEF S
<1>1. ASSUME NEW i
      PROVE  IsBinned(p, q, S, i) <=> IsTotal(h, S, i)
  <2>1. ASSUME NEW s \in SUBSET S
        PROVE  (IF s = {} THEN 0
                ELSE Magnitude(GapSum(p, q, InBin(p, OneOf(s)))) + i[s \ {OneOf(s)}])
             = (IF s = {} THEN 0 ELSE h[OneOf(s)] + i[s \ {OneOf(s)}])
    BY <1>a, OneOfIsInS DEF Binned
  <2> QED
    BY <2>1 DEF IsBinned, IsTotal
<1>2. \A i : IsBinned(p, q, S, i) <=> IsTotal(h, S, i)
  BY <1>1
<1>3. (CHOOSE i : IsBinned(p, q, S, i)) = (CHOOSE i : IsTotal(h, S, i))
  <2> HIDE DEF IsBinned, IsTotal
  <2> QED
    BY <1>2
<1> QED
  BY <1>3, <1>b DEF Total, S

AtomSum(p, q, a, S) == SumOver(S, LAMBDA k : p[k][a] - 100 * q[k][a])

IsAtom(p, q, a, S, i) ==
  i = [s \in SUBSET S |->
        IF s = {} THEN 0 ELSE (p[OneOf(s)][a] - 100 * q[OneOf(s)][a]) + i[s \ {OneOf(s)}]]

LEMMA AtomChosen ==
  ASSUME NEW p, NEW q, NEW a, NEW S
  PROVE  AtomSum(p, q, a, S) = (CHOOSE i : IsAtom(p, q, a, S, i))[S]
BY DEF AtomSum, SumOver, MapThenSumSet, MapThenFoldSet, IsAtom, OneOf

AtomGaps(f, p, q, a, S) == \A k \in S : f[k] = p[k][a] - 100 * q[k][a]

LEMMA AtomIsTotal ==
  ASSUME NEW p, NEW q, NEW a, NEW S, NEW f, AtomGaps(f, p, q, a, S)
  PROVE  AtomSum(p, q, a, S) = Total(f, S)
<1>1. ASSUME NEW i
      PROVE  IsAtom(p, q, a, S, i) <=> IsTotal(f, S, i)
  <2>1. ASSUME NEW s \in SUBSET S
        PROVE  (IF s = {} THEN 0 ELSE (p[OneOf(s)][a] - 100 * q[OneOf(s)][a]) + i[s \ {OneOf(s)}])
             = (IF s = {} THEN 0 ELSE f[OneOf(s)] + i[s \ {OneOf(s)}])
    BY OneOfIsInS DEF AtomGaps
  <2> QED
    BY <2>1 DEF IsAtom, IsTotal
<1>2. \A i : IsAtom(p, q, a, S, i) <=> IsTotal(f, S, i)
  BY <1>1
<1>3. (CHOOSE i : IsAtom(p, q, a, S, i)) = (CHOOSE i : IsTotal(f, S, i))
  <2> HIDE DEF IsAtom, IsTotal
  <2> QED
    BY <1>2
<1>4. AtomSum(p, q, a, S) = (CHOOSE i : IsAtom(p, q, a, S, i))[S]
  BY AtomChosen
<1> QED
  BY <1>3, <1>4 DEF Total

LEMMA GapIsInt ==
  ASSUME NEW c \in 0..100, NEW o \in 0..1
  PROVE  c - 100 * o \in Int
OBVIOUS

LEMMA SumsWithin ==
  ASSUME NEW a \in Int, NEW b \in Int, NEW g \in Int, NEW h \in Int,
         -g <= a, a <= g, -h <= b, b <= h
  PROVE  -(g + h) <= a + b /\ a + b <= g + h
OBVIOUS

LEMMA WithinMagnitude ==
  ASSUME NEW a \in Int
  PROVE  Magnitude(a) \in Int /\ -Magnitude(a) <= a /\ a <= Magnitude(a)
BY DEF Magnitude

LEMMA MagnitudeWithin ==
  ASSUME NEW a \in Int, NEW g \in Int, -g <= a, a <= g
  PROVE  Magnitude(a) <= g
BY DEF Magnitude

\* The positions whose bin, by the function bin, is one of B.
Inside(D, bin, B) == {k \in D : bin[k] \in B}

\* For each bin, h is how far f is from 0 there.
Bounds(h, f, D, bin, bins) == \A b \in bins : h[b] = Magnitude(Total(f, Inside(D, bin, {b})))

LEMMA BinsAddUp ==
  ASSUME NEW D, IsFiniteSet(D), NEW f, IntsOn(f, D), NEW bin, NEW bins, IsFiniteSet(bins),
         NEW h, Bounds(h, f, D, bin, bins)
  PROVE  \A B \in SUBSET bins :
           /\ Total(h, B) \in Int
           /\ -Total(h, B) <= Total(f, Inside(D, bin, B))
           /\ Total(f, Inside(D, bin, B)) <= Total(h, B)
<1>a. \A B : Inside(D, bin, B) \in SUBSET D
  BY DEF Inside
<1>b. \A s \in SUBSET D : Total(f, s) \in Int
  <2>1. ASSUME NEW s \in SUBSET D
        PROVE  Total(f, s) \in Int
    <3>1. PartIs(f, s)
      BY TotalPart
    <3> QED
      BY <3>1 DEF PartIs
  <2> QED
    BY <2>1
<1>c. \A b \in bins : /\ h[b] \in Int
                      /\ -h[b] <= Total(f, Inside(D, bin, {b}))
                      /\ Total(f, Inside(D, bin, {b})) <= h[b]
  <2>1. ASSUME NEW b \in bins
        PROVE  /\ h[b] \in Int
               /\ -h[b] <= Total(f, Inside(D, bin, {b}))
               /\ Total(f, Inside(D, bin, {b})) <= h[b]
    <3>1. Total(f, Inside(D, bin, {b})) \in Int
      BY <1>a, <1>b
    <3>2. h[b] = Magnitude(Total(f, Inside(D, bin, {b})))
      BY DEF Bounds
    <3> QED
      BY <3>1, <3>2, WithinMagnitude
  <2> QED
    BY <2>1
<1>d. IntsOn(h, bins)
  BY <1>c DEF IntsOn
<1>e. \A B \in SUBSET bins : /\ Total(h, B) \in Int
                             /\ B = {} => Total(h, B) = 0
                             /\ B # {} => Total(h, B) = h[OneOf(B)] + Total(h, B \ {OneOf(B)})
  <2>1. ASSUME NEW B \in SUBSET bins
        PROVE  /\ Total(h, B) \in Int
               /\ B = {} => Total(h, B) = 0
               /\ B # {} => Total(h, B) = h[OneOf(B)] + Total(h, B \ {OneOf(B)})
    <3>1. PartIs(h, B)
      BY <1>d, TotalPart
    <3> QED
      BY <3>1 DEF PartIs
  <2> QED
    BY <2>1
<1>0. \A B \in SUBSET bins : IsFiniteSet(B) /\ Cardinality(B) \in Nat /\ (Cardinality(B) = 0 => B = {})
  BY PartsAreFinite
<1> DEFINE Right(B) == -Total(h, B) <= Total(f, Inside(D, bin, B)) /\ Total(f, Inside(D, bin, B)) <= Total(h, B)
           N == {n \in Nat : \A B \in SUBSET bins : Cardinality(B) = n => Right(B)}
<1>1. 0 \in N
  <2>1. ASSUME NEW B \in SUBSET bins, Cardinality(B) = 0
        PROVE  Right(B)
    <3>1. B = {}
      BY <1>0, <2>1
    <3>2. Total(h, B) = 0
      BY <1>e, <3>1
    <3>3. Inside(D, bin, B) = {} /\ {} \in SUBSET D
      BY <3>1 DEF Inside
    <3>4. Total(f, {}) = 0
      <4>1. PartIs(f, {})
        BY <3>3, TotalPart
      <4> QED
        BY <4>1 DEF PartIs
    <3> QED
      BY <3>2, <3>3, <3>4
  <2> QED
    BY <2>1
<1>2. ASSUME NEW n \in N
      PROVE  n + 1 \in N
  <2>1. ASSUME NEW B \in SUBSET bins, Cardinality(B) = n + 1
        PROVE  Right(B)
    <3> DEFINE x == OneOf(B)
               C == B \ {x}
    <3>1. B # {} /\ \A y \in B : Cardinality(B \ {y}) = n
      <4>1. IsFiniteSet(B) /\ n \in Nat
        BY <1>0
      <4> QED
        BY <2>1, <4>1, OneLess
    <3>2. x \in B
      BY <3>1, OneOfIsIn
    <3>3. Total(h, B) = h[x] + Total(h, C)
      BY <1>e, <3>1
    <3> HIDE DEF x
    <3>4. C \in SUBSET bins /\ Cardinality(C) = n /\ x \in bins
      BY <3>1, <3>2
    <3>5. Right(C) /\ Total(h, C) \in Int
      BY <1>2, <1>e, <3>4
    <3> DEFINE s == Inside(D, bin, {x})
               t == Inside(D, bin, C)
    <3>6. s \in SUBSET D /\ t \in SUBSET (D \ s) /\ Inside(D, bin, B) = s \cup t
      BY <3>2 DEF Inside
    <3>7. Total(f, s) \in Int /\ Total(f, t) \in Int /\ h[x] \in Int /\ -h[x] <= Total(f, s) /\ Total(f, s) <= h[x]
      BY <1>a, <1>b, <1>c, <3>4
    <3>8. -Total(h, C) <= Total(f, t) /\ Total(f, t) <= Total(h, C)
      BY <3>5
    <3> HIDE DEF s, t, C
    <3>9. Total(f, s \cup t) = Total(f, s) + Total(f, t)
      BY <3>6, TotalUnion
    <3>10. /\ -(h[x] + Total(h, C)) <= Total(f, s) + Total(f, t)
           /\ Total(f, s) + Total(f, t) <= h[x] + Total(h, C)
      <4>1. Total(f, s) \in Int /\ Total(f, t) \in Int /\ h[x] \in Int /\ Total(h, C) \in Int
        BY <3>5, <3>7
      <4> QED
        BY <3>7, <3>8, <4>1, SumsWithin
    <3> QED
      BY <3>3, <3>6, <3>9, <3>10
  <2> QED
    BY <2>1
<1>3. N \in SUBSET Nat
  OBVIOUS
<1> HIDE DEF N
<1>4. N = Nat
  BY <1>1, <1>2, <1>3, EveryNat
<1>5. ASSUME NEW B \in SUBSET bins
      PROVE  Right(B)
  BY <1>0, <1>4 DEF N
<1> QED
  BY <1>e, <1>5

LEMMA BinIsOne ==
  ASSUME NEW c \in 0..100
  PROVE  BinOf(c) \in 0..NBins - 1
<1> DEFINE x == (c * NBins) \div 100
           S == {x, 14}
<1>1. x \in 0..15 /\ NBins = 15 /\ NBins - 1 = 14
  BY DEF NBins
<1>2. BinOf(c) = Min(S)
  BY <1>1 DEF BinOf
<1> HIDE DEF x
<1>3. S \in SUBSET Int /\ S # {}
  BY <1>1
<1>4. IsFiniteSet(S)
  <2>1. IsFiniteSet({x}) /\ S = {x} \cup {14}
    BY FS_Singleton
  <2> QED
    BY <2>1, FS_AddElement
<1>5. Min(S) \in S /\ \A y \in S : Min(S) <= y
  BY <1>3, <1>4, MinIs
<1> HIDE DEF S
<1>6. Min(S) \in {x, 14} /\ Min(S) <= 14
  BY <1>5 DEF S
<1> QED
  BY <1>1, <1>2, <1>6

LEMMA OverconfidenceIsBounded ==
  ASSUME NEW n \in Nat, NEW p \in [1..n -> 0..100], NEW q \in [1..n -> 0..1],
         NEW f, Gaps(f, p, q, 1..n)
  PROVE  /\ Total(f, 1..n) \in Int /\ CalibrationError(p, q) \in Int
         /\ -CalibrationError(p, q) <= Total(f, 1..n)
         /\ Total(f, 1..n) <= CalibrationError(p, q)
<1> DEFINE D == 1..n
           bins == 0..NBins - 1
           bin == [k \in D |-> BinOf(p[k])]
           h == [b \in bins |-> Magnitude(GapSum(p, q, InBin(p, b)))]
<1>1. IsFiniteSet(D) /\ IsFiniteSet(bins)
  <2>1. 0 \in Int /\ NBins - 1 \in Int /\ 1 \in Int /\ n \in Int
    BY DEF NBins
  <2> QED
    BY <2>1, FS_Interval
<1>2. IntsOn(f, D)
  <2>1. ASSUME NEW k \in D
        PROVE  f[k] \in Int
    <3>1. f[k] = p[k] - 100 * q[k] /\ p[k] \in 0..100 /\ q[k] \in 0..1
      BY DEF Gaps
    <3> QED
      BY <3>1, GapIsInt
  <2> QED
    BY <2>1 DEF IntsOn
<1>3. \A k \in D : bin[k] \in bins
  <2>1. ASSUME NEW k \in D
        PROVE  BinOf(p[k]) \in bins
    <3>1. p[k] \in 0..100
      OBVIOUS
    <3> QED
      BY <3>1, BinIsOne
  <2> QED
    BY <2>1
<1>4. ASSUME NEW b \in bins
      PROVE  h[b] = Magnitude(Total(f, Inside(D, bin, {b})))
  <2>1. InBin(p, b) = Inside(D, bin, {b}) /\ InBin(p, b) \in SUBSET D
    BY DEF InBin, Inside
  <2>2. Gaps(f, p, q, InBin(p, b))
    BY <2>1 DEF Gaps
  <2>3. GapSum(p, q, InBin(p, b)) = Total(f, InBin(p, b))
    BY <2>2, GapIsTotal
  <2>4. h[b] = Magnitude(GapSum(p, q, InBin(p, b)))
    OBVIOUS
  <2> HIDE DEF h
  <2> QED
    BY <2>1, <2>3, <2>4
<1>5. CalibrationError(p, q) = Total(h, bins)
  <2>1. Binned(h, p, q, 0..NBins - 1)
    BY DEF Binned
  <2> HIDE DEF h
  <2> QED
    BY <2>1, BinnedIsTotal
<1> HIDE DEF h
<1>6. Bounds(h, f, D, bin, bins)
  BY <1>4 DEF Bounds
<1>7. Inside(D, bin, bins) = D /\ bins \in SUBSET bins
  BY <1>3 DEF Inside
<1> HIDE DEF bin, bins, D
<1>8. /\ Total(h, bins) \in Int
      /\ -Total(h, bins) <= Total(f, Inside(D, bin, bins))
      /\ Total(f, Inside(D, bin, bins)) <= Total(h, bins)
  BY <1>1, <1>2, <1>6, <1>7, BinsAddUp
<1>9. Total(f, D) \in Int
  <2>1. D \in SUBSET D
    OBVIOUS
  <2> QED
    BY <1>1, <1>2, <2>1, TotalPart DEF PartIs
<1> QED
  BY <1>5, <1>7, <1>8, <1>9 DEF D

Hits(q, s) == {k \in s : q[k] = 1}

LEMMA GapSplit ==
  ASSUME NEW c \in 0..100, NEW o \in 0..1, NEW t \in Int, NEW m \in Nat
  PROVE  (c - 100 * o) + (t - 100 * m) = (c + t) - 100 * (IF o = 1 THEN m + 1 ELSE m)
OBVIOUS

LEMMA HitsGrow ==
  ASSUME NEW q, NEW s, IsFiniteSet(s), NEW x \in s
  PROVE  /\ Cardinality(Hits(q, s \ {x})) \in Nat
         /\ Cardinality(Hits(q, s)) =
              IF q[x] = 1 THEN Cardinality(Hits(q, s \ {x})) + 1 ELSE Cardinality(Hits(q, s \ {x}))
<1> DEFINE C == Hits(q, s \ {x})
<1>1. C \in SUBSET s /\ x \notin C /\ Hits(q, s) = IF q[x] = 1 THEN C \cup {x} ELSE C
  BY DEF Hits
<1> HIDE DEF C
<1>2. IsFiniteSet(C)
  BY <1>1, FS_Subset
<1>3. Cardinality(C) \in Nat /\ Cardinality(C \cup {x}) = Cardinality(C) + 1
  BY <1>1, <1>2, FS_CardinalityType, FS_AddElement
<1> QED
  BY <1>1, <1>3 DEF C

LEMMA ShareIsInt ==
  ASSUME NEW c \in 0..100
  PROVE  c \in Int
OBVIOUS

LEMMA SharesToInt ==
  ASSUME NEW m, NEW v \in [1..m -> 0..100]
  PROVE  v \in [1..m -> Int]
<1>1. 0..100 \subseteq Int
  OBVIOUS
<1> QED
  BY <1>1

\* Confidences and outcomes.
Judged(n, p, q) == p \in [1..n -> 0..100] /\ q \in [1..n -> 0..1]

LEMMA GapsSplit ==
  ASSUME NEW n \in Nat, NEW p, NEW q, Judged(n, p, q), NEW f, Gaps(f, p, q, 1..n)
  PROVE  /\ Total(p, 1..n) \in Int /\ Cardinality(Hits(q, 1..n)) \in Nat
         /\ Total(f, 1..n) = Total(p, 1..n) - 100 * Cardinality(Hits(q, 1..n))
<1> DEFINE D == 1..n
<1>1. IsFiniteSet(D)
  <2>1. n \in Int /\ 1 \in Int
    OBVIOUS
  <2> QED
    BY <2>1, FS_Interval
<1>2. \A k \in D : p[k] \in 0..100 /\ q[k] \in 0..1 /\ f[k] = p[k] - 100 * q[k]
  BY DEF Gaps, Judged
<1>3. IntsOn(f, D) /\ IntsOn(p, D)
  <2>1. ASSUME NEW k \in D
        PROVE  f[k] \in Int /\ p[k] \in Int
    <3>1. p[k] \in 0..100 /\ q[k] \in 0..1 /\ f[k] = p[k] - 100 * q[k]
      BY <1>2
    <3>2. p[k] - 100 * q[k] \in Int
      BY <3>1, GapIsInt
    <3>3. p[k] \in Int
      BY <3>1, ShareIsInt
    <3> QED
      BY <3>1, <3>2, <3>3
  <2> QED
    BY <2>1 DEF IntsOn
<1>4. D \in SUBSET D
  OBVIOUS
<1> HIDE DEF D
<1>5. ASSUME NEW s \in SUBSET D
      PROVE  PartIs(f, s) /\ PartIs(p, s)
  BY <1>1, <1>3, TotalPart
<1>0. \A s \in SUBSET D : IsFiniteSet(s) /\ Cardinality(s) \in Nat /\ (Cardinality(s) = 0 => s = {})
  BY <1>1, PartsAreFinite
<1> DEFINE Right(s) == Total(f, s) = Total(p, s) - 100 * Cardinality(Hits(q, s))
           N == {m \in Nat : \A s \in SUBSET D : Cardinality(s) = m => Right(s)}
<1>6. 0 \in N
  <2>1. ASSUME NEW s \in SUBSET D, Cardinality(s) = 0
        PROVE  Right(s)
    <3>1. s = {}
      BY <1>0, <2>1
    <3>2. Total(f, s) = 0 /\ Total(p, s) = 0
      BY <1>5, <3>1 DEF PartIs
    <3>3. Cardinality(Hits(q, s)) = 0
      <4>1. Hits(q, s) = {}
        BY <3>1 DEF Hits
      <4> QED
        BY <4>1, FS_EmptySet
    <3> QED
      BY <3>2, <3>3
  <2> QED
    BY <2>1
<1>7. ASSUME NEW m \in N
      PROVE  m + 1 \in N
  <2>0. m \in Nat /\ \A C \in SUBSET D : Cardinality(C) = m => Right(C)
    OBVIOUS
  <2> HIDE DEF N
  <2>1. ASSUME NEW s \in SUBSET D, Cardinality(s) = m + 1
        PROVE  Right(s)
    <3> DEFINE x == OneOf(s)
               C == s \ {x}
    <3>1. s # {} /\ \A y \in s : Cardinality(s \ {y}) = m
      <4>1. IsFiniteSet(s) /\ m \in Nat
        BY <1>0, <2>0
      <4> QED
        BY <2>1, <4>1, OneLess
    <3>2. x \in s
      BY <3>1, OneOfIsIn
    <3>3. Total(f, s) = f[x] + Total(f, C) /\ Total(p, s) = p[x] + Total(p, C)
      BY <1>5, <3>1 DEF PartIs
    <3> HIDE DEF x
    <3>4. C \in SUBSET D /\ Cardinality(C) = m /\ x \in D
      BY <3>1, <3>2
    <3>5. Right(C)
      BY <2>0, <3>4
    <3>6. Total(p, C) \in Int
      BY <1>5, <3>4 DEF PartIs
    <3>7. /\ Cardinality(Hits(q, C)) \in Nat
          /\ Cardinality(Hits(q, s)) = IF q[x] = 1 THEN Cardinality(Hits(q, C)) + 1 ELSE Cardinality(Hits(q, C))
      <4>1. IsFiniteSet(s)
        BY <1>0
      <4> QED
        BY <3>2, <4>1, HitsGrow
    <3> HIDE DEF C
    <3>8. p[x] \in 0..100 /\ q[x] \in 0..1 /\ f[x] = p[x] - 100 * q[x]
      BY <1>2, <3>4
    <3> DEFINE had == Cardinality(Hits(q, C))
    <3>a. had \in Nat
      BY <3>7
    <3>9. (p[x] - 100 * q[x]) + (Total(p, C) - 100 * had)
            = (p[x] + Total(p, C)) - 100 * (IF q[x] = 1 THEN had + 1 ELSE had)
      <4> HIDE DEF had
      <4> QED
        BY ONLY <3>6, <3>8, <3>a, GapSplit
    <3> QED
      BY <3>3, <3>5, <3>7, <3>8, <3>9
  <2> QED
    BY <2>0, <2>1 DEF N
<1>8. N \in SUBSET Nat
  OBVIOUS
<1> HIDE DEF N
<1>9. N = Nat
  BY <1>6, <1>7, <1>8, EveryNat
<1>10. Right(D)
  BY <1>0, <1>4, <1>9 DEF N
<1>11. Total(p, D) \in Int
  BY <1>4, <1>5 DEF PartIs
<1>12. Cardinality(Hits(q, D)) \in Nat
  <2>1. Hits(q, D) \in SUBSET D
    BY DEF Hits
  <2> QED
    BY <1>0, <2>1
<1> QED
  BY <1>10, <1>11, <1>12 DEF D

LEMMA MaxOfBest ==
  ASSUME NEW m \in Nat \ {0}, NEW v \in [1..m -> Int], NEW b \in 1..m, \A d \in 1..m : v[d] <= v[b]
  PROVE  Max(ToSet(v)) = v[b]
<1> DEFINE S == ToSet(v)
<1>1. S \in SUBSET Int /\ v[b] \in S /\ \A y \in S : y <= v[b]
  BY DEF ToSet
<1>2. IsFiniteSet(S)
  <2>1. 1 \in Int /\ m \in Int /\ DOMAIN v = 1..m /\ S = {v[k] : k \in 1..m}
    BY DEF ToSet
  <2>2. IsFiniteSet(1..m)
    BY <2>1, FS_Interval
  <2> QED
    BY <2>1, <2>2, ImageIsFinite
<1> HIDE DEF S
<1>3. Max(S) \in S /\ \A y \in S : y <= Max(S)
  BY <1>1, <1>2, MaxIs
<1>4. Max(S) \in Int /\ v[b] \in Int /\ Max(S) <= v[b] /\ v[b] <= Max(S)
  BY <1>1, <1>3
<1>5. Max(S) = v[b]
  BY <1>4
<1> QED
  BY <1>5 DEF S

LEMMA ShareOf ==
  ASSUME NEW m \in Nat, NEW k \in Nat, NEW r \in Nat, ~(100 * k < r * m)
  PROVE  100 * k >= r * m
OBVIOUS

LEMMA NoMoreThan ==
  ASSUME NEW a \in Int, NEW e \in Int, NEW b \in Int, a <= e, e <= b
  PROVE  a <= b
OBVIOUS

\* What passes is not overconfident as a whole, whatever the number of samples and
\* of classes, and finds its share of each class that is large enough; the head
\* that passes does not name any atom more or less often than it comes
\* (eval/gates.py, eval/metrics.py and eval/diagnostic_eval.py).
THEOREM GateAlwaysHolds == Spec => []GateHolds
<1>1. ASSUME Computed, Done("gate"), result
      PROVE  LET n == Len(task.labels)
                 hits == {k \in DOMAIN task.labels : ArgMax(task.probs[k]) = task.labels[k]}
             IN  /\ SumOver(DOMAIN task.probs, LAMBDA k : Max(ToSet(task.probs[k]))) - 100 * Cardinality(hits)
                      <= task.limits.ece * n
                 /\ \A c \in ToSet(task.labels) :
                      Cardinality(Support(task.labels, c)) >= task.limits.support =>
                        100 * Cardinality(Support(task.labels, c) \cap hits)
                          >= task.limits.recall * Cardinality(Support(task.labels, c))
  <2> DEFINE probs == task.probs
             labels == task.labels
             limits == task.limits
             n == Len(labels)
             m == Len(probs[1])
             hits == {k \in DOMAIN labels : ArgMax(probs[k]) = labels[k]}
             p == [k \in DOMAIN probs |-> probs[k][ArgMax(probs[k])]]
             q == [k \in DOMAIN probs |-> IF ArgMax(probs[k]) = labels[k] THEN 1 ELSE 0]
             f == [k \in 1..n |-> p[k] - 100 * q[k]]
  <2>1. /\ labels \in Seq(1..m) /\ labels # <<>> /\ probs[1] \in Seq(0..100) /\ probs[1] # <<>>
        /\ probs \in [DOMAIN labels -> [DOMAIN probs[1] -> 0..100]] /\ limits \in [DOMAIN GateThresholds -> Nat]
    <3>1. task \in Tasks /\ task.kind = "gate"
      BY <1>1 DEF Computed, Done
    <3> QED
      BY <3>1, TasksAssumption
  <2>2. Gate(probs, labels, task.sets, task.metadata, {"station"}, limits)
    <3>1. result = Gate(probs, labels, task.sets, task.metadata, {"station"}, limits)
      <4>1. task.kind = "gate" /\ result # Pending
        BY <1>1 DEF Done
      <4> QED
        BY ONLY <1>1, <4>1 DEF Computed
    <3> QED
      BY <1>1, <3>1
  <2> HIDE DEF probs, labels, limits
  <2>3. /\ n \in Nat /\ DOMAIN labels = 1..n /\ \A k \in 1..n : labels[k] \in 1..m
        /\ m \in Nat \ {0} /\ DOMAIN probs[1] = 1..m
    BY <2>1
  <2>4. limits.ece \in Nat /\ limits.recall \in Nat /\ limits.support \in Nat
    BY <2>1 DEF GateThresholds
  <2> HIDE DEF n, m
  <2>5. DOMAIN probs = 1..n /\ \A k \in 1..n : probs[k] \in [1..m -> 0..100]
    BY <2>1, <2>3
  <2>6. ASSUME NEW k \in 1..n
        PROVE  /\ ArgMax(probs[k]) \in 1..m /\ p[k] \in 0..100 /\ q[k] \in 0..1
               /\ Max(ToSet(probs[k])) = p[k]
    <3> DEFINE v == probs[k]
    <3>2. p[k] = v[ArgMax(v)] /\ q[k] \in 0..1 /\ v \in [1..m -> 0..100]
      BY <2>5
    <3> HIDE DEF v, p, q
    <3>1. v \in [1..m -> 0..100] /\ v \in [1..m -> Int]
      BY <3>2, SharesToInt
    <3>3. ArgMax(v) \in 1..m /\ \A d \in 1..m : v[d] <= v[ArgMax(v)]
      BY <2>3, <3>1, ArgMaxIs
    <3>4. Max(ToSet(v)) = v[ArgMax(v)]
      BY <2>3, <3>1, <3>3, MaxOfBest
    <3> QED
      BY <3>1, <3>2, <3>3, <3>4 DEF v
  <2>7. p \in [1..n -> 0..100] /\ q \in [1..n -> 0..1]
    BY <2>5, <2>6
  <2>8. Hits(q, 1..n) = hits
    BY <2>3, <2>5 DEF Hits
  <2>9. ExpectedCalibrationError(probs, labels) = CalibrationError(p, q)
    BY DEF ExpectedCalibrationError
  <2>10. CalibrationError(p, q) <= limits.ece * n
    <3>1. ExpectedCalibrationError(probs, labels) <= limits.ece * n
      BY <2>2 DEF Gate, n
    <3> QED
      BY <2>9, <3>1
  <2>11. \A c \in 1..m :
           ~(/\ Cardinality(Support(labels, c)) >= limits.support
             /\ 100 * Cardinality({k \in Support(labels, c) : ArgMax(probs[k]) = c})
                  < limits.recall * Cardinality(Support(labels, c)))
    <3>1. FailedClasses([k \in DOMAIN probs |-> ArgMax(probs[k])], labels, DOMAIN probs[1], limits.recall, limits.support) = {}
      BY <2>2 DEF Gate
    <3>2. ASSUME NEW c \in 1..m
          PROVE  {k \in Support(labels, c) : [j \in DOMAIN probs |-> ArgMax(probs[j])][k] = c}
                   = {k \in Support(labels, c) : ArgMax(probs[k]) = c}
      BY <2>3, <2>5 DEF Support
    <3> QED
      BY <2>3, <3>1, <3>2 DEF FailedClasses
  <2>12. Bests(p, probs, 1..n)
    BY <2>6 DEF Bests
  <2>13. Gaps(f, p, q, 1..n)
    BY DEF Gaps
  <2> HIDE DEF p, q, f
  <2>14. BestSum(probs, 1..n) = Total(p, 1..n)
    BY <2>12, BestIsTotal
  <2>15. /\ Total(f, 1..n) \in Int /\ CalibrationError(p, q) \in Int
         /\ Total(f, 1..n) <= CalibrationError(p, q)
    BY <2>3, <2>7, <2>13, OverconfidenceIsBounded
  <2>16. Total(f, 1..n) = Total(p, 1..n) - 100 * Cardinality(hits)
    BY <2>3, <2>7, <2>8, <2>13, GapsSplit DEF Judged
  <2>17. SumOver(DOMAIN probs, LAMBDA k : Max(ToSet(probs[k]))) - 100 * Cardinality(hits) <= limits.ece * n
    <3>1. Total(f, 1..n) <= limits.ece * n
      <4>1. limits.ece * n \in Int
        BY <2>3, <2>4
      <4> QED
        BY <2>10, <2>15, <4>1, NoMoreThan
    <3>2. BestSum(probs, DOMAIN probs) - 100 * Cardinality(hits) <= limits.ece * n
      BY <2>5, <2>14, <2>16, <3>1
    <3> QED
      BY <3>2 DEF BestSum
  <2>18. ASSUME NEW c \in ToSet(labels), Cardinality(Support(labels, c)) >= limits.support
         PROVE  100 * Cardinality(Support(labels, c) \cap hits) >= limits.recall * Cardinality(Support(labels, c))
    <3>1. c \in 1..m
      BY <2>3 DEF ToSet
    <3>2. Support(labels, c) \cap hits = {k \in Support(labels, c) : ArgMax(probs[k]) = c}
      BY DEF Support
    <3>3. ~(100 * Cardinality(Support(labels, c) \cap hits) < limits.recall * Cardinality(Support(labels, c)))
      BY <2>11, <2>18, <3>1, <3>2
    <3>4. Cardinality(Support(labels, c) \cap hits) \in Nat /\ Cardinality(Support(labels, c)) \in Nat
      <4>1. Support(labels, c) \in SUBSET (1..n) /\ Support(labels, c) \cap hits \in SUBSET (1..n)
        BY <2>3 DEF Support
      <4>2. IsFiniteSet(1..n)
        <5>1. 1 \in Int /\ n \in Int
          BY <2>3
        <5> QED
          BY <5>1, FS_Interval
      <4> QED
        BY <4>1, <4>2, PartsAreFinite
    <3> QED
      BY <2>4, <3>3, <3>4, ShareOf
  <2> QED
    BY <2>17, <2>18 DEF probs, labels, limits, n
<1>2. ASSUME Computed, Done("head"), result, NEW a \in DOMAIN task.probs[1]
      PROVE  Magnitude(SumOver(DOMAIN task.probs, LAMBDA k : task.probs[k][a] - 100 * task.labels[k][a]))
               <= task.limits.ece * Len(task.labels)
  <2> DEFINE probs == task.probs
             labels == task.labels
             limits == task.limits
             n == Len(labels)
             p == [k \in DOMAIN probs |-> probs[k][a]]
             q == [k \in DOMAIN probs |-> labels[k][a]]
             f == [k \in 1..n |-> p[k] - 100 * q[k]]
  <2>1. /\ labels \in Seq([DOMAIN probs[1] -> 0..1])
        /\ probs \in [DOMAIN labels -> [DOMAIN probs[1] -> 0..100]]
        /\ limits \in [DOMAIN DiagnosticGateThresholds -> Nat]
    <3>1. task \in Tasks /\ task.kind = "head"
      BY <1>2 DEF Computed, Done
    <3> QED
      BY <3>1, TasksAssumption
  <2>2. HeadGate(probs, labels, task.metadata, {"station"}, limits)
    <3>1. result = HeadGate(probs, labels, task.metadata, {"station"}, limits)
      <4>1. task.kind = "head" /\ result # Pending
        BY <1>2 DEF Done
      <4> QED
        BY ONLY <1>2, <4>1 DEF Computed
    <3> QED
      BY <1>2, <3>1
  <2>a. a \in DOMAIN probs[1]
    OBVIOUS
  <2> HIDE DEF probs, labels, limits
  <2>3. /\ n \in Nat /\ DOMAIN labels = 1..n /\ \A k \in 1..n : labels[k] \in [DOMAIN probs[1] -> 0..1]
    BY <2>1
  <2>4. limits.ece \in Nat
    BY <2>1 DEF DiagnosticGateThresholds
  <2>5. DOMAIN probs = 1..n /\ \A k \in 1..n : probs[k] \in [DOMAIN probs[1] -> 0..100]
    BY <2>1, <2>3
  <2>6. CalibrationError(p, q) <= limits.ece * n
    <3>1. BinaryEce(probs, labels, a) <= limits.ece * n
      BY <2>2, <2>a DEF HeadGate
    <3> QED
      BY <3>1 DEF BinaryEce
  <2> HIDE DEF n
  <2>7. p \in [1..n -> 0..100] /\ q \in [1..n -> 0..1]
    BY <2>3, <2>5, <2>a
  <2>8. Gaps(f, p, q, 1..n) /\ AtomGaps(f, probs, labels, a, 1..n)
    BY <2>3, <2>5 DEF Gaps, AtomGaps
  <2> HIDE DEF p, q, f
  <2>9. AtomSum(probs, labels, a, 1..n) = Total(f, 1..n)
    BY <2>8, AtomIsTotal
  <2>10. /\ Total(f, 1..n) \in Int /\ CalibrationError(p, q) \in Int
         /\ -CalibrationError(p, q) <= Total(f, 1..n)
         /\ Total(f, 1..n) <= CalibrationError(p, q)
    BY <2>3, <2>7, <2>8, OverconfidenceIsBounded
  <2>11. Magnitude(Total(f, 1..n)) <= CalibrationError(p, q) /\ Magnitude(Total(f, 1..n)) \in Int
    BY <2>10, MagnitudeWithin, WithinMagnitude
  <2>12. Magnitude(Total(f, 1..n)) <= limits.ece * n
    <3>1. limits.ece * n \in Int
      BY <2>3, <2>4
    <3> QED
      BY <2>6, <2>10, <2>11, <3>1, NoMoreThan
  <2>13. Magnitude(AtomSum(probs, labels, a, DOMAIN probs)) <= limits.ece * n
    BY <2>5, <2>9, <2>12
  <2> QED
    BY <2>13 DEF AtomSum, probs, labels, limits, n
<1>3. Computed => GateHolds
  BY <1>1, <1>2 DEF GateHolds
<1> QED
  BY <1>3, IsComputed, PTL
-----------------------------------------------------------------------------
(* Reports.                                                                  *)

LEMMA SameSize ==
  ASSUME NEW S, IsFiniteSet(S), NEW f, DOMAIN f = S, \A x, y \in S : f[x] = f[y] => x = y
  PROVE  IsFiniteSet({f[x] : x \in S}) /\ Cardinality({f[x] : x \in S}) = Cardinality(S)
<1> DEFINE T == {f[x] : x \in S}
           g == [x \in S |-> f[x]]
<1>1. g \in Bijection(S, T)
  BY DEF Bijection, Injection, Surjection, IsInjective
<1>2. ExistsBijection(S, T)
  BY <1>1 DEF ExistsBijection
<1> QED
  BY <1>2, FS_Bijection

\* A finite set in some order.
LEMMA SetToSeqIs ==
  ASSUME NEW S, IsFiniteSet(S)
  PROVE  /\ SetToSeq(S) \in [1..Cardinality(S) -> S] /\ Cardinality(S) \in Nat
         /\ \A j, k \in 1..Cardinality(S) : SetToSeq(S)[j] = SetToSeq(S)[k] => j = k
         /\ \A x \in S : \E k \in 1..Cardinality(S) : SetToSeq(S)[k] = x
<1> DEFINE n == Cardinality(S)
           q == SetToSeq(S)
<1>1. n \in Nat /\ ExistsBijection(1..n, S)
  BY FS_CardinalityType
<1>2. \E f \in [1..n -> S] : IsInjective(f)
  BY <1>1 DEF ExistsBijection, Bijection, Injection, IsInjective
<1>3. q \in [1..n -> S] /\ IsInjective(q)
  BY <1>2 DEF SetToSeq
<1> HIDE DEF q
<1>4. \A j, k \in 1..n : q[j] = q[k] => j = k
  BY <1>3 DEF IsInjective
<1>5. q \in Injection(1..n, S)
  BY <1>3, <1>4 DEF Injection, IsInjective
<1>6. Cardinality(1..n) = n
  BY <1>1, UpToSize
<1>7. q \in Surjection(1..n, S)
  BY <1>5, <1>6, FS_Injection
<1>8. \A x \in S : \E k \in 1..n : q[k] = x
  BY <1>7 DEF Surjection
<1> QED
  BY <1>1, <1>3, <1>4, <1>8 DEF q

\* Of numbers, those with fewer than some larger are as many, or all there are.
Above(D, d) == {e \in D : e > d}

LEMMA FewerInPart ==
  ASSUME NEW T, IsFiniteSet(T), NEW S \in SUBSET T, NEW x \in T, x \notin S
  PROVE  Cardinality(S) \in Nat /\ Cardinality(T) \in Nat /\ Cardinality(S) < Cardinality(T)
<1>1. IsFiniteSet(S) /\ Cardinality(S) <= Cardinality(T) /\ (Cardinality(S) = Cardinality(T) => S = T)
  BY FS_Subset
<1>2. Cardinality(S) \in Nat /\ Cardinality(T) \in Nat
  BY <1>1, FS_CardinalityType
<1>3. S # T
  OBVIOUS
<1> QED
  BY <1>1, <1>2, <1>3

LEMMA AboveIs ==
  ASSUME NEW D \in SUBSET Int, IsFiniteSet(D), NEW d \in D
  PROVE  Cardinality(Above(D, d)) \in Nat /\ Cardinality(Above(D, d)) < Cardinality(D)
<1>1. Above(D, d) \in SUBSET D /\ d \notin Above(D, d)
  BY DEF Above
<1> QED
  BY <1>1, FewerInPart

LEMMA AboveShrinks ==
  ASSUME NEW D \in SUBSET Int, IsFiniteSet(D), NEW d \in D, NEW e \in D, d < e
  PROVE  Cardinality(Above(D, e)) < Cardinality(Above(D, d))
<1>1. d \in Int /\ e \in Int
  OBVIOUS
<1>2. e \in Above(D, d) /\ e \notin Above(D, e)
  BY <1>1 DEF Above
<1>3. ASSUME NEW x \in Above(D, e)
      PROVE  x \in Above(D, d)
  <2>1. x \in D /\ x \in Int /\ x > e
    BY DEF Above
  <2>2. x > d
    BY <1>1, <2>1
  <2> QED
    BY <2>1, <2>2 DEF Above
<1>4. IsFiniteSet(Above(D, d))
  <2>1. Above(D, d) \in SUBSET D
    BY DEF Above
  <2> QED
    BY <2>1, FS_Subset
<1>5. Above(D, e) \in SUBSET Above(D, d)
  BY <1>3
<1> QED
  BY <1>2, <1>4, <1>5, FewerInPart

LEMMA BelowIs ==
  ASSUME NEW a \in Nat, NEW b \in Nat, a < b
  PROVE  a + 1 \in 1..b
OBVIOUS

LEMMA FewerIs ==
  ASSUME NEW a \in Nat, NEW L \in Nat, NEW m \in Nat, NEW top, top = IF L <= m THEN L ELSE m, a < m
  PROVE  top \in Nat /\ (a + 1 \in 1..top <=> a < L) /\ (a + 1 \in 1..m)
OBVIOUS

LEMMA TopOf ==
  ASSUME NEW D \in SUBSET Int, IsFiniteSet(D), NEW L \in Nat
  PROVE  Cardinality({d \in D : Cardinality(Above(D, d)) < L})
           = IF L <= Cardinality(D) THEN L ELSE Cardinality(D)
<1> DEFINE m == Cardinality(D)
           rank == [d \in D |-> Cardinality(Above(D, d)) + 1]
           S == {d \in D : Cardinality(Above(D, d)) < L}
           top == IF L <= m THEN L ELSE m
           r == [d \in S |-> rank[d]]
<1>1. m \in Nat
  BY FS_CardinalityType
<1>2. \A d \in D : Cardinality(Above(D, d)) \in Nat /\ Cardinality(Above(D, d)) < m
  BY AboveIs
<1>3. \A d \in D : rank[d] \in 1..m
  BY <1>1, <1>2, BelowIs
<1>4. \A d, e \in D : rank[d] = rank[e] => d = e
  <2> SUFFICES ASSUME NEW d \in D, NEW e \in D, d # e
               PROVE  rank[d] # rank[e]
    OBVIOUS
  <2>1. d \in Int /\ e \in Int
    OBVIOUS
  <2>2. CASE d < e
    <3>1. Cardinality(Above(D, e)) < Cardinality(Above(D, d))
      BY <2>2, AboveShrinks
    <3> QED
      BY <1>2, <3>1
  <2>3. CASE e < d
    <3>1. Cardinality(Above(D, d)) < Cardinality(Above(D, e))
      BY <2>3, AboveShrinks
    <3> QED
      BY <1>2, <3>1
  <2> QED
    BY <2>1, <2>2, <2>3
<1>5. rank = [d \in D |-> rank[d]] /\ \A d \in D : rank[d] = Cardinality(Above(D, d)) + 1
  OBVIOUS
<1>6. \A d \in D : d \in S <=> Cardinality(Above(D, d)) < L
  OBVIOUS
<1>7. S \in SUBSET D
  OBVIOUS
<1> HIDE DEF rank, S
<1>8. rank \in Injection(D, 1..m)
  <2>1. rank \in [D -> 1..m]
    BY <1>3, <1>5
  <2> QED
    BY <1>4, <2>1 DEF Injection, IsInjective
<1>9. IsFiniteSet(1..m) /\ Cardinality(1..m) = m
  BY <1>1, UpToSize
<1>10. rank \in Surjection(D, 1..m)
  BY <1>8, <1>9, FS_Injection
<1>11. \A j \in 1..m : \E d \in D : rank[d] = j
  BY <1>10 DEF Surjection
<1>12. \A d \in D : top \in Nat /\ (rank[d] \in 1..top <=> d \in S)
  BY <1>1, <1>2, <1>5, <1>6, FewerIs
<1>13. top \in Nat /\ top <= m
  BY <1>1
<1> HIDE DEF top
<1>14. r \in [S -> 1..top] /\ \A d, e \in S : r[d] = r[e] => d = e
  BY <1>4, <1>7, <1>12
<1>15. \A j \in 1..top : \E d \in S : r[d] = j
  <2>1. SUFFICES ASSUME NEW j \in 1..top
                 PROVE  \E d \in S : r[d] = j
    OBVIOUS
  <2>2. j \in 1..m
    BY <1>1, <1>13
  <2>3. PICK d \in D : rank[d] = j
    BY <1>11, <2>2
  <2> QED
    BY <1>12, <2>3
<1> HIDE DEF r
<1>16. r \in Bijection(S, 1..top)
  BY <1>14, <1>15 DEF Bijection, Injection, Surjection, IsInjective
<1>17. IsFiniteSet(S) /\ ExistsBijection(S, 1..top)
  BY <1>7, <1>16, FS_Subset DEF ExistsBijection
<1>18. Cardinality(1..top) = Cardinality(S) /\ Cardinality(1..top) = top
  BY <1>13, <1>17, FS_Bijection, UpToSize
<1> QED
  BY <1>18 DEF S, top

Dated(own) ==
  /\ IsFiniteSet(own)
  /\ \A s \in own : s.started \in Int
  /\ \A r, s \in own : r.started = s.started => r = s

Dates(own) == {s.started : s \in own}

LEMMA LimitIs ==
  ASSUME NEW L \in 1..50
  PROVE  Max({1, Min({L, 50})}) = L
<1>1. Min({L, 50}) = L
  <2>1. /\ Min({L, 50}) \in Int /\ Min({L, 50}) <= L /\ Min({L, 50}) <= 50
        /\ Min({L, 50}) = L \/ Min({L, 50}) = 50
    <3>1. L \in Int /\ 50 \in Int
      OBVIOUS
    <3> QED
      BY <3>1, MinOfTwo
  <2> QED
    BY <2>1
<1>2. Max({1, L}) = L
  <2>1. \E x \in {1, L} : \A y \in {1, L} : x >= y
    OBVIOUS
  <2>2. Max({1, L}) \in {1, L} /\ \A y \in {1, L} : y <= Max({1, L})
    BY <2>1 DEF Max
  <2> QED
    BY <2>2
<1> QED
  BY <1>1, <1>2

LEMMA DatesAre ==
  ASSUME NEW own, Dated(own)
  PROVE  Dates(own) \in SUBSET Int /\ IsFiniteSet(Dates(own)) /\ Cardinality(Dates(own)) = Cardinality(own)
<1> DEFINE f == [s \in own |-> s.started]
<1>1. DOMAIN f = own /\ \A x, y \in own : f[x] = f[y] => x = y
  BY DEF Dated
<1>2. Dates(own) = {f[s] : s \in own} /\ Dates(own) \in SUBSET Int
  BY DEF Dates, Dated
<1>3. IsFiniteSet(own)
  BY DEF Dated
<1> HIDE DEF f
<1> QED
  BY <1>1, <1>2, <1>3, SameSize

LEMMA NewestAre ==
  ASSUME NEW own, Dated(own), NEW L \in 1..50
  PROVE  Dates(Recent(own, L)) = {d \in Dates(own) : Cardinality(Above(Dates(own), d)) < L}
<1>1. \A s \in own : s.started \in Int /\ s.started \in Dates(own)
  BY DEF Dated, Dates
<1>2. ASSUME NEW s \in own
      PROVE  Cardinality({t \in own : t.started > s.started}) = Cardinality(Above(Dates(own), s.started))
  <2> DEFINE later == {t \in own : t.started > s.started}
  <2>1. Dates(later) = Above(Dates(own), s.started)
    BY <1>1 DEF Dates, Above
  <2>2. later \in SUBSET own
    OBVIOUS
  <2> HIDE DEF later
  <2>3. Dated(later)
    BY <2>2, FS_Subset DEF Dated
  <2>4. Cardinality(Dates(later)) = Cardinality(later)
    BY <2>3, DatesAre
  <2> QED
    BY <2>1, <2>4 DEF later
<1>3. Recent(own, L) = {s \in own : Cardinality(Above(Dates(own), s.started)) < L}
  <2>1. Recent(own, L) = {s \in own : Cardinality({t \in own : t.started > s.started}) < L}
    BY LimitIs DEF Recent
  <2> QED
    BY <1>2, <2>1
<1> QED
  BY <1>3 DEF Dates

LEMMA ShareIs ==
  ASSUME NEW n \in 1..Whole, NEW h \in 1..n
  PROVE  (h * Whole) \div n \in 1..Whole
<1>1. n \in 1..840 /\ h \in 1..n /\ Whole = 840
  BY DEF Whole
<1>2. h * 840 >= n /\ h * 840 <= 840 * n
  BY <1>1
<1> DEFINE x == h * 840
<1>3. x \in Nat /\ x >= n /\ x <= 840 * n
  BY <1>1, <1>2
<1> HIDE DEF x
<1>4. x \div n \in 1..840
  BY <1>1, <1>3
<1> QED
  BY <1>1, <1>4 DEF x

LEMMA UpToWhole ==
  ASSUME NEW n \in 0..Whole
  PROVE  n \in Nat
BY DEF Whole

LEMMA RatesAreShares ==
  ASSUME NEW shots, Len(shots) \in 0..Whole, DOMAIN shots = 1..Len(shots), NEW a \in DOMAIN Rates(shots)
  PROVE  Rates(shots)[a] \in 1..Whole
<1> DEFINE hits == {k \in DOMAIN shots : a \in DOMAIN Probs(shots[k]) /\ Probs(shots[k])[a] >= PresentFrom}
           n == Len(shots)
<1>1. hits # {} /\ Rates(shots)[a] = (Cardinality(hits) * Whole) \div n
  BY DEF Rates
<1>2. hits \in SUBSET (1..n) /\ n \in Nat
  <2>1. hits \in SUBSET (1..n)
    OBVIOUS
  <2>2. n \in 0..Whole
    OBVIOUS
  <2> HIDE DEF n
  <2>3. n \in Nat
    BY <2>2, UpToWhole
  <2> QED
    BY <2>1, <2>3
<1> HIDE DEF hits
<1>3. IsFiniteSet(1..n) /\ Cardinality(1..n) = n
  BY <1>2, UpToSize
<1>4. IsFiniteSet(hits) /\ Cardinality(hits) <= n /\ Cardinality(hits) \in Nat /\ Cardinality(hits) # 0
  <2>1. IsFiniteSet(hits) /\ Cardinality(hits) <= Cardinality(1..n)
    BY <1>2, <1>3, FS_Subset
  <2>2. Cardinality(hits) \in Nat /\ Cardinality(hits) # 0
    BY <1>1, <2>1, FS_CardinalityType, FS_EmptySet
  <2> QED
    BY <1>3, <2>1, <2>2
<1>5. Cardinality(hits) \in 1..n /\ n \in 1..Whole
  BY <1>2, <1>4
<1> QED
  BY <1>1, <1>5, ShareIs

\* The rows of the sessions that are shown: one for each, the oldest first.
RowsOf(rows, found) ==
  /\ DOMAIN rows = 1..Cardinality(found)
  /\ \A k \in DOMAIN rows : \E s \in found : rows[k].started = s.started /\ rows[k].rates = Rates(s.shots)
  /\ \A s \in found : \E k \in DOMAIN rows : rows[k].started = s.started
  /\ \A j, k \in DOMAIN rows : j < k => rows[j].started < rows[k].started

LEMMA RowsAre ==
  ASSUME NEW sessions, NEW athlete, NEW L,
         Dated(Recent({s \in sessions : s.athlete = athlete}, L))
  PROVE  RowsOf(Progress(sessions, athlete, L), Recent({s \in sessions : s.athlete = athlete}, L))
<1> DEFINE found == Recent({s \in sessions : s.athlete = athlete}, L)
           q == SetToSeq(found)
           n == Cardinality(found)
           keys == [k \in DOMAIN q |-> q[k].started]
           order == InOrder(keys)
           rows == Progress(sessions, athlete, L)
           shown == OldestFirst(found)
<1>0. shown = [k \in DOMAIN q |-> q[order[k]]]
  BY DEF OldestFirst
<1>1. rows = [k \in DOMAIN shown |->
                [started |-> shown[k].started, shots |-> Len(shown[k].shots), rates |-> Rates(shown[k].shots)]]
  BY DEF Progress
<1>a. IsFiniteSet(found) /\ \A s \in found : s.started \in Int
  BY DEF Dated
<1>b. \A r, s \in found : r.started = s.started => r = s
  BY DEF Dated
<1> HIDE DEF found, rows, shown
<1>2. /\ q \in [1..n -> found] /\ n \in Nat
      /\ \A j, k \in 1..n : q[j] = q[k] => j = k
      /\ \A x \in found : \E k \in 1..n : q[k] = x
  BY <1>a, SetToSeqIs
<1> HIDE DEF q, n
<1>3. /\ keys \in [1..n -> Int] /\ DOMAIN q = 1..n
      /\ \A p \in 1..n : keys[p] = q[p].started
  BY <1>a, <1>2
<1>4. keys \in Seq(Int) /\ Len(keys) = n
  BY <1>2, <1>3, FunctionIsSeq
<1> HIDE DEF keys
<1>5. /\ order \in [1..n -> 1..n]
      /\ \A r \in 1..n : Cardinality(UpTo(keys, order[r])) = r
      /\ \A p \in 1..n : order[Cardinality(UpTo(keys, p))] = p
  BY <1>4, InOrderIs
<1>6. \A p \in 1..n : Cardinality(UpTo(keys, p)) \in 1..n
  <2>1. ASSUME NEW p \in 1..n
        PROVE  Cardinality(UpTo(keys, p)) \in 1..n
    BY <1>4, UpToIs
  <2> QED
    BY <2>1
<1> HIDE DEF order
<1>7. DOMAIN rows = 1..n /\ \A k \in 1..n : shown[k] = q[order[k]]
  BY <1>0, <1>1, <1>3
<1>c. ASSUME NEW k \in 1..n
      PROVE  rows[k].started = q[order[k]].started /\ rows[k].rates = Rates(q[order[k]].shots)
  <2>1. k \in DOMAIN shown
    BY <1>0, <1>3
  <2> QED
    BY <1>1, <1>7, <2>1
<1>8. ASSUME NEW k \in 1..n
      PROVE  \E s \in found : rows[k].started = s.started /\ rows[k].rates = Rates(s.shots)
  <2>1. q[order[k]] \in found
    BY <1>2, <1>5
  <2> QED
    BY <1>c, <2>1
<1>9. ASSUME NEW s \in found
      PROVE  \E k \in 1..n : rows[k].started = s.started
  <2>1. PICK p \in 1..n : q[p] = s
    BY <1>2
  <2> DEFINE k == Cardinality(UpTo(keys, p))
  <2>2. k \in 1..n /\ order[k] = p
    BY <1>5, <1>6
  <2> HIDE DEF k
  <2>3. rows[k].started = q[order[k]].started
    BY <1>c, <2>2
  <2> QED
    BY <2>1, <2>2, <2>3
<1>10. ASSUME NEW j \in 1..n, NEW k \in 1..n, j < k
       PROVE  rows[j].started < rows[k].started
  <2> DEFINE p == order[j]
             r == order[k]
  <2>1. p \in 1..n /\ r \in 1..n
    BY <1>5
  <2>2. Cardinality(UpTo(keys, p)) = j /\ Cardinality(UpTo(keys, r)) = k /\ j \in Int /\ k \in Int
    BY <1>2, <1>5
  <2>3. rows[j].started = keys[p] /\ rows[k].started = keys[r]
    BY <1>3, <1>c, <2>1
  <2> HIDE DEF p, r
  <2>4. p # r
    BY <1>10, <2>2
  <2>5. keys[p] # keys[r]
    <3>1. q[p] # q[r] /\ q[p] \in found /\ q[r] \in found
      BY <1>2, <2>1, <2>4
    <3> QED
      BY <1>3, <1>b, <2>1, <3>1
  <2>6. keys[p] \in Int /\ keys[r] \in Int
    BY <1>3, <2>1
  <2>7. ~(keys[r] < keys[p])
    <3>1. SUFFICES ASSUME keys[r] < keys[p]
                   PROVE  FALSE
      OBVIOUS
    <3>2. Cardinality(UpTo(keys, r)) < Cardinality(UpTo(keys, p))
      BY <1>4, <2>1, <3>1, UpToGrows
    <3> QED
      BY <1>10, <2>2, <3>2
  <2> QED
    BY <2>3, <2>5, <2>6, <2>7
<1> QED
  BY <1>7, <1>8, <1>9, <1>10 DEF found, rows, n, RowsOf

\* Zeros that are most of a sequence of counts are its first half when it is sorted.
LEMMA ZerosFirst ==
  ASSUME NEW s \in Seq(Nat), NEW Z \in SUBSET (1..Len(s)), \A k \in Z : s[k] = 0,
         NEW r \in 1..Len(s), r <= Cardinality(Z)
  PROVE  Sorted(s)[r] = 0
<1>1. s \in Seq(Int) /\ DOMAIN s = 1..Len(s) /\ Len(s) \in Nat /\ r \in Nat
  <2>1. s \in [1..Len(s) -> Nat] /\ Len(s) \in Nat
    OBVIOUS
  <2>2. s \in [1..Len(s) -> Int]
    BY <2>1
  <2> QED
    BY <2>1, <2>2, FunctionIsSeq
<1> DEFINE p == InOrder(s)[r]
<1>2. p \in 1..Len(s) /\ Cardinality(UpTo(s, p)) = r
  BY <1>1, InOrderIs
<1>3. Sorted(s)[r] = s[p]
  BY <1>1 DEF Sorted
<1> HIDE DEF p
<1>4. s[p] \in Nat
  BY <1>2
<1>5. ASSUME s[p] # 0
      PROVE  FALSE
  <2>1. Z \in SUBSET UpTo(s, p) /\ p \in UpTo(s, p) /\ p \notin Z
    BY <1>1, <1>2, <1>4, <1>5 DEF UpTo
  <2>2. IsFiniteSet(UpTo(s, p))
    BY <1>1, <1>2, UpToIs
  <2>3. Cardinality(Z) \in Nat /\ Cardinality(UpTo(s, p)) \in Nat /\ Cardinality(Z) < Cardinality(UpTo(s, p))
    BY <2>1, <2>2, FewerInPart
  <2> QED
    BY <1>1, <1>2, <2>3
<1> QED
  BY <1>3, <1>5

LEMMA MiddleIs ==
  ASSUME NEW n \in Nat \ {0}, NEW z \in Nat, 2 * z > n
  PROVE  /\ (n + 1) \div 2 \in 1..n /\ (n + 1) \div 2 <= z
         /\ n \div 2 + 1 \in 1..n /\ n \div 2 + 1 <= z
OBVIOUS

LEMMA ZeroMedian ==
  ASSUME NEW s \in Seq(Nat), Len(s) # 0, NEW Z \in SUBSET (1..Len(s)), \A k \in Z : s[k] = 0,
         2 * Cardinality(Z) > Len(s)
  PROVE  TwiceMedian(s) = 0
<1> DEFINE n == Len(s)
           z == Cardinality(Z)
<1>1. n \in Nat \ {0} /\ z \in Nat /\ 2 * z > n
  <2>1. Len(s) \in Nat
    OBVIOUS
  <2>2. IsFiniteSet(1..Len(s))
    BY <2>1, UpToSize
  <2>3. IsFiniteSet(Z)
    BY <2>2, FS_Subset
  <2> QED
    BY <2>1, <2>3, FS_CardinalityType
<1>2. /\ (n + 1) \div 2 \in 1..n /\ (n + 1) \div 2 <= z
      /\ n \div 2 + 1 \in 1..n /\ n \div 2 + 1 <= z
  <2> HIDE DEF n, z
  <2> QED
    BY <1>1, MiddleIs
<1>3. Sorted(s)[(n + 1) \div 2] = 0
  BY <1>2, ZerosFirst
<1>4. Sorted(s)[n \div 2 + 1] = 0
  BY <1>2, ZerosFirst
<1> QED
  BY <1>3, <1>4 DEF TwiceMedian

LEMMA MissingIs ==
  ASSUME NEW n \in Nat, NEW m \in Nat, m <= n
  PROVE  Max({0, n - m}) = n - m /\ n - m \in Nat
<1>1. \E x \in {0, n - m} : \A y \in {0, n - m} : x >= y
  BY DEF Max
<1>2. Max({0, n - m}) \in {0, n - m} /\ \A y \in {0, n - m} : y <= Max({0, n - m})
  BY <1>1 DEF Max
<1> QED
  BY <1>2

LEMMA PaddedIs ==
  ASSUME NEW n \in Nat, NEW m \in Nat, m <= n, NEW counts \in [1..m -> Nat]
  PROVE  /\ Padded(counts, n) \in Seq(Nat) /\ Len(Padded(counts, n)) = n
         /\ \A k \in 1..n : k > m => Padded(counts, n)[k] = 0
<1> DEFINE more == [k \in 1..n - m |-> 0]
<1>1. counts \in Seq(Nat) /\ Len(counts) = m
  BY FunctionIsSeq
<1>2. n - m \in Nat /\ Max({0, n - m}) = n - m
  BY MissingIs
<1>3. more \in [1..n - m -> Nat] /\ \A k \in 1..n - m : more[k] = 0
  OBVIOUS
<1> HIDE DEF more
<1>4. more \in Seq(Nat) /\ Len(more) = n - m
  BY <1>2, <1>3, FunctionIsSeq
<1>5. Padded(counts, n) = counts \o more
  BY <1>1, <1>2 DEF Padded, more
<1>6. counts \o more \in Seq(Nat) /\ Len(counts \o more) = n
  BY <1>1, <1>4
<1>7. \A k \in 1..n : k > m => (counts \o more)[k] = 0
  <2> SUFFICES ASSUME NEW k \in 1..n, k > m
               PROVE  (counts \o more)[k] = 0
    OBVIOUS
  <2>1. k - m \in 1..n - m /\ k \in 1..m + (n - m)
    OBVIOUS
  <2>2. (counts \o more)[k] = more[k - m]
    BY <1>1, <1>4, <2>1
  <2> QED
    BY <1>3, <2>1, <2>2
<1> QED
  BY <1>5, <1>6, <1>7

LEMMA RestSize ==
  ASSUME NEW n \in Nat, NEW m \in Nat, m <= n
  PROVE  Cardinality({k \in 1..n : k > m}) = n - m
<1>1. {k \in 1..n : k > m} = m + 1..n
  OBVIOUS
<1>2. Cardinality(m + 1..n) = n - m
  <2>1. m + 1 \in Int /\ n \in Int
    OBVIOUS
  <2>2. Cardinality(m + 1..n) = IF m + 1 > n THEN 0 ELSE n - (m + 1) + 1
    BY <2>1, FS_Interval
  <2> QED
    BY <2>2
<1> QED
  BY <1>1, <1>2

OnePerUser(profiles) == IsFiniteSet(profiles) /\ \A p, q \in profiles : p.user = q.user => p = q

UsersOf(profiles) == {p.user : p \in profiles}

LEMMA UsersAre ==
  ASSUME NEW profiles, OnePerUser(profiles)
  PROVE  IsFiniteSet(UsersOf(profiles)) /\ Cardinality(UsersOf(profiles)) = Cardinality(profiles)
<1> DEFINE f == [p \in profiles |-> p.user]
<1>1. DOMAIN f = profiles /\ \A x, y \in profiles : f[x] = f[y] => x = y
  BY DEF OnePerUser
<1>2. UsersOf(profiles) = {f[p] : p \in profiles}
  BY DEF UsersOf
<1>3. IsFiniteSet(profiles)
  BY DEF OnePerUser
<1> HIDE DEF f
<1> QED
  BY <1>1, <1>2, <1>3, SameSize

LEMMA HalfIs ==
  ASSUME NEW n \in Nat, NEW m \in Nat, NEW z \in Nat, n = m + z, 2 * z > n
  PROVE  m <= n /\ n # 0 /\ 2 * (n - m) > n
OBVIOUS

LEMMA NothingTaken ==
  ASSUME NEW a \in Nat, NEW b \in Nat, NEW c, c = a + b - 0
  PROVE  c = a + b
OBVIOUS

LEMMA IdleMedianIsZero ==
  ASSUME NEW sessions, IsFiniteSet(sessions), NEW profiles, OnePerUser(profiles), NEW cohort, NEW since,
         LET own == UsersOf({p \in profiles : p.cohort = cohort})
             trained == {s.athlete : s \in {x \in sessions : x.started >= since}}
         IN  2 * Cardinality(own \ trained) > Cardinality(own)
  PROVE  MedianSessions(sessions, profiles, cohort, since) = 0
<1> DEFINE own == {p \in profiles : p.cohort = cohort}
           trained == {s.athlete : s \in {x \in sessions : x.started >= since}}
           Of(u) == {s \in sessions : s.athlete = u /\ s.started >= since}
           T == {p.user : p \in {q \in own : Of(q.user) # {}}}
           counted == SetToSeq(T)
           counts == [k \in DOMAIN counted |-> Cardinality(Of(counted[k]))]
           U == UsersOf(own)
           n == Cardinality(own)
           m == Cardinality(T)
           padded == Padded(counts, n)
<1>1. MedianSessions(sessions, profiles, cohort, since) = IF own = {} THEN 0 ELSE TwiceMedian(padded)
  BY DEF MedianSessions
<1>2. OnePerUser(own)
  <2>1. own \in SUBSET profiles
    OBVIOUS
  <2> HIDE DEF own
  <2> QED
    BY <2>1, FS_Subset DEF OnePerUser
<1>3. T = U \cap trained
  BY DEF UsersOf
<1>4. \A u : IsFiniteSet(Of(u))
  <2>1. ASSUME NEW u
        PROVE  IsFiniteSet(Of(u))
    <3>1. Of(u) \in SUBSET sessions
      OBVIOUS
    <3> QED
      BY <3>1, FS_Subset
  <2> QED
    BY <2>1
<1>5. 2 * Cardinality(U \ trained) > Cardinality(U)
  OBVIOUS
<1>6. IsFiniteSet(U) /\ Cardinality(U) = n
  <2> HIDE DEF own
  <2> QED
    BY <1>2, UsersAre
<1> HIDE DEF own, trained, Of, T, U
<1>7. IsFiniteSet(T) /\ m \in Nat /\ n \in Nat /\ Cardinality(U \ trained) \in Nat /\ n = m + Cardinality(U \ trained)
  <2>1. T \in SUBSET U /\ U \ trained = U \ T
    BY <1>3
  <2>2. IsFiniteSet(T) /\ IsFiniteSet(U \ trained)
    BY <1>6, <2>1, FS_Subset
  <2>3. m \in Nat /\ n \in Nat /\ Cardinality(U \ trained) \in Nat
    BY <1>6, <2>2, FS_CardinalityType
  <2>4. T \cup (U \ trained) = U /\ T \cap (U \ trained) = {}
    BY <2>1
  <2>5. Cardinality(T \cup (U \ trained)) = Cardinality(T) + Cardinality(U \ trained) - Cardinality(T \cap (U \ trained))
    BY <2>2, FS_Union
  <2>6. Cardinality(T \cap (U \ trained)) = 0
    BY <2>4, FS_EmptySet
  <2>7. Cardinality(U) = Cardinality(T) + Cardinality(U \ trained) - 0
    BY <2>4, <2>5, <2>6
  <2> HIDE DEF n
  <2>8. n = Cardinality(T) + Cardinality(U \ trained)
    BY <1>6, <2>3, <2>7, NothingTaken
  <2> QED
    BY <2>2, <2>3, <2>8
<1> HIDE DEF n, m
<1>8. m <= n /\ n # 0 /\ 2 * (n - m) > n
  BY <1>5, <1>6, <1>7, HalfIs
<1>9. counted \in [1..m -> T]
  BY <1>7, SetToSeqIs DEF m
<1> HIDE DEF counted
<1>10. counts \in [1..m -> Nat]
  <2>1. ASSUME NEW k \in 1..m
        PROVE  Cardinality(Of(counted[k])) \in Nat
    BY <1>4, FS_CardinalityType
  <2> QED
    BY <1>9, <2>1
<1> HIDE DEF counts
<1>11. padded \in Seq(Nat) /\ Len(padded) = n /\ \A k \in 1..n : k > m => padded[k] = 0
  BY <1>7, <1>8, <1>10, PaddedIs
<1> HIDE DEF padded
<1> DEFINE Z == {k \in 1..n : k > m}
<1>12. Cardinality(Z) = n - m
  BY <1>7, <1>8, RestSize
<1>13. Z \in SUBSET (1..Len(padded)) /\ \A k \in Z : padded[k] = 0
  BY <1>11
<1> HIDE DEF Z
<1>14. TwiceMedian(padded) = 0
  <2>1. Len(padded) # 0 /\ 2 * Cardinality(Z) > Len(padded)
    BY <1>8, <1>11, <1>12
  <2> QED
    BY <1>11, <1>13, <2>1, ZeroMedian
<1> QED
  BY <1>1, <1>14

LEMMA ClubsCount ==
  ASSUME NEW sessions, NEW profiles, IsFiniteSet(profiles), NEW memberships, NEW clubs, NEW today, NEW c \in clubs
  PROVE  Clubs(sessions, profiles, memberships, clubs, today)[c].athletes <= Cardinality(profiles)
<1> DEFINE Members(role) == {m.user : m \in {x \in memberships : x.org = c /\ x.role = role /\ x.active}}
           own == Members("athlete") \cap {p.user : p \in profiles}
           f == [p \in profiles |-> p.user]
           T == {f[p] : p \in profiles}
<1>1. Clubs(sessions, profiles, memberships, clubs, today)[c].athletes = Cardinality(own)
  BY DEF Clubs
<1>2. own \in SUBSET T /\ f \in Surjection(profiles, T)
  BY DEF Surjection
<1> HIDE DEF own, f, T
<1>3. IsFiniteSet(T) /\ Cardinality(T) <= Cardinality(profiles)
  BY <1>2, FS_Surjection
<1>4. IsFiniteSet(own) /\ Cardinality(own) <= Cardinality(T)
  BY <1>2, <1>3, FS_Subset
<1>5. Cardinality(own) \in Nat /\ Cardinality(T) \in Nat /\ Cardinality(profiles) \in Nat
  BY <1>3, <1>4, FS_CardinalityType
<1> QED
  BY <1>1, <1>3, <1>4, <1>5

LEMMA AtMostIs ==
  ASSUME NEW L \in Nat, NEW m \in Nat
  PROVE  Min({L, m}) = IF L <= m THEN L ELSE m
<1>1. \E x \in {L, m} : \A y \in {L, m} : x <= y
  OBVIOUS
<1>2. Min({L, m}) \in {L, m} /\ \A y \in {L, m} : Min({L, m}) <= y
  BY <1>1 DEF Min
<1> QED
  BY <1>2

\* Of the dates, those that are shown are newer than those that are not.
LEMMA NewestFirst ==
  ASSUME NEW D \in SUBSET Int, IsFiniteSet(D), NEW L \in Nat, NEW d \in D, NEW e \in D,
         ~(Cardinality(Above(D, d)) < L), Cardinality(Above(D, e)) < L
  PROVE  d < e
<1>1. d \in Int /\ e \in Int /\ Cardinality(Above(D, d)) \in Nat /\ Cardinality(Above(D, e)) \in Nat
  BY AboveIs
<1>2. ASSUME e < d
      PROVE  FALSE
  <2>1. Cardinality(Above(D, d)) < Cardinality(Above(D, e))
    BY <1>2, AboveShrinks
  <2> QED
    BY <1>1, <2>1
<1> QED
  BY <1>1, <1>2

\* For any number of sessions, the progress of an athlete shows the newest and no
\* older, each once, from the oldest of them to the newest, with rates that are
\* shares (services/longitudinal.py).
THEOREM ProgressAlwaysInOrder == Spec => []ProgressInOrder
<1>1. ASSUME Computed, Done("progress"), result.found
      PROVE  ProgressInOrder
  <2> DEFINE sessions == task.sessions
             athlete == task.athlete
             L == task.lastN
             own == {x \in sessions : x.athlete = athlete}
             found == Recent(own, L)
             rows == Progress(sessions, athlete, L)
             D == Dates(own)
  <2>1. /\ IsFiniteSet(sessions) /\ L \in 1..50
        /\ \A s \in sessions : s.started \in Int /\ Len(s.shots) \in 0..Whole /\ DOMAIN s.shots = 1..Len(s.shots)
        /\ \A r, s \in sessions : (r.athlete = s.athlete /\ r.started = s.started) => r = s
    <3>1. task \in Tasks /\ task.kind = "progress"
      BY <1>1 DEF Computed, Done
    <3> QED
      BY <3>1, TasksAssumption
  <2>2. result.sessions = rows
    <3>1. result = AthleteProgress(sessions, task.memberships, athlete, L)
      <4>1. task.kind = "progress" /\ result # Pending
        BY <1>1 DEF Done
      <4> QED
        BY ONLY <1>1, <4>1 DEF Computed
    <3>2. result.found
      BY <1>1
    <3>3. CASE Athlete(task.memberships, athlete) = {}
      <4>1. result = [found |-> FALSE]
        BY <3>1, <3>3 DEF AthleteProgress
      <4> QED
        BY <3>2, <4>1
    <3>4. CASE Athlete(task.memberships, athlete) # {}
      <4>1. result = [found |-> TRUE, sessions |-> rows, deltas |-> Deltas(rows)]
        BY <3>1, <3>4 DEF AthleteProgress
      <4> QED
        BY <4>1
    <3> QED
      BY <3>3, <3>4
  <2> HIDE DEF sessions, athlete, L
  <2>3. own \in SUBSET sessions /\ found \in SUBSET own
    BY DEF Recent
  <2>4. Dated(own)
    <3>1. IsFiniteSet(own)
      BY <2>1, <2>3, FS_Subset
    <3> QED
      BY <2>1, <3>1 DEF Dated
  <2> HIDE DEF own
  <2>5. Dated(found)
    <3>1. IsFiniteSet(own)
      BY <2>4 DEF Dated
    <3>2. IsFiniteSet(found)
      BY <2>3, <3>1, FS_Subset
    <3> QED
      BY <2>3, <2>4, <3>2 DEF Dated
  <2>6. D \in SUBSET Int /\ IsFiniteSet(D)
    BY <2>4, DatesAre
  <2>7. Dates(found) = {d \in D : Cardinality(Above(D, d)) < L}
    BY <2>1, <2>4, NewestAre
  <2>8. RowsOf(rows, found)
    <3>1. Dated(Recent({x \in sessions : x.athlete = athlete}, L))
      BY <2>5 DEF own
    <3>2. RowsOf(rows, Recent({x \in sessions : x.athlete = athlete}, L))
      BY <3>1, RowsAre
    <3> QED
      BY <3>2 DEF own
  <2>e. Cardinality(Dates(found)) = Cardinality(found)
    BY <2>5, DatesAre
  <2> HIDE DEF found, rows, D
  <2> DEFINE shown == {rows[k].started : k \in DOMAIN rows}
  <2>9. shown = Dates(found)
    BY <2>8 DEF Dates, RowsOf
  <2> HIDE DEF shown
  <2>10. L \in Nat /\ Cardinality(D) \in Nat
    <3>1. L \in 1..50
      BY <2>1
    <3>2. Cardinality(D) \in Nat
      BY <2>6, FS_CardinalityType
    <3> QED
      BY <3>1, <3>2
  <2>11. DOMAIN rows = 1..Min({L, Cardinality(D)})
    <3>1. Cardinality(Dates(found)) = IF L <= Cardinality(D) THEN L ELSE Cardinality(D)
      BY <2>6, <2>7, <2>10, TopOf
    <3>2. Min({L, Cardinality(D)}) = IF L <= Cardinality(D) THEN L ELSE Cardinality(D)
      BY <2>10, AtMostIs
    <3>3. DOMAIN rows = 1..Cardinality(found)
      BY <2>8 DEF RowsOf
    <3>4. Cardinality(found) = Min({L, Cardinality(D)})
      BY <2>e, <3>1, <3>2, Zenon
    <3> QED
      BY <3>3, <3>4, Zenon
  <2>12. ASSUME NEW d \in D \ shown, NEW e \in shown
         PROVE  d < e
    <3>1. d \in D /\ e \in D /\ ~(Cardinality(Above(D, d)) < L) /\ Cardinality(Above(D, e)) < L
      BY <2>7, <2>9
    <3> QED
      BY <2>6, <2>10, <3>1, NewestFirst
  <2>13. ASSUME NEW k \in DOMAIN rows, NEW a \in DOMAIN rows[k].rates
         PROVE  rows[k].rates[a] \in 1..Whole
    <3>1. PICK s \in found : rows[k].rates = Rates(s.shots)
      BY <2>8 DEF RowsOf
    <3>2. Len(s.shots) \in 0..Whole /\ DOMAIN s.shots = 1..Len(s.shots) /\ a \in DOMAIN Rates(s.shots)
      BY <2>1, <2>3, <3>1
    <3>3. Rates(s.shots)[a] \in 1..Whole
      BY <3>2, RatesAreShares
    <3> QED
      BY <3>1, <3>3
  <2>14. D = {s.started : s \in {x \in task.sessions : x.athlete = task.athlete}}
    BY DEF D, Dates, own, sessions, athlete
  <2>15. shown \subseteq D
    BY <2>7, <2>9
  <2>16. \A j, k \in DOMAIN rows : j < k => rows[j].started < rows[k].started
    BY <2>8 DEF RowsOf
  <2>17. /\ DOMAIN rows = 1..Min({task.lastN, Cardinality(D)})
         /\ shown = {rows[k].started : k \in DOMAIN rows}
    BY <2>11 DEF shown, L
  <2>18. \A d \in D \ shown : \A e \in shown : d < e
    BY <2>12
  <2>19. \A k \in DOMAIN rows : \A a \in DOMAIN rows[k].rates : rows[k].rates[a] \in 1..Whole
    BY <2>13
  <2> QED
    BY ONLY <2>2, <2>14, <2>15, <2>16, <2>17, <2>18, <2>19 DEF ProgressInOrder
<1>2. Computed => ProgressInOrder
  BY <1>1 DEF ProgressInOrder
<1> QED
  BY <1>2, IsComputed, PTL

\* For any number of athletes, cohorts and clubs, a cohort of which most do not train
\* has the median zero, and no club counts more athletes than its federation
\* (routers/federation.py).
THEOREM ReportsAlwaysHonest == Spec => []ReportsHonest
<1>1. ASSUME Computed, Done("federation")
      PROVE  /\ \A c \in task.cohorts :
                  LET own == {p.user : p \in {q \in task.profiles : q.cohort = c}}
                      trained == {s.athlete : s \in {x \in task.sessions : x.started >= task.today - ActiveWindow}}
                  IN  2 * Cardinality(own \ trained) > Cardinality(own) => result.overview.cohorts[c].median = 0
             /\ \A c \in task.clubs : result.clubs[c].athletes <= result.overview.athletes
  <2>1. /\ IsFiniteSet(task.sessions) /\ OnePerUser(task.profiles) /\ IsFiniteSet(task.profiles)
    <3>1. task \in Tasks /\ task.kind = "federation"
      BY <1>1 DEF Computed, Done
    <3> QED
      BY <3>1, TasksAssumption DEF OnePerUser
  <2>2. /\ result.overview = Overview(task.sessions, task.profiles, task.clubs, task.cohorts, task.today)
        /\ result.clubs = Clubs(task.sessions, task.profiles, task.memberships, task.clubs, task.today)
    <3>1. task.kind = "federation" /\ result # Pending
      BY <1>1 DEF Done
    <3>2. result = [overview |-> Overview(task.sessions, task.profiles, task.clubs, task.cohorts, task.today),
                    clubs |-> Clubs(task.sessions, task.profiles, task.memberships, task.clubs, task.today),
                    listed |-> Cohorts(task.profiles, task.cohorts),
                    athletes |-> Athletes(task.memberships),
                    orgs |-> [u \in Athletes(task.memberships) |-> Orgs(task.memberships, u)]]
      BY ONLY <1>1, <3>1 DEF Computed
    <3> QED
      BY ONLY <3>2
  <2>3. ASSUME NEW c \in task.cohorts,
               LET own == {p.user : p \in {q \in task.profiles : q.cohort = c}}
                   trained == {s.athlete : s \in {x \in task.sessions : x.started >= task.today - ActiveWindow}}
               IN  2 * Cardinality(own \ trained) > Cardinality(own)
        PROVE  result.overview.cohorts[c].median = 0
    <3>1. result.overview.cohorts[c].median
            = MedianSessions(task.sessions, task.profiles, c, task.today - ActiveWindow)
      BY <2>2 DEF Overview
    <3>2. LET own == UsersOf({p \in task.profiles : p.cohort = c})
              trained == {s.athlete : s \in {x \in task.sessions : x.started >= task.today - ActiveWindow}}
          IN  2 * Cardinality(own \ trained) > Cardinality(own)
      BY <2>3 DEF UsersOf
    <3>3. MedianSessions(task.sessions, task.profiles, c, task.today - ActiveWindow) = 0
      BY <2>1, <3>2, IdleMedianIsZero
    <3> QED
      BY <3>1, <3>3
  <2>4. ASSUME NEW c \in task.clubs
        PROVE  result.clubs[c].athletes <= result.overview.athletes
    <3>1. result.overview.athletes = Cardinality(task.profiles)
      BY <2>2 DEF Overview
    <3>2. Clubs(task.sessions, task.profiles, task.memberships, task.clubs, task.today)[c].athletes
            <= Cardinality(task.profiles)
      BY <2>1, ClubsCount
    <3> QED
      BY <2>2, <3>1, <3>2
  <2> QED
    BY <2>3, <2>4
<1>2. Computed => ReportsHonest
  BY <1>1 DEF ReportsHonest
<1> QED
  BY <1>2, IsComputed, PTL
=============================================================================
