----------------------------- MODULE Evaluation ------------------------------
(***************************************************************************)
(* What decides which model is used and which samples it learns from:      *)
(* eval/metrics.py and eval/gates.py, the gate of the diagnostic head,     *)
(* eval/diagnostic_eval.py, the conformal sets of inference/calibration.py *)
(* and the choice of samples to label, training/active_learning.py.        *)
(*                                                                         *)
(* Probabilities are in percent; a score that divides by the number of     *)
(* samples is compared multiplied by it.  F1 is in parts of Unit, which    *)
(* all the denominators of at most four samples divide.                    *)
(***************************************************************************)
EXTENDS Integers, Sequences, FiniteSets, SequencesExt, FiniteSetsExt, Sorting, Taxonomy

Unit == 840
NBins == 15

SumOver(S, Of(_)) == MapThenSumSet(Of, S)
Magnitude(x) == IF x < 0 THEN -x ELSE x

ArgMax(p) == Min({c \in DOMAIN p : \A d \in DOMAIN p : p[d] <= p[c]})

\* A fault of BinOf: the last bin is open too, and what is certain in none.
BinOpen(confidence) == (confidence * NBins) \div 100

BinOf(confidence) == Min({(confidence * NBins) \div 100, NBins - 1})

\* The calibration error of sequences of confidences and of outcomes, 0 or 1,
\* times their length: in each bin the distance of the two sums.
CalibrationError(confidences, outcomes) ==
  LET In(b) == {k \in DOMAIN confidences : BinOf(confidences[k]) = b}
      Apart(b) == Magnitude(SumOver(In(b), LAMBDA k : confidences[k] - 100 * outcomes[k]))
  IN  SumOver(0..NBins - 1, Apart)

ExpectedCalibrationError(probs, labels) ==
  CalibrationError([k \in DOMAIN probs |-> probs[k][ArgMax(probs[k])]],
                   [k \in DOMAIN probs |-> IF ArgMax(probs[k]) = labels[k] THEN 1 ELSE 0])

\* 2PR / (P + R), which is 0 without a true positive.
F1(tp, fp, fn) == IF tp = 0 THEN 0 ELSE (2 * tp * Unit) \div (2 * tp + fp + fn)

\* The mean over the classes, times their number, of the samples in some set.
MacroF1(preds, labels, classes, samples) ==
  SumOver(classes, LAMBDA c :
    F1(Cardinality({k \in samples : preds[k] = c /\ labels[k] = c}),
       Cardinality({k \in samples : preds[k] = c /\ labels[k] # c}),
       Cardinality({k \in samples : preds[k] # c /\ labels[k] = c})))

\* The k most probable classes; of equals the earlier, though numpy promises no order of them.
TopK(p, k) ==
  {c \in DOMAIN p :
     Cardinality({d \in DOMAIN p : p[d] > p[c] \/ (p[d] = p[c] /\ d < c)}) < k}

TopKPreds(probs, labels, k) ==
  [n \in DOMAIN probs |-> IF labels[n] \in TopK(probs[n], k) THEN labels[n] ELSE ArgMax(probs[n])]

\* conformal_coverage, as the number of samples whose label is in their set.
Covered(sets, labels) == Cardinality({n \in DOMAIN labels : labels[n] \in sets[n]})

Support(labels, c) == {n \in DOMAIN labels : labels[n] = c}

\* The classes with enough samples whose recall is under the floor.
FailedClasses(preds, labels, classes, floor, minSupport) ==
  {c \in classes :
     LET own == Support(labels, c) IN
     /\ Cardinality(own) >= minSupport
     /\ 100 * Cardinality({n \in own : preds[n] = c}) < floor * Cardinality(own)}

\* stratify: what is missing, or none, is the bucket "unknown".
Bucket(metadata, n, axis) ==
  IF axis \in DOMAIN metadata[n] /\ metadata[n][axis] # "none" THEN metadata[n][axis] ELSE "unknown"

Strata(metadata, axis) ==
  {{n \in DOMAIN metadata : Bucket(metadata, n, axis) = b} :
     b \in {Bucket(metadata, n, axis) : n \in DOMAIN metadata}}

\* The axes on which the scores of two strata that are large enough are further
\* apart than the gap, in percent of a score whose best is whole.
FailedAxes(metadata, axes, minSize, gap, score, whole) ==
  {axis \in axes :
     \E s, t \in {u \in Strata(metadata, axis) : Cardinality(u) >= minSize} :
       100 * (score[s] - score[t]) > gap * whole}

GateThresholds ==
  [ece |-> 5, top3 |-> 78, coverage |-> 88, gap |-> 5, recall |-> 50, support |-> 25]

\* gates.evaluate; g is of the form of GateThresholds.
Gate(probs, labels, sets, metadata, axes, g) ==
  LET n == Len(labels)
      classes == DOMAIN probs[1]
      count == Cardinality(classes)
      preds == [k \in DOMAIN probs |-> ArgMax(probs[k])]
      score == [s \in SUBSET DOMAIN labels |-> MacroF1(preds, labels, classes, s)]
  IN  /\ ExpectedCalibrationError(probs, labels) <= g.ece * n
      /\ 100 * MacroF1(TopKPreds(probs, labels, Min({3, count})), labels, classes, DOMAIN labels)
           >= g.top3 * Unit * count
      /\ 100 * Covered(sets, labels) >= g.coverage * n
      /\ FailedAxes(metadata, axes, 1, g.gap, score, Unit * count) = {}
      /\ FailedClasses(preds, labels, classes, g.recall, g.support) = {}
-----------------------------------------------------------------------------
\* binary_f1 of one atom over some of the shots.
BinaryF1(probs, labels, atom, samples) ==
  LET Sure(n) == probs[n][atom] >= AtomThreshold(atom, 50) IN
  F1(Cardinality({n \in samples : Sure(n) /\ labels[n][atom] = 1}),
     Cardinality({n \in samples : Sure(n) /\ labels[n][atom] = 0}),
     Cardinality({n \in samples : ~Sure(n) /\ labels[n][atom] = 1}))

BinaryEce(probs, labels, atom) ==
  CalibrationError([k \in DOMAIN probs |-> probs[k][atom]], [k \in DOMAIN probs |-> labels[k][atom]])

DiagnosticGateThresholds == [ece |-> 10, branchEce |-> 7, f1 |-> 55, bucket |-> 30, gap |-> 5]

\* evaluate_diagnostic_head, for shots with a probability and a label, 0 or 1, of
\* each atom; g is of the form of DiagnosticGateThresholds.
HeadGate(probs, labels, metadata, axes, g) ==
  LET n == Len(labels)
      atoms == DOMAIN probs[1]
      Ece(a) == BinaryEce(probs, labels, a)
      score == [s \in SUBSET DOMAIN labels |-> SumOver(atoms, LAMBDA a : BinaryF1(probs, labels, a, s))]
      Branch(b) == {a \in atoms : BranchOf[a] = b}
      branches == {BranchOf[a] : a \in atoms}
  IN  /\ \A a \in atoms : Ece(a) <= g.ece * n
      /\ \A b \in branches :
           /\ SumOver(Branch(b), Ece) <= g.branchEce * n * Cardinality(Branch(b))
           /\ 100 * SumOver(Branch(b), LAMBDA a : BinaryF1(probs, labels, a, DOMAIN labels))
                >= g.f1 * Unit * Cardinality(Branch(b))
      /\ 100 * score[DOMAIN labels] >= g.f1 * Unit * Cardinality(atoms)
      /\ FailedAxes(metadata, axes, g.bucket, g.gap, score, Unit * Cardinality(atoms)) = {}
-----------------------------------------------------------------------------
\* A fault of Rank: the quantile of the calibration set itself.
RankOfSample(n, coverage) == Min({n, (n * coverage + 99) \div 100})

\* Which of n scores in order is the quantile, at least; the code's level is this
\* by n, and never above 1.
Rank(n, coverage) == Min({n, ((n + 1) * coverage + 99) \div 100})

\* numpy's quantile at Rank by n lies between two scores; times n.
Quantile(scores, coverage) ==
  LET sorted == Sorted(scores)
      n == Len(scores)
      at == (n - 1) * Rank(n, coverage)
      lo == sorted[at \div n + 1]
      hi == sorted[Min({at \div n + 2, n})]
  IN  n * lo + (at % n) * (hi - lo)

\* The set of one vector of probabilities, from those of the true classes of a
\* calibration set: all that are probable enough, or else the most probable.
PredictionSet(calibration, p, coverage) ==
  LET n == Len(calibration)
      q == Quantile([k \in DOMAIN calibration |-> 100 - calibration[k]], coverage)
      members == IF n = 0 THEN {} ELSE {c \in DOMAIN p : n * (100 - p[c]) <= q}
  IN  IF members = {} THEN {ArgMax(p)} ELSE members
-----------------------------------------------------------------------------
\* Embeddings are points of a grid, compared by the square of their distance.
Apart2(x, y) == (x[1] - y[1]) * (x[1] - y[1]) + (x[2] - y[2]) * (x[2] - y[2])

\* A fault of Nearest: the distance to the newest point only.
NearestNew(points, old, new) == [i \in DOMAIN points |-> Apart2(points[i], points[new])]

\* How far each point is from the chosen ones, one more of which is new.
Nearest(points, old, new) == [i \in DOMAIN points |-> Min({old[i], Apart2(points[i], points[new])})]

\* The farthest point is chosen, again and again; the first by chance.
Coreset(points, budget, first) ==
  FoldLeft(LAMBDA c, step :
      LET next == ArgMax(c.dist)
      IN  [chosen |-> Append(c.chosen, next), dist |-> Nearest(points, c.dist, next)],
    [chosen |-> <<first>>, dist |-> [i \in DOMAIN points |-> Apart2(points[i], points[first])]],
    [step \in 1..budget - 1 |-> step]).chosen

\* diagnostic.select_primary, for pairs of an atom and its probability: the
\* earliest branch of the chain, in it the most probable, of equals the first.
Primary(pairs) ==
  LET above == {k \in DOMAIN pairs : pairs[k][2] >= AtomThreshold(pairs[k][1], 100)}
      Before(k, m) ==
        LET r == ChainRank(pairs[k][1]) s == ChainRank(pairs[m][1]) IN
        \/ r < s
        \/ r = s /\ pairs[k][2] > pairs[m][2]
        \/ r = s /\ pairs[k][2] = pairs[m][2] /\ k <= m
  IN  IF above = {} THEN "abstains" ELSE pairs[CHOOSE k \in above : \A m \in above : Before(k, m)][1]

=============================================================================
