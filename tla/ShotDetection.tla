---------------------------- MODULE ShotDetection ----------------------------
(***************************************************************************)
(* The detection of shots in a recording, inference/audio_shot.py, how two *)
(* recordings of the same shots are aligned, inference/audio_xcorr.py, and *)
(* how detections are scored, eval/audio_detection_eval.py.                *)
(*                                                                         *)
(* Time is counted in frames, or samples.  Which frames stand out of their *)
(* surroundings is an input; of the filters only what they refuse is kept. *)
(***************************************************************************)
EXTENDS Integers, Sequences, FiniteSets, SequencesExt, FiniteSetsExt, Sorting

\* A fault of Emit: a stronger frame is added to the one it follows.
EmitBoth(flux, out, gap) ==
  FoldLeft(LAMBDA shots, i :
      IF i \notin out \/ (shots # <<>> /\ i - Last(shots) < gap /\ flux[i] <= flux[Last(shots)])
      THEN shots ELSE Append(shots, i),
    <<>>, [i \in DOMAIN flux |-> i])

\* A frame that stands out is a shot, unless it follows the last one too soon: then
\* the stronger of the two stays.
Emit(flux, out, gap) ==
  FoldLeft(LAMBDA shots, i :
      IF i \notin out THEN shots
      ELSE IF shots # <<>> /\ i - Last(shots) < gap
      THEN (IF flux[i] > flux[Last(shots)] THEN Append(Front(shots), i) ELSE shots)
      ELSE Append(shots, i),
    <<>>, [i \in DOMAIN flux |-> i])
-----------------------------------------------------------------------------
Dist(a, b) == IF a < b THEN b - a ELSE a - b

\* The unused shot nearest to a prediction; of two the later one; 0 is none.
Pair(truth, tolerance, used, at) ==
  LET near == {t \in DOMAIN truth \ used : Dist(truth[t], at) <= tolerance}
      best == {t \in near : \A s \in near : Dist(truth[t], at) <= Dist(truth[s], at)}
  IN  IF near = {} THEN 0 ELSE Max(best)

\* The pairs <<prediction, shot>>, the predictions taken in order of time.
Match(predicted, truth, tolerance) ==
  FoldLeft(LAMBDA pairs, p :
      LET t == Pair(truth, tolerance, {m[2] : m \in pairs}, predicted[p])
      IN  IF t = 0 THEN pairs ELSE pairs \cup {<<p, t>>},
    {}, InOrder(predicted))
-----------------------------------------------------------------------------
\* The samples of a window around t, cut at the ends of the recording; samples
\* are numbered from 1.
Window(pcm, t, half) ==
  LET lo == Max({0, t - half}) hi == Min({Len(pcm), t + half})
  IN  IF hi <= lo THEN <<>> ELSE SubSeq(pcm, lo + 1, hi)

\* filtfilt refuses what is not longer than three times its filter, which has
\* 2 * order + 1 coefficients: with the default order of 4 that is 27 samples.
TooShort(window, order) == window # <<>> /\ Len(window) <= 3 * (2 * order + 1)

\* A window without its mean, times its length.
ZeroMean(w) == LET sum == MapThenSumSet(LAMBDA n : w[n], DOMAIN w) IN [n \in DOMAIN w |-> Len(w) * w[n] - sum]

\* The correlation at a lag: how well a is b, moved by it.
Correlation(a, b, lag) ==
  MapThenSumSet(LAMBDA n : a[n + lag] * b[n], {n \in DOMAIN b : n + lag \in DOMAIN a})

Energy(a) == MapThenSumSet(LAMBDA n : a[n] * a[n], DOMAIN a)
Abs(x) == IF x < 0 THEN -x ELSE x

\* The first of the lags, within the search and the windows, with the strongest correlation.
BestLag(a, b, search) ==
  LET lags == {k \in -search..search : Abs(k) < Len(a)}
      strength == [k \in lags |-> Abs(Correlation(a, b, k))]
  IN  CHOOSE k \in lags : \A l \in lags : strength[l] <= strength[k] /\ (l < k => strength[l] < strength[k])

\* A fault of Offset: the lag of scipy, not its opposite.
OffsetAsLag(a, b, search) == BestLag(a, b, search)

\* b is later than a by so many samples.
Offset(a, b, search) == - BestLag(a, b, search)

\* The peak is at least three tenths of the product of the norms; the squares
\* are compared.
Confident(a, b, search) ==
  LET peak == Correlation(a, b, - Offset(a, b, search)) denom == Energy(a) * Energy(b)
  IN  denom > 0 /\ 100 * peak * peak >= 9 * denom

\* The windows of one shot, of the length of the shorter.
Windows(a, b, t, half) ==
  LET wa == Window(a, t, half) wb == Window(b, t, half) n == Min({Len(wa), Len(wb)})
  IN  [a |-> SubSeq(wa, 1, n), b |-> SubSeq(wb, 1, n)]

\* align_camera_pair: the median over the confident shots, or over all; a window that
\* the filter refuses ends it.
Align(a, b, times, half, search, order) ==
  LET w == [k \in DOMAIN times |-> Windows(a, b, times[k], half)]
      empty == {k \in DOMAIN w : w[k].a = <<>>}
      za == [k \in DOMAIN w |-> ZeroMean(w[k].a)]
      zb == [k \in DOMAIN w |-> ZeroMean(w[k].b)]
      offset == [k \in DOMAIN w |-> IF k \in empty THEN 0 ELSE Offset(za[k], zb[k], search)]
      sure == {k \in DOMAIN w \ empty : Confident(za[k], zb[k], search)}
      pool == SetToSeq(IF sure = {} THEN DOMAIN w ELSE sure)
  IN  IF \E k \in DOMAIN w : TooShort(w[k].a, order) THEN [raised |-> TRUE]
      ELSE [raised |-> FALSE, sure |-> Cardinality(sure),
            twice |-> TwiceMedian([n \in DOMAIN pool |-> offset[pool[n]]])]
=============================================================================
