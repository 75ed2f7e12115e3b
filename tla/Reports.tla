------------------------------- MODULE Reports -------------------------------
(***************************************************************************)
(* What coaches and federations read about their athletes: the progress of *)
(* one, services/longitudinal.py, and the overview and the clubs of a      *)
(* federation, routers/federation.py.                                      *)
(*                                                                         *)
(* A session has the athlete, the club, the day it started and its shots,  *)
(* each the sequence of its diagnostic events in the order the database    *)
(* returns them, which no query states; an event gives atoms a percentage. *)
(* Rates are in parts of Whole, medians are doubled.                       *)
(***************************************************************************)
EXTENDS Integers, Sequences, FiniteSets, SequencesExt, FiniteSetsExt, Sorting

Whole == 840
PresentFrom == 50
ActiveWindow == 30

\* The first event is kept, though the comment says the latest.
Probs(events) == IF events = <<>> THEN <<>> ELSE Head(events)

\* The share of the shots on which an atom is present; none is listed with zero.
Rates(shots) ==
  LET Hits(a) == {k \in DOMAIN shots : a \in DOMAIN Probs(shots[k]) /\ Probs(shots[k])[a] >= PresentFrom}
      atoms == {a \in UNION {DOMAIN Probs(shots[k]) : k \in DOMAIN shots} : Hits(a) # {}}
  IN  [a \in atoms |-> (Cardinality(Hits(a)) * Whole) \div Len(shots)]

\* The newest sessions, at least one and at most fifty.
Recent(sessions, lastN) ==
  {s \in sessions : Cardinality({t \in sessions : t.started > s.started}) < Max({1, Min({lastN, 50})})}

\* A fault of OldestFirst: the order of the query is kept.
AsQueried(sessions) ==
  LET found == SetToSeq(sessions)
      order == InOrder([k \in DOMAIN found |-> found[k].started])
  IN  Reverse([k \in DOMAIN found |-> found[order[k]]])

OldestFirst(sessions) ==
  LET found == SetToSeq(sessions)
      order == InOrder([k \in DOMAIN found |-> found[k].started])
  IN  [k \in DOMAIN found |-> found[order[k]]]

\* compute_athlete_progress.
Progress(sessions, athlete, lastN) ==
  LET shown == OldestFirst(Recent({s \in sessions : s.athlete = athlete}, lastN))
      Rollup(s) == [started |-> s.started, shots |-> Len(s.shots), rates |-> Rates(s.shots)]
  IN  [k \in DOMAIN shown |-> Rollup(shown[k])]

\* compute_deltas: an atom of the latest session against the mean of those before.
Deltas(rollups) ==
  IF Len(rollups) < 2 THEN <<>>
  ELSE LET latest == Last(rollups).rates
           prior == Front(rollups)
           RateIn(a, r) == IF a \in DOMAIN r.rates THEN r.rates[a] ELSE 0
       IN  [a \in DOMAIN latest |->
              latest[a] - MapThenSumSet(LAMBDA k : RateIn(a, prior[k]), DOMAIN prior) \div Len(prior)]

\* list_athletes: each once, however many clubs; get_athlete; list_orgs.
Athletes(memberships) == {m.user : m \in {x \in memberships : x.role = "athlete" /\ x.active}}
Athlete(memberships, user) == {user} \cap Athletes(memberships)
Orgs(memberships, user) == {m.org : m \in {x \in memberships : x.user = user /\ x.active}}

\* get_athlete_progress: nothing is told of whom is no athlete of the tenant.
AthleteProgress(sessions, memberships, athlete, lastN) ==
  IF Athlete(memberships, athlete) = {} THEN [found |-> FALSE]
  ELSE LET rollups == Progress(sessions, athlete, lastN)
       IN  [found |-> TRUE, sessions |-> rollups, deltas |-> Deltas(rollups)]
-----------------------------------------------------------------------------
\* A fault of Padded: who did not train is left out.
PaddedNot(counts, athletes) == IF counts = <<>> THEN <<0>> ELSE counts

Padded(counts, athletes) == counts \o [k \in 1..Max({0, athletes - Len(counts)}) |-> 0]

\* The median of the sessions of the cohort's athletes within the window.
MedianSessions(sessions, profiles, cohort, since) ==
  LET own == {p \in profiles : p.cohort = cohort}
      Of(u) == {s \in sessions : s.athlete = u /\ s.started >= since}
      counted == SetToSeq({p.user : p \in {q \in own : Of(q.user) # {}}})
  IN  IF own = {} THEN 0
      ELSE TwiceMedian(Padded([k \in DOMAIN counted |-> Cardinality(Of(counted[k]))], Cardinality(own)))

\* federation_overview; every club counts as active.
Overview(sessions, profiles, clubs, cohorts, today) ==
  LET since == today - ActiveWindow IN
  [athletes |-> Cardinality(profiles), clubs |-> Cardinality(clubs),
   sessions |-> Cardinality({s \in sessions : s.started >= since}),
   cohorts |-> [c \in cohorts |->
     [athletes |-> Cardinality({p \in profiles : p.cohort = c}),
      median |-> MedianSessions(sessions, profiles, c, since)]]]

ClubStatus(athletes, started, today) ==
  CASE athletes = 0 -> "pending_setup"
    [] athletes > 0 /\ started = {} -> "paused"
    [] OTHER -> IF Max(started) >= today - ActiveWindow THEN "active" ELSE "paused"

\* list_federation_clubs: an athlete of a club has a profile and an active membership.
Clubs(sessions, profiles, memberships, clubs, today) ==
  LET Members(c, role) == {m.user : m \in {x \in memberships : x.org = c /\ x.role = role /\ x.active}}
      Own(c) == Members(c, "athlete") \cap {p.user : p \in profiles}
  IN  [c \in clubs |->
        [athletes |-> Cardinality(Own(c)), coaches |-> Cardinality(Members(c, "coach")),
         status |-> ClubStatus(Cardinality(Own(c)), {s.started : s \in {x \in sessions : x.org = c}}, today)]]

\* list_cohorts, with the number of their profiles.
Cohorts(profiles, cohorts) == [c \in cohorts |-> Cardinality({p \in profiles : p.cohort = c})]
=============================================================================
