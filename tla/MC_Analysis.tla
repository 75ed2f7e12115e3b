----------------------------- MODULE MC_Analysis -----------------------------
EXTENDS Analysis

MCNotes ==
  [says : {"note"}, note :
    {Note("ours", passed, tone, diagnostics, {}, drills, shaped) :
       passed \in BOOLEAN, tone \in {"silent", "coach"}, diagnostics \in {{}, {1}, {3}},
       drills \in {{"mount"}, {"unknown"}}, shaped \in BOOLEAN}]
MCAnswers ==
  [says : {"nothing", "garbage"}, note : {Degraded}] \cup
  [says : {"note"}, note :
    {Note("theirs", FALSE, "coach", {1}, {2}, {"mount"}, TRUE), Note("ours", TRUE, "coach", {3}, {}, {}, TRUE),
     Note("ours", TRUE, "coach", {1}, {}, {"unknown"}, TRUE), Note("ours", FALSE, "silent", {}, {}, {}, FALSE)}]
MCTexts == UNION {[1..n -> {"word", "name", "alias", "email", "phone", "tag", "pseudonym"}] : n \in 0..2}

\* A blast of three samples in silence, heard by a second camera later or earlier; a
\* filter of order 1 takes windows of ten samples, of the twelve that fit.
MCBlast(at) == [k \in 1..30 |-> CASE k = at -> 4 [] k = at + 1 -> -2 [] k = at + 2 -> 1 [] OTHER -> 0]
MCPair(at, other, delay) ==
  [kind |-> "align", a |-> MCBlast(at), b |-> MCBlast(at + delay), times |-> <<at, other>>,
   half |-> 6, search |-> 2, order |-> 1, delay |-> delay,
   shots |-> Cardinality({k \in {1, 2} : <<at, other>>[k] = at}),
   heard |-> {at, other} \subseteq 4..26]

MCVectors == {<<100, 0>>, <<80, 20>>, <<50, 50>>, <<10, 90>>}
MCLimits == [ece |-> 20, top3 |-> 50, coverage |-> 50, gap |-> 60, recall |-> 50, support |-> 2]
MCHeadLimits == [ece |-> 20, branchEce |-> 20, f1 |-> 40, bucket |-> 2, gap |-> 40]
MCStations == <<[station |-> "1"], [station |-> "2"], [station |-> "none"], [light |-> "low"]>>

MCPayload == {[stopped_gun |-> 80], [stopped_gun |-> 20, head_lift |-> 60]}
MCSession(user, day, shots) == [athlete |-> user, org |-> "club", started |-> day, shots |-> shots]
MCShots == {<<>>, <<<<>>>>} \cup {<<<<p, q>>, <<q>>>> : p, q \in MCPayload}
MCMember(user, role, active) == [user |-> user, role |-> role, active |-> active, org |-> "club"]
MCProfile(user, cohort) == [user |-> user, cohort |-> cohort]
MCLogs == {S \in SUBSET {MCSession(u, d, <<>>) : u \in {"a", "b", "c"}, d \in {5, 50, 70}} : Cardinality(S) <= 4}

MCTasks ==
  [kind : {"note"}, answers : UNION {[1..n -> MCAnswers \cup MCNotes] : n \in 0..1} \cup [1..3 -> MCAnswers], retries : 0..2]
  \cup [kind : {"prompt"}, named : BOOLEAN, features : {<<"word">>}, history : MCTexts, goal : MCTexts]
  \cup [kind : {"detect"}, flux : [1..6 -> 1..3], out : SUBSET (1..6), gap : {1, 2, 3}]
  \cup [kind : {"match"}, predicted : UNION {[1..n -> 1..6] : n \in 0..3},
        truth : {<<>>, <<2>>, <<2, 4>>, <<1, 3, 5>>, <<3, 4>>}, tolerance : 1..2]
  \cup {MCPair(at, at + d, delay) : at \in 3..11, d \in {0, 14, 16}, delay \in -2..2}
  \cup {[kind |-> "gate", probs |-> p, labels |-> l, sets |-> [k \in 1..4 |-> {l[k]}], metadata |-> MCStations,
         limits |-> g] : p \in [1..4 -> MCVectors], l \in [1..4 -> 1..2], g \in {MCLimits, GateThresholds}}
  \cup {[kind |-> "head", probs |-> [k \in 1..4 |-> [stopped_gun |-> p[k], head_lift |-> q]],
         labels |-> [k \in 1..4 |-> [stopped_gun |-> l[k], head_lift |-> 1]], metadata |-> MCStations,
         limits |-> g] : g \in {MCHeadLimits, DiagnosticGateThresholds}, p \in [1..4 -> {0, 20, 80, 100}], q \in {50, 100}, l \in [1..4 -> 0..1]}
  \cup [kind : {"conformal"}, truth : UNION {[1..n -> {20, 40, 70, 90}] : n \in 2..6}, coverage : {50, 60, 80}]
  \cup {x \in [kind : {"coreset"}, points : [1..4 -> (0..3) \X {0, 2}], budget : 1..3, first : 1..4] :
          \A i \in 1..3 : x.points[i][1] <= x.points[i + 1][1]}
  \cup [kind : {"primary"}, pairs : UNION {[1..n -> {"foot_position", "head_lift", "off_line", "multi_factor"} \X {50, 65, 100}] :
          n \in 0..3}]
  \cup {[kind |-> "progress", sessions |-> {MCSession("a", 1, x), MCSession("a", 2, y), MCSession("a", 3, z),
           MCSession("b", 4, x)}, memberships |-> m, athlete |-> "a", lastN |-> n] :
          x \in MCShots, y \in MCShots, z \in MCShots, n \in 1..4, m \in {{MCMember("a", "athlete", TRUE)}, {MCMember("a", "athlete", FALSE)}}}
  \cup {[kind |-> "federation", sessions |-> s, profiles |-> p, memberships |-> m, clubs |-> {"club", "empty"},
         cohorts |-> {"x", "y"}, today |-> 80] :
          s \in MCLogs,
          p \in {{MCProfile("a", "x"), MCProfile("b", "x"), MCProfile("c", y)} : y \in {"x", "y", "none"}},
          m \in {{MCMember("a", "athlete", TRUE), MCMember("b", "athlete", b), MCMember("c", "coach", TRUE)} : b \in BOOLEAN}}
  \cup [kind : {"training"}]
=============================================================================
