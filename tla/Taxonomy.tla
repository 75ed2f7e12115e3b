------------------------------ MODULE Taxonomy -------------------------------
(***************************************************************************)
(* taxonomy.py: the atoms of a diagnosis, the branch each belongs to, and  *)
(* the probability, in percent, from which it is reported.                 *)
(***************************************************************************)
EXTENDS Naturals, Sequences

BranchOf ==
  [head_lift |-> "head_eye", head_off_stock |-> "head_eye", eye_dominance_failure |-> "head_eye",
   low_mount_break |-> "mount_stance", foot_position |-> "mount_stance", body_alignment_off |-> "mount_stance",
   stopped_gun |-> "swing_lead", under_lead |-> "swing_lead", over_lead |-> "swing_lead", off_line |-> "swing_lead",
   short_follow_through |-> "follow_through", dropped_gun_post_shot |-> "follow_through",
   cause_unclear |-> "meta", multi_factor |-> "meta", in_session_pattern_flag |-> "meta"]

DefaultThresholds ==
  [head_lift |-> 55, head_off_stock |-> 60, eye_dominance_failure |-> 70, low_mount_break |-> 60,
   foot_position |-> 65, body_alignment_off |-> 60, stopped_gun |-> 55, under_lead |-> 60, over_lead |-> 60,
   off_line |-> 60, short_follow_through |-> 60, dropped_gun_post_shot |-> 65]

\* The atoms of the meta branch have none of their own.
AtomThreshold(atom, otherwise) ==
  IF atom \in DOMAIN DefaultThresholds THEN DefaultThresholds[atom] ELSE otherwise

\* The place of the atom's branch in the chain of causes: stance and mount, then
\* head and eye, then the swing; the meta branch is after them all.
Chain == <<"mount_stance", "head_eye", "swing_lead", "follow_through">>

ChainRank(atom) ==
  IF \E r \in DOMAIN Chain : Chain[r] = BranchOf[atom]
  THEN CHOOSE r \in DOMAIN Chain : Chain[r] = BranchOf[atom]
  ELSE Len(Chain) + 1
=============================================================================
