----------------------------- MODULE MC_Accounts -----------------------------
(* A user of a club, of a federation or of both, and two connections for    *)
(* three requests.                                                          *)
EXTENDS Accounts, TLC

Club == <<"org", 1>>
Federation == <<"fed", 1>>

Member(tenant, role, active) == [tenant |-> tenant, role |-> role, active |-> active]
MCGranted == {Member(Club, "coach", TRUE), Member(Federation, "federation_admin", TRUE)}

MCFederations == {Federation}

MCUnset == <<"none", 0>>

Q(op, arg) == [op |-> op, arg |-> arg]
MCQuestions ==
  {Q("signup", "new"), Q("login", "old"), Q("login", "new"), Q("exchange", "sub"), Q("exchange", "forged"),
   Q("submit", 0), Q("execute", 0), Q("execute", 1),
   Q("grant", 0), Q("revoke", 0), Q("overview", 0), Q("encrypt", 0),
   Q("post", "shot_events")}

Symmetry == Permutations(Conns)
=============================================================================
