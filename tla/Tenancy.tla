------------------------------ MODULE Tenancy ------------------------------
(***************************************************************************)
(* The database sessions of the requests and the row-level security under  *)
(* them: db.py, deps.py and the policies of migrations 0003 to 0005.       *)
(*                                                                         *)
(* A session takes a connection of the pool for its transaction and sets   *)
(* app.current_principal on it to the tenant of its principal, for this    *)
(* transaction only; a session without a principal sets nothing.  Whether  *)
(* the policies bind is a matter of the deployment: they do for the        *)
(* NOBYPASSRLS role of ADR 0004, not for a superuser and not on SQLite.    *)
(***************************************************************************)
EXTENDS Requests

CONSTANTS
  Conns,    \* the connections of the pool
  Unset     \* no tenant: a setting that is not set, a principal that is missing

VARIABLES
  enforced,  \* the policies bind
  conns      \* connection -> [by: a request or 0, the two settings policies name]

Tenant(i) == reqs[i].who.tenant
Free == [by |-> 0, current_principal |-> Unset, tenant_id |-> Unset]
Conn(i) == CHOOSE c \in Conns : conns[c].by = i

TenancyInit == enforced \in BOOLEAN /\ conns = [c \in Conns |-> Free]

\* The request takes a free connection, or waits for one.
Enter(i) ==
  \E c \in Conns :
    /\ conns[c].by = 0
    /\ conns' = [conns EXCEPT ![c].by = i,
                   ![c].current_principal = IF Tenant(i) = Unset THEN @ ELSE Tenant(i)]

\* A fault of Leave: the setting is one of the connection.
LeaveSet(i) == conns' = [conns EXCEPT ![Conn(i)].by = 0]

\* The end of the transaction gives the connection back without the setting.
Leave(i) == conns' = [conns EXCEPT ![Conn(i)] = Free]

\* The tables with a policy, by the migration that made it.
TenantTables == {"orgs", "memberships", "cohorts", "athlete_profiles", "consent_records",
                 "sessions", "recordings", "shots", "annotations"}
FederationTables == {"coach_profiles", "shot_events"}
QueueTables == {"active_learning_items"}

\* The setting that the policy of a table compares with the tenant of a row.
Policy(table) ==
  CASE table \in TenantTables -> "current_principal"
    [] table \in FederationTables \cup QueueTables -> "tenant_id"
    [] OTHER -> "none"

\* Request i may see, or write, a row of tenant in table.
Passes(i, table, tenant) ==
  enforced /\ Policy(table) # "none" => tenant = conns[Conn(i)][Policy(table)]
=============================================================================
