------------------------------ MODULE Accounts ------------------------------
(***************************************************************************)
(* Users, their tokens and what they may have forgotten: routers auth,     *)
(* erasure and consent with their services, on the sessions of Tenancy.    *)
(*                                                                         *)
(* A row that a request inserts has the number of the request for its id;  *)
(* user 0 was there before.  No endpoint changes a membership.             *)
(***************************************************************************)
EXTENDS Tenancy

CONSTANTS
  Granted,      \* the memberships user 0 may have: [tenant, role, active]
  Federations,  \* the tenants that have the row of a federation
  Provider,     \* the setting auth_provider
  Questions     \* the requests that may be made: [op, arg]

VARIABLES
  users,        \* id -> [email, hash, active, sub]
  memberships,  \* of user 0
  tokens,       \* the principals that tokens were issued for, by request
  tickets,      \* the erasure ledger: id -> [tenant, subject, status]
  keys,         \* tenant_encryption_keys: tenant -> "sealed" or "shredded"
  records       \* the consents: id -> [user, tenant, granted]

people == <<users, memberships, tokens>>
ledger == <<tickets, keys, records>>
vars == <<reqs, faults, enforced, conns, people, ledger>>

Solo(u) == <<"solo", u>>
Anonymous == [user |-> 0, tenant |-> Unset, role |-> "none"]
Principals == {tokens[i] : i \in DOMAIN tokens}

RoleRank == [none |-> 0, parent |-> 1, athlete |-> 2, coach |-> 3, admin |-> 4, federation_admin |-> 5]
HasRole(who, role) == RoleRank[who.role] >= RoleRank[role]

User(email, sub) == [email |-> email, hash |-> "own", active |-> TRUE, sub |-> sub]

\* User 0 holds the token of some membership and may have asked to be erased.
Init ==
  /\ RequestsInit /\ TenancyInit
  /\ users = [u \in {0} |-> User("old", "sub")]
  /\ memberships \in SUBSET Granted
  /\ \E m \in {g \in memberships : RoleRank[g.role] > RoleRank.athlete}, n \in 0..1 :
       /\ tokens = [i \in {0} |-> [user |-> 0, tenant |-> m.tenant, role |-> m.role]]
       /\ tickets = [t \in 1 - n..0 |-> [tenant |-> m.tenant, subject |-> 0, status |-> "pending"]]
       /\ keys \in {[t \in {} |-> "sealed"], [t \in {m.tenant} |-> "sealed"]}
  /\ records = [r \in {} |-> Anonymous]
-----------------------------------------------------------------------------
Private == {"submit", "execute", "grant", "revoke", "overview", "post", "encrypt"}

\* A private request comes with a token that was issued, and names no scope but
\* its tenant: any other has no principal and is answered 401 at the door.  Nobody
\* knows the id of a user still to be made, a UUID, to ask for its erasure.
Ask(q) ==
  /\ \E who \in IF q.op \in Private THEN Principals ELSE {Anonymous} :
       Arrive(Asked(q.op, who, q.arg))
  /\ q.op = "submit" /\ q.arg \in 1..MaxRequests => q.arg \in DOMAIN users
  /\ UNCHANGED <<enforced, conns, people, ledger>>

\* A fault of OfSub: whether the user is active does not matter.
OfSubAny(sub) == {u \in DOMAIN users : users[u].sub = sub}

\* verify_gotrue_jwt: the sub that a token names, or none when anything of its
\* signature, issuer, audience, times or claims is wrong.
VerifiedSub(jwt) == IF jwt = "forged" THEN {} ELSE {jwt}

\* What a lookup finds: the users with an email or of an identity, a ticket of
\* the tenant, the consents that may be withdrawn.
WithPassword(email) == {u \in DOMAIN users : users[u].email = email /\ users[u].hash = "own"}
OfSub(sub) == {u \in DOMAIN users : users[u].sub = sub /\ users[u].active}
Ticket(i) == {t \in DOMAIN tickets : t = reqs[i].arg /\ tickets[t].tenant = Tenant(i)}
Active(i) == {r \in DOMAIN records : /\ records[r].granted /\ records[r].user = reqs[i].who.user
                                     /\ enforced => records[r].tenant = Tenant(i)}
Latest(found) == CHOOSE r \in found : \A s \in found : s <= r

\* Why a handler refuses, 0 when it does not: the rank, then what it looks up.
ForRank(role, i, code) == IF HasRole(reqs[i].who, role) THEN code ELSE 403

Signup(i) == IF \E u \in DOMAIN users : users[u].email = reqs[i].arg THEN 409 ELSE 0
Login(i) == IF WithPassword(reqs[i].arg) = {} THEN 401 ELSE 0
Exchange(i) ==
  IF Provider # "gotrue" THEN 404
  ELSE IF \A sub \in VerifiedSub(reqs[i].arg) : OfSub(sub) = {} THEN 401 ELSE 0
SubmitErasure(i) == ForRank("coach", i, 0)
ExecuteErasure(i) == ForRank("coach", i, IF Ticket(i) = {} THEN 404 ELSE 0)
Revoke(i) == IF Active(i) = {} THEN 404 ELSE 0
FederationOrg(i) == {Tenant(i)} \cap Federations
Overview(i) == ForRank("federation_admin", i, IF FederationOrg(i) = {} THEN 404 ELSE 0)
Post(i) == ForRank("coach", i, 0)

\* _unwrap_dek raises DekShreddedError for a key that was shredded; 410 stands for it,
\* as no endpoint calls encrypt_for_tenant yet.
Encrypt(i) == IF Tenant(i) \in DOMAIN keys /\ keys[Tenant(i)] = "shredded" THEN 410 ELSE 0

Refusal(i) ==
  CASE reqs[i].op = "signup"   -> Signup(i)
    [] reqs[i].op = "login"    -> Login(i)
    [] reqs[i].op = "exchange" -> Exchange(i)
    [] reqs[i].op = "submit"   -> SubmitErasure(i)
    [] reqs[i].op = "execute"  -> ExecuteErasure(i)
    [] reqs[i].op = "revoke"   -> Revoke(i)
    [] reqs[i].op = "overview" -> Overview(i)
    [] reqs[i].op = "post"     -> Post(i)
    [] reqs[i].op = "encrypt"  -> Encrypt(i)
    [] OTHER -> 0

\* What the handler goes on with.
Found(i) ==
  LET q == reqs[i] IN
  CASE q.op = "login" -> WithPassword(q.arg)
    [] q.op = "exchange" -> OfSub(q.arg)
    [] q.op = "revoke" -> {Latest(Active(i))}
    [] q.op \in {"execute", "encrypt"} -> {Tenant(i)} \cap DOMAIN keys
    [] OTHER -> {}

\* The first reads of a handler.  A ticket is not executed twice.
Look(i) ==
  LET done == reqs[i].op = "execute" /\ Ticket(i) # {} /\ tickets[reqs[i].arg].status = "completed"
      code == IF done THEN 200 ELSE Refusal(i)
  IN
  /\ reqs[i].phase = "received"
  /\ IF code = 0 THEN Enter(i) /\ Reads(i, Found(i))
     ELSE (\E c \in Conns : conns[c].by = 0) /\ Answers(i, code) /\ UNCHANGED conns
  /\ UNCHANGED <<faults, enforced, people, ledger>>
-----------------------------------------------------------------------------
\* _resolve_memberships: the best role of every tenant, and the solo one.
Tenancies(i, u) ==
  LET rows == {m \in memberships : u = 0 /\ m.active /\ Passes(i, "memberships", m.tenant)}
      best == {m \in rows : \A n \in rows : n.tenant = m.tenant => RoleRank[n.role] <= RoleRank[m.role]}
  IN  {[user |-> u, tenant |-> m.tenant, role |-> m.role] : m \in best}
      \cup {[user |-> u, tenant |-> Solo(u), role |-> "athlete"]}

Issue(i, principal) == tokens' = Insert(tokens, i, principal)

\* The token is for the highest; names decide between equals.
Mint(i) ==
  LET u == CHOOSE v \in reqs[i].seen : TRUE IN
  /\ reqs[i].op \in {"login", "exchange"} /\ reqs[i].phase = "read"
  /\ \E t \in Tenancies(i, u) :
       /\ \A other \in Tenancies(i, u) : RoleRank[other.role] <= RoleRank[t.role]
       /\ Issue(i, t)
  /\ Answers(i, 200) /\ Leave(i)
  /\ UNCHANGED <<faults, enforced, users, memberships, ledger>>

\* The counts of the overview have no filter of their own.
Counted(i) == {m.tenant : m \in {g \in Granted : Passes(i, "athlete_profiles", g.tenant)}}

Show(i) ==
  /\ reqs[i].op = "overview" /\ reqs[i].phase = "read"
  /\ Answers(i, 200) /\ Leave(i)
  /\ UNCHANGED <<faults, enforced, people, ledger>>

\* The rows that a flush locks or holds in a unique index.
Touches(i) ==
  LET q == reqs[i] IN
  CASE q.op = "signup" -> {<<"email", q.arg>>}
    [] q.op = "revoke" -> {<<"record", r>> : r \in q.seen}
    [] q.op = "execute" -> {<<"user", tickets[q.arg].subject>>, <<"ticket", q.arg>>, <<"key", Tenant(i)>>}
    [] q.op = "encrypt" -> {<<"key", t>> : t \in {Tenant(i)} \ q.seen}
    [] OTHER -> {}

\* What an insert meets: a unique index, or the policy of the table.
Conflict(i) ==
  LET q == reqs[i] IN
  CASE q.op = "signup" -> \/ \E u \in DOMAIN users : users[u].email = q.arg
                          \/ ~Passes(i, "orgs", Solo(i))
    [] q.op \in {"execute", "encrypt"} -> q.seen = {} /\ Tenant(i) \in DOMAIN keys
    [] q.op = "post" -> ~Passes(i, q.arg, Tenant(i))
    [] OTHER -> FALSE

Write(i) ==
  /\ reqs[i].phase = "read" /\ reqs[i].op \notin {"login", "exchange", "overview"}
  /\ \A j \in Ids : Locks(j) => Touches(i) \cap Touches(j) = {}
  /\ IF Conflict(i) THEN Crashes(i) /\ Leave(i) ELSE Flushes(i) /\ UNCHANGED conns
  /\ UNCHANGED <<faults, enforced, people, ledger>>

Tombstone(u) == [users[u] EXCEPT !.email = "erased", !.hash = "erased", !.active = FALSE]

\* A fault of Shredded: a tenant that was never keyed gets no row.
ShreddedIfKeyed(tenant) == IF tenant \in DOMAIN keys THEN Insert(keys, tenant, "shredded") ELSE keys
Shredded(tenant) == Insert(keys, tenant, "shredded")

ConsentRecord(who) == [user |-> who.user, tenant |-> who.tenant, granted |-> TRUE]
GrantedBy(i) == Insert(records, i, ConsentRecord(reqs[i].who))

NewUser(q) == User(q.arg, "none")
TicketRow(i) == [tenant |-> Tenant(i), subject |-> reqs[i].arg, status |-> "pending"]
Sealed(tenant) == Insert(keys, tenant, "sealed")
Withdrawn(found) ==
  [r \in DOMAIN records |-> IF r \in found THEN [records[r] EXCEPT !.granted = FALSE] ELSE records[r]]

Commit(i) ==
  LET q == reqs[i] subject == tickets[q.arg].subject IN
  /\ Commits(i)
  /\ Committed(i) /\ Leave(i)
  /\ users' = CASE q.op = "signup" -> Insert(users, i, NewUser(q))
                [] q.op = "execute" /\ subject \in DOMAIN users -> [users EXCEPT ![subject] = Tombstone(subject)]
                [] OTHER -> users
  /\ tickets' = CASE q.op = "submit" -> Insert(tickets, i, TicketRow(i))
                  [] q.op = "execute" -> [tickets EXCEPT ![q.arg].status = "completed"]
                  [] OTHER -> tickets
  /\ keys' = CASE q.op = "execute" -> Shredded(Tenant(i))
               [] q.op = "encrypt" /\ q.seen = {} -> Sealed(Tenant(i))
               [] OTHER -> keys
  /\ records' = CASE q.op = "grant" -> GrantedBy(i)
                  [] q.op = "revoke" -> Withdrawn(q.seen)
                  [] OTHER -> records
  /\ UNCHANGED <<faults, enforced, memberships, tokens>>

\* The answer goes out before the commit.
Tell(i) ==
  /\ reqs[i].phase = "answered" /\ reqs[i].txn = "due"
  /\ reqs' = [reqs EXCEPT ![i].phase = "told"]
  /\ UNCHANGED <<faults, enforced, conns, people, ledger>>

Next ==
  \/ \E q \in Questions : Ask(q)
  \/ \E i \in Ids : \/ Look(i) \/ Mint(i) \/ Show(i) \/ Write(i) \/ Commit(i) \/ Tell(i)
                    \/ Respond(i) /\ UNCHANGED <<enforced, conns, people, ledger>>
                    \/ Rollback(i) /\ Leave(i) /\ UNCHANGED <<enforced, people, ledger>>

Spec == Init /\ [][Next]_vars
-----------------------------------------------------------------------------
TypeOK ==
  /\ DOMAIN users \subseteq 0..MaxRequests /\ memberships \subseteq Granted
  /\ \A i \in DOMAIN tokens : tokens[i].role \in DOMAIN RoleRank
  /\ \A t \in DOMAIN tickets : tickets[t].status \in {"pending", "completed"}
  /\ \A t \in DOMAIN keys : keys[t] \in {"sealed", "shredded"}
  /\ \A r \in DOMAIN records : records[r].granted \in BOOLEAN
  /\ \A c \in Conns : conns[c].by \in {0} \cup Ids
  /\ faults \in 0..MaxFaults

(* However transactions of several tenants and of none take turns on the   *)
(* connections of the pool, where the policies bind a session sees of the  *)
(* scoped tables the rows of its own tenant only, and a session without a  *)
(* principal sees none (tenant_session; ADR 0004, "Connection pooling").   *)
SeesOwnTenant ==
  \A i \in Ids : enforced /\ reqs[i].phase \in {"read", "flushed"} =>
    /\ conns[Conn(i)].current_principal = Tenant(i)
    /\ reqs[i].op = "overview" => Counted(i) \subseteq {Tenant(i)}

(* A completed ticket means that the key of its tenant is destroyed, and   *)
(* it stays so: neither a tenant that had no key yet nor an encryption     *)
(* that overlapped brings one back (shred_tenant_dek, ensure_tenant_dek).  *)
ShreddedForGood ==
  \A t \in DOMAIN tickets : tickets[t].status = "completed" =>
    tickets[t].tenant \in DOMAIN keys /\ keys[tickets[t].tenant] = "shredded"

(* What was taken back stays so.  Whoever has been erased cannot enter      *)
(* again: a login or an exchange that looks the user up after a ticket was *)
(* completed finds nobody, however it overlaps with the execution          *)
(* (execute_erasure's tombstone); and a consent that was withdrawn is on   *)
(* record as withdrawn, also when the user grants the purpose again        *)
(* (grant_consent inserts).                                                *)
TakenBackForGood ==
  [][/\ \A i \in Ids, t \in DOMAIN tickets :
          /\ tickets[t].status = "completed" /\ reqs[i].op \in {"login", "exchange"}
          /\ reqs[i].phase = "received" /\ reqs'[i].phase = "read"
          => tickets[t].subject \notin reqs'[i].seen
     /\ \A r \in DOMAIN records :
          ~records[r].granted => r \in DOMAIN records' /\ ~records'[r].granted]_vars
=============================================================================
