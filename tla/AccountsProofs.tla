--------------------------- MODULE AccountsProofs ---------------------------
(* For any number of requests, connections, tenants and users, whatever    *)
(* overlaps: sessions are scoped where the policies bind, an executed      *)
(* erasure has destroyed the key of its tenant, and what was taken back    *)
(* stays taken back.                                                       *)
EXTENDS Accounts, WellFoundedInduction, TLAPS

Ops == {q.op : q \in Questions}
Args == {q.arg : q \in Questions}
Roles == {m.role : m \in Granted} \cup {"athlete", "none"}
Tenants == {m.tenant : m \in Granted} \cup {Solo(u) : u \in Nat} \cup {Unset}
Whos == [user : Nat, tenant : Tenants, role : Roles]

Seens == (SUBSET Nat) \cup (SUBSET Tenants) \cup {None}

Requested ==
  [op : Ops, who : Whos, arg : Args,
   phase : {"received", "read", "flushed", "answered", "told"},
   seen : Seens,
   txn : {"none", "due", "done", "lost"}, answer : Nat]

UserRows == [email : Args \cup {"old", "erased"}, hash : {"own", "erased"}, active : BOOLEAN,
             sub : {"sub", "none"}]
TicketRows == [tenant : Tenants, subject : Args \cup {0}, status : {"pending", "completed"}]
ConsentRows == [user : Nat, tenant : Tenants, granted : BOOLEAN]
Settings == [by : Nat, current_principal : Tenants, tenant_id : {Unset}]

\* Request i holds a connection.
Live(i) == reqs[i].phase \in {"read", "flushed"} \/ reqs[i].txn = "due"

Typed ==
  /\ reqs \in Seq(Requested) /\ Len(reqs) <= MaxRequests
  /\ DOMAIN users \subseteq 0..MaxRequests /\ 0 \in DOMAIN users
  /\ \A u \in DOMAIN users : users[u] \in UserRows
  /\ memberships \subseteq Granted
  /\ \A i \in DOMAIN tokens : tokens[i] \in Whos
  /\ \A t \in DOMAIN tickets : tickets[t] \in TicketRows
  /\ \A t \in DOMAIN keys : keys[t] \in {"sealed", "shredded"}
  /\ \A r \in DOMAIN records : records[r] \in ConsentRows
  /\ conns \in [Conns -> Settings]

\* How the phase of a request, its transaction and what it has read go together.
Phases ==
  \A i \in Ids :
    /\ reqs[i].phase \in {"received", "read"} => reqs[i].txn = "none"
    /\ reqs[i].phase = "flushed" => reqs[i].txn = "due"
    /\ reqs[i].phase = "read" /\ reqs[i].op \in {"login", "exchange"} =>
         reqs[i].seen \in (SUBSET Nat) \ {{}}

\* A connection carries the tenant of the request that has it, or nothing.
Pool ==
  /\ \A c \in Conns : conns[c].by = 0 => conns[c] = Free
  /\ \A c \in Conns : conns[c].by # 0 =>
       conns[c].by \in Ids /\ conns[c].current_principal = Tenant(conns[c].by)
  /\ \A i \in Ids : Live(i) => \E c \in Conns : conns[c].by = i

\* An execution that goes on is one of a ticket of its tenant.
Executing ==
  \A i \in Ids : reqs[i].op = "execute" /\ Live(i) =>
    reqs[i].arg \in DOMAIN tickets /\ tickets[reqs[i].arg].tenant = Tenant(i)

\* No two transactions wait for their commit with the same row.
Exclusive ==
  \A i, j \in Ids : i # j /\ Locks(i) /\ Locks(j) => Touches(i) \cap Touches(j) = {}

\* Who inserts the key of a tenant is alone with it.
Unkeyed ==
  \A i \in Ids : Locks(i) /\ reqs[i].op \in {"execute", "encrypt"} /\ reqs[i].seen = {} =>
    Tenant(i) \notin DOMAIN keys

\* The subject of an erasure is not somebody who comes later.
Subjects ==
  /\ \A i \in Ids : reqs[i].op = "submit" /\ reqs[i].arg \in 1..MaxRequests => reqs[i].arg \in DOMAIN users
  /\ \A t \in DOMAIN tickets : tickets[t].subject \in 1..MaxRequests => tickets[t].subject \in DOMAIN users

\* Whoever was erased has neither a password nor an identity that enters.
Erased ==
  \A t \in DOMAIN tickets : tickets[t].status = "completed" /\ tickets[t].subject \in DOMAIN users =>
    LET user == users[tickets[t].subject] IN user.hash = "erased" /\ ~user.active

\* A row that is there was committed by the request that has its number.
DoneBy(i, op) == i \in Ids /\ reqs[i].op = op /\ reqs[i].txn = "done"
Numbered ==
  /\ \A u \in DOMAIN users : u = 0 \/ DoneBy(u, "signup")
  /\ \A t \in DOMAIN tickets : t = 0 \/ DoneBy(t, "submit")
  /\ \A r \in DOMAIN records : DoneBy(r, "grant")

AccountsInv ==
  /\ Typed /\ Phases /\ Pool /\ Executing /\ Exclusive /\ Unkeyed /\ ShreddedForGood
  /\ Subjects /\ Erased /\ Numbered

\* The records that the steps of a request make of it.
LEMMA ReadRecord ==
  ASSUME NEW q \in Requested, NEW s \in Seens
  PROVE  LET r == [q EXCEPT !.phase = "read", !.seen = s] IN
         /\ r \in Requested /\ r.op = q.op /\ r.who = q.who /\ r.arg = q.arg
         /\ r.phase = "read" /\ r.seen = s /\ r.txn = q.txn
  BY DEF Requested

LEMMA AnsweredRecord ==
  ASSUME NEW q \in Requested, NEW code \in Nat
  PROVE  LET r == [q EXCEPT !.phase = "answered", !.answer = code, !.seen = None] IN
         /\ r \in Requested /\ r.op = q.op /\ r.who = q.who /\ r.arg = q.arg
         /\ r.phase = "answered" /\ r.txn = q.txn
  BY DEF Requested, Seens

LEMMA FlushedRecord ==
  ASSUME NEW q \in Requested
  PROVE  LET r == [q EXCEPT !.phase = "flushed", !.txn = "due"] IN
         /\ r \in Requested /\ r.op = q.op /\ r.who = q.who /\ r.arg = q.arg
         /\ r.phase = "flushed" /\ r.seen = q.seen /\ r.txn = "due"
  BY DEF Requested

LEMMA RespondedRecord ==
  ASSUME NEW q \in Requested
  PROVE  LET r == [q EXCEPT !.phase = "answered", !.answer = 200] IN
         /\ r \in Requested /\ r.op = q.op /\ r.who = q.who /\ r.arg = q.arg
         /\ r.phase = "answered" /\ r.seen = q.seen /\ r.txn = q.txn
  BY DEF Requested

LEMMA ToldRecord ==
  ASSUME NEW q \in Requested
  PROVE  LET r == [q EXCEPT !.phase = "told"] IN
         /\ r \in Requested /\ r.op = q.op /\ r.who = q.who /\ r.arg = q.arg
         /\ r.phase = "told" /\ r.seen = q.seen /\ r.txn = q.txn
  BY DEF Requested

LEMMA LostRecord ==
  ASSUME NEW q \in Requested
  PROVE  LET r == [q EXCEPT !.txn = "lost", !.seen = None] IN
         /\ r \in Requested /\ r.op = q.op /\ r.who = q.who /\ r.arg = q.arg
         /\ r.phase = q.phase /\ r.txn = "lost"
  BY DEF Requested, Seens

LEMMA CrashedRecord ==
  ASSUME NEW q \in Requested
  PROVE  LET r == [q EXCEPT !.phase = "told", !.answer = 500, !.txn = "lost", !.seen = None] IN
         /\ r \in Requested /\ r.op = q.op /\ r.who = q.who /\ r.arg = q.arg
         /\ r.phase = "told" /\ r.txn = "lost"
<1>0. None \in Seens
  BY DEF Seens
<1> DEFINE p == [q EXCEPT !.phase = "told"]
           a == [p EXCEPT !.answer = 500]
           r == [a EXCEPT !.txn = "lost", !.seen = None]
<1>1. p \in Requested /\ p.op = q.op /\ p.who = q.who /\ p.arg = q.arg /\ p.phase = "told"
  BY DEF Requested
<1>2. [q EXCEPT !.phase = "told", !.answer = 500, !.txn = "lost", !.seen = None] = r
  OBVIOUS
<1> HIDE DEF p
<1>3. a \in Requested /\ a.op = p.op /\ a.who = p.who /\ a.arg = p.arg /\ a.phase = p.phase
  BY <1>1 DEF Requested
<1> HIDE DEF a
<1>4. /\ r \in Requested /\ r.op = a.op /\ r.who = a.who /\ r.arg = a.arg
      /\ r.txn = "lost" /\ r.phase = a.phase
  BY <1>0, <1>3 DEF Requested
<1> HIDE DEF r
<1> QED
  BY <1>1, <1>2, <1>3, <1>4

LEMMA CommittedRecord ==
  ASSUME NEW q \in Requested, NEW phase \in {"answered", "told"}, NEW code \in Nat
  PROVE  LET r == [q EXCEPT !.txn = "done", !.seen = None, !.phase = phase, !.answer = code] IN
         /\ r \in Requested /\ r.op = q.op /\ r.who = q.who /\ r.arg = q.arg
         /\ r.phase = phase /\ r.txn = "done"
<1> DEFINE a == [q EXCEPT !.txn = "done", !.seen = None]
           r == [a EXCEPT !.phase = phase, !.answer = code]
<1>1. [q EXCEPT !.txn = "done", !.seen = None, !.phase = phase, !.answer = code] = r
  OBVIOUS
<1>2. a \in Requested /\ a.op = q.op /\ a.who = q.who /\ a.arg = q.arg /\ a.txn = "done"
  BY DEF Requested, Seens
<1> HIDE DEF a
<1>3. /\ r \in Requested /\ r.op = a.op /\ r.who = a.who /\ r.arg = a.arg
      /\ r.txn = a.txn /\ r.phase = phase
  BY <1>2 DEF Requested
<1> HIDE DEF r
<1> QED
  BY <1>1, <1>2, <1>3

\* A change of one request's record leaves the others, and the numbers.
LEMMA OneRequest ==
  ASSUME AccountsInv, NEW i \in Ids, NEW r \in Requested, reqs' = [reqs EXCEPT ![i] = r]
  PROVE  /\ reqs' \in Seq(Requested) /\ Len(reqs') = Len(reqs) /\ Ids' = Ids /\ reqs'[i] = r
         /\ \A j \in Ids \ {i} : reqs'[j] = reqs[j]
  BY DEF AccountsInv, Typed, Ids

LEMMA IdFacts ==
  ASSUME AccountsInv, NEW i \in Ids
  PROVE  /\ reqs[i] \in Requested /\ i \in Nat \ {0} /\ i <= MaxRequests /\ i \in 1..MaxRequests
         /\ reqs[i].who \in Whos /\ Tenant(i) \in Tenants /\ reqs[i].arg \in Args
         /\ reqs[i].op \in Ops /\ reqs[i].seen \in Seens
         /\ reqs[i].phase \in {"received", "read", "flushed", "answered", "told"}
         /\ reqs[i].txn \in {"none", "due", "done", "lost"} /\ reqs[i].answer \in Nat
<1>1. reqs[i] \in Requested /\ i \in Nat \ {0} /\ i \in 1..MaxRequests
  BY RequestsAssumption DEF AccountsInv, Typed, Ids
<1>2. \A q \in Requested :
         /\ q.who \in Whos /\ q.arg \in Args /\ q.op \in Ops
         /\ q.seen \in Seens
         /\ q.phase \in {"received", "read", "flushed", "answered", "told"}
         /\ q.txn \in {"none", "due", "done", "lost"} /\ q.answer \in Nat
  BY DEF Requested
<1>3. \A w \in Whos : w.tenant \in Tenants
  BY DEF Whos
<1> QED
  BY <1>1, <1>2, <1>3, RequestsAssumption DEF Tenant

LEMMA InitInv ==
  ASSUME Init
  PROVE  AccountsInv
<1>1. reqs = <<>> /\ Ids = {} /\ reqs \in Seq(Requested) /\ Len(reqs) = 0
  BY DEF Init, RequestsInit, Ids
<1>2. users = [u \in {0} |-> User("old", "sub")] /\ memberships \subseteq Granted /\ DOMAIN records = {}
      /\ User("old", "sub") \in UserRows
  BY DEF Init, User, UserRows
<1>3. PICK m \in memberships, n \in 0..1 :
       /\ tokens = [i \in {0} |-> [user |-> 0, tenant |-> m.tenant, role |-> m.role]]
       /\ tickets = [t \in 1 - n..0 |-> [tenant |-> m.tenant, subject |-> 0, status |-> "pending"]]
       /\ keys \in {[t \in {} |-> "sealed"], [t \in {m.tenant} |-> "sealed"]}
  BY DEF Init
<1>4. m.tenant \in Tenants /\ m.role \in Roles /\ 1 - n..0 \subseteq {0}
  BY <1>2 DEF Tenants, Roles
<1>5. /\ \A i \in DOMAIN tokens : tokens[i] \in Whos
      /\ \A t \in DOMAIN tickets : t = 0 /\ tickets[t] \in TicketRows /\ tickets[t].status = "pending"
                                   /\ tickets[t].subject = 0
      /\ \A t \in DOMAIN keys : keys[t] = "sealed"
  BY <1>3, <1>4 DEF Whos, TicketRows
<1>6. conns = [c \in Conns |-> Free] /\ Free \in Settings /\ Free.by = 0
  BY DEF Init, TenancyInit, Free, Settings, Tenants
<1>7. Typed
  BY <1>1, <1>2, <1>5, <1>6, RequestsAssumption DEF Typed
<1> QED
  BY <1>1, <1>2, <1>5, <1>6, <1>7 DEF AccountsInv, Phases, Pool, Executing, Exclusive, Unkeyed, ShreddedForGood,
     Subjects, Erased, Numbered

\* The connection of a request that holds one.
LEMMA ConnFacts ==
  ASSUME AccountsInv, NEW i \in Ids, Live(i)
  PROVE  /\ Conn(i) \in Conns /\ conns[Conn(i)].by = i /\ i # 0
         /\ conns[Conn(i)].current_principal = Tenant(i)
<1>1. \E c \in Conns : conns[c].by = i
  BY DEF AccountsInv, Pool
<1>2. Conn(i) \in Conns /\ conns[Conn(i)].by = i
  BY <1>1 DEF Conn
<1> QED
  BY <1>2, IdFacts DEF AccountsInv, Pool

\* A step of request i towards its end, which gives its connection back at most.
Ends(i) ==
  /\ i \in Ids /\ reqs' \in Seq(Requested) /\ Len(reqs') = Len(reqs) /\ Ids' = Ids
  /\ \A j \in Ids \ {i} : reqs'[j] = reqs[j]
  /\ reqs'[i].op = reqs[i].op /\ reqs'[i].who = reqs[i].who /\ reqs'[i].arg = reqs[i].arg
  /\ reqs'[i].phase \in {"answered", "told"}
  /\ reqs'[i].txn = "done" <=> reqs[i].txn = "done"
  /\ reqs'[i].txn = "due" => reqs[i].txn = "due" /\ reqs'[i].seen = reqs[i].seen
  /\ \/ UNCHANGED conns
     \/ Live(i) /\ reqs'[i].txn # "due" /\ Leave(i)

LEMMA LeavePool ==
  ASSUME AccountsInv, NEW i \in Ids, Live(i), Leave(i), Ids' = Ids,
         \A j \in Ids : reqs'[j].who = reqs[j].who,
         \A j \in Ids : Live(j)' => j # i /\ Live(j)
  PROVE  Pool' /\ conns' \in [Conns -> Settings]
<1>1. /\ conns' = [conns EXCEPT ![Conn(i)] = Free] /\ Free.by = 0 /\ Free \in Settings
      /\ conns \in [Conns -> Settings]
  BY DEF Leave, Free, Settings, Tenants, AccountsInv, Typed
<1>2. \A j \in Ids : Tenant(j)' = Tenant(j)
  BY DEF Tenant
<1> QED
  BY <1>1, <1>2, ConnFacts DEF AccountsInv, Pool

LEMMA EndsInv ==
  ASSUME AccountsInv, NEW i, Ends(i), UNCHANGED <<users, memberships, tickets, keys, records>>,
         \A j \in DOMAIN tokens' : tokens'[j] \in Whos
  PROVE  AccountsInv'
<1> USE DEF Ends
<1>1. \A j \in Ids : /\ reqs'[j].op = reqs[j].op /\ reqs'[j].who = reqs[j].who /\ reqs'[j].arg = reqs[j].arg
                     /\ reqs'[j].txn = "done" <=> reqs[j].txn = "done"
                     /\ reqs'[j].txn = "due" => reqs[j].txn = "due" /\ reqs'[j].seen = reqs[j].seen
  OBVIOUS
<1>2. \A j \in Ids : Tenant(j)' = Tenant(j)
  BY <1>1 DEF Tenant
<1>3. \A j \in Ids : Live(j)' => Live(j) /\ reqs'[j].seen = reqs[j].seen
  BY <1>1 DEF Live, AccountsInv, Phases
<1>4. \A j \in Ids : Locks(j)' => Locks(j) /\ Touches(j)' = Touches(j)
  BY <1>1, <1>2 DEF Locks, Touches
<1>5. \A j, op : DoneBy(j, op)' <=> DoneBy(j, op)
  BY <1>1 DEF DoneBy
<1>6. Pool' /\ conns' \in [Conns -> Settings]
  <2>1. CASE UNCHANGED conns
    BY <1>2, <1>3, <2>1 DEF AccountsInv, Typed, Pool
  <2>2. CASE Live(i) /\ reqs'[i].txn # "due" /\ Leave(i)
    <3>1. ~Live(i)'
      BY <2>2 DEF Live
    <3> QED
      BY <1>1, <1>3, <2>2, <3>1, LeavePool
  <2> QED
    BY <2>1, <2>2
<1>7. Typed' /\ Phases'
  BY <1>6 DEF AccountsInv, Typed, Phases
<1>8. Executing' /\ Exclusive' /\ Unkeyed'
  BY <1>1, <1>2, <1>3, <1>4 DEF AccountsInv, Executing, Exclusive, Unkeyed, Locks
<1>9. ShreddedForGood' /\ Subjects' /\ Erased'
  BY <1>1 DEF AccountsInv, ShreddedForGood, Subjects, Erased
<1>10. Numbered'
  BY <1>5 DEF AccountsInv, Numbered
<1> QED
  BY <1>6, <1>7, <1>8, <1>9, <1>10 DEF AccountsInv

LEMMA AskInv ==
  ASSUME AccountsInv, NEW q \in Questions, Ask(q)
  PROVE  AccountsInv'
<1>1. PICK who : /\ who \in IF q.op \in Private THEN Principals ELSE {Anonymous}
                 /\ Arrive(Asked(q.op, who, q.arg))
  BY DEF Ask
<1>2. who \in Whos
  BY <1>1 DEF Principals, Anonymous, Whos, Tenants, Roles, AccountsInv, Typed
<1> DEFINE r == Asked(q.op, who, q.arg)
<1>3. r \in Requested /\ r.op = q.op /\ r.arg = q.arg /\ r.txn = "none" /\ r.phase = "received"
  BY <1>2 DEF Asked, Requested, Ops, Args, Seens
<1>4. UNCHANGED <<conns, people, ledger>> /\ (q.op = "submit" /\ q.arg \in 1..MaxRequests => q.arg \in DOMAIN users)
  BY DEF Ask
<1>5. reqs' = Append(reqs, r) /\ reqs \in Seq(Requested) /\ Len(reqs) < MaxRequests /\ Len(reqs) \in Nat
  BY <1>1 DEF Arrive, AccountsInv, Typed
<1> HIDE DEF r
<1>0. PICK n \in Nat : n = Len(reqs) + 1
  BY <1>5
<1>6. /\ reqs' \in Seq(Requested) /\ Len(reqs') <= MaxRequests /\ Ids' = Ids \cup {n} /\ n \notin Ids
      /\ reqs'[n] = r /\ \A j \in Ids : reqs'[j] = reqs[j]
  BY <1>0, <1>3, <1>5, RequestsAssumption DEF Ids
<1>7. \A j \in Ids : /\ Tenant(j)' = Tenant(j) /\ Touches(j)' = Touches(j)
                     /\ (Live(j)' <=> Live(j)) /\ (Locks(j)' <=> Locks(j))
  BY <1>4, <1>6 DEF Tenant, Touches, Live, Locks, people, ledger
<1>8. ~Live(n)' /\ ~Locks(n)'
  BY <1>3, <1>6 DEF Live, Locks
<1>9. \A j, op : DoneBy(j, op) => DoneBy(j, op)'
  BY <1>6 DEF DoneBy
<1> USE <1>4 DEF people, ledger
<1>10. Typed' /\ Phases'
  BY <1>3, <1>6 DEF AccountsInv, Typed, Phases
<1>11. Pool'
  BY <1>6, <1>7, <1>8 DEF AccountsInv, Pool
<1>12. Executing' /\ Unkeyed'
  BY <1>6, <1>7, <1>8 DEF AccountsInv, Executing, Unkeyed
<1>13. Exclusive'
  BY <1>6, <1>7, <1>8 DEF AccountsInv, Exclusive
<1>14. ShreddedForGood' /\ Subjects' /\ Erased' /\ Numbered'
  BY <1>3, <1>6, <1>9 DEF AccountsInv, ShreddedForGood, Subjects, Erased, Numbered
<1> QED
  BY <1>10, <1>11, <1>12, <1>13, <1>14 DEF AccountsInv

\* The last consent is one of those that may be withdrawn.
LEMMA LatestIs ==
  ASSUME NEW found \in SUBSET Nat, NEW n \in Nat, \A r \in found : r <= n, found # {}
  PROVE  Latest(found) \in found
<1> DEFINE below == {n - r : r \in found}
<1>1. below \subseteq Nat /\ below # {}
  <2>1. \A r \in found : r \in Nat /\ r <= n /\ n - r \in Nat
    OBVIOUS
  <2> QED
    BY <2>1
<1>2. PICK m \in below : \A k \in below : ~(<<k, m>> \in OpToRel(<, Nat))
  BY <1>1, NatLessThanWellFounded, WFMin
<1>3. ASSUME NEW k \in below PROVE m <= k
  <2>1. k \in Nat /\ m \in Nat
    BY <1>1
  <2>2. ~(k < m)
    BY <1>2, <2>1 DEF OpToRel
  <2> QED
    BY <2>1, <2>2
<1>4. PICK r \in found : m = n - r
  OBVIOUS
<1>5. \A s \in found : s <= r
  BY <1>3, <1>4
<1> QED
  BY <1>5 DEF Latest

\* What a handler goes on with has a type, and is somebody when it is to enter.
LEMMA FoundFacts ==
  ASSUME AccountsInv, NEW i \in Ids, Refusal(i) = 0
  PROVE  /\ Found(i) \in Seens
         /\ reqs[i].op \in {"login", "exchange"} => Found(i) \in (SUBSET Nat) \ {{}}
         /\ reqs[i].op = "execute" => reqs[i].arg \in DOMAIN tickets /\ tickets[reqs[i].arg].tenant = Tenant(i)
<1>1. DOMAIN users \subseteq Nat /\ Tenant(i) \in Tenants
  BY IdFacts DEF AccountsInv, Typed
<1>2. CASE reqs[i].op = "login"
  BY <1>1, <1>2 DEF Found, Refusal, Login, WithPassword, Seens
<1>3. CASE reqs[i].op = "exchange"
  <2>1. \E sub \in VerifiedSub(reqs[i].arg) : OfSub(sub) # {}
    BY <1>3 DEF Refusal, Exchange
  <2>2. OfSub(reqs[i].arg) # {}
    BY <2>1 DEF VerifiedSub
  <2> QED
    BY <1>1, <1>3, <2>2 DEF Found, OfSub, Seens
<1>4. CASE reqs[i].op = "revoke"
  <2>1. Active(i) # {} /\ Found(i) = {Latest(Active(i))}
    BY <1>4 DEF Refusal, Revoke, Found
  <2>2. Active(i) \in SUBSET Nat /\ \A r \in Active(i) : r <= MaxRequests
    BY IdFacts DEF Active, AccountsInv, Numbered, DoneBy
  <2>3. Latest(Active(i)) \in Nat
    BY <2>1, <2>2, LatestIs, RequestsAssumption
  <2> QED
    BY <1>4, <2>1, <2>3 DEF Seens
<1>5. CASE reqs[i].op = "execute"
  <2>1. Ticket(i) # {}
    BY <1>5 DEF Refusal, ExecuteErasure, ForRank
  <2>2. Found(i) \in Seens
    BY <1>1, <1>5 DEF Found, Seens
  <2> QED
    BY <1>5, <2>1, <2>2 DEF Ticket
<1>6. CASE reqs[i].op = "encrypt"
  BY <1>1, <1>6 DEF Found, Seens
<1>7. CASE reqs[i].op \notin {"login", "exchange", "revoke", "execute", "encrypt"}
  BY <1>7 DEF Found, Seens
<1> QED
  BY <1>2, <1>3, <1>4, <1>5, <1>6, <1>7

LEMMA LookInv ==
  ASSUME AccountsInv, NEW i \in Ids, Look(i)
  PROVE  AccountsInv'
<1> DEFINE code == IF reqs[i].op = "execute" /\ Ticket(i) # {} /\ tickets[reqs[i].arg].status = "completed"
                   THEN 200 ELSE Refusal(i)
<1>1. /\ reqs[i].phase = "received" /\ reqs[i] \in Requested /\ reqs[i].txn = "none"
      /\ UNCHANGED <<people, ledger>>
      /\ IF code = 0 THEN Enter(i) /\ Reads(i, Found(i)) ELSE Answers(i, code) /\ UNCHANGED conns
  BY IdFacts DEF Look, AccountsInv, Phases
<1> USE DEF people, ledger
<1>2. CASE code # 0
  <2>1. code \in Nat
    BY DEF Refusal, Signup, Login, Exchange, SubmitErasure, ExecuteErasure, Revoke, Overview, Post, Encrypt, ForRank
  <2> HIDE DEF code
  <2> DEFINE r == [reqs[i] EXCEPT !.phase = "answered", !.answer = code, !.seen = None]
  <2>2. reqs' = [reqs EXCEPT ![i] = r] /\ UNCHANGED conns
    BY <1>1, <1>2 DEF Answers
  <2>3. /\ r \in Requested /\ r.op = reqs[i].op /\ r.who = reqs[i].who /\ r.arg = reqs[i].arg
        /\ r.phase = "answered" /\ r.txn = "none"
    BY <1>1, <2>1, AnsweredRecord
  <2> HIDE DEF r
  <2>4. Ends(i)
    BY <1>1, <2>2, <2>3, OneRequest DEF Ends
  <2> QED
    BY <1>1, <2>4, EndsInv DEF AccountsInv, Typed
<1>3. CASE code = 0
  <2>1. Refusal(i) = 0
    BY <1>3
  <2> HIDE DEF code
  <2>0. PICK s \in Seens : s = Found(i)
    BY <2>1, FoundFacts
  <2> DEFINE r == [reqs[i] EXCEPT !.phase = "read", !.seen = s]
  <2>2. reqs' = [reqs EXCEPT ![i] = r] /\ Enter(i)
    BY <1>1, <1>3, <2>0 DEF Reads
  <2>3. /\ reqs[i].op \in {"login", "exchange"} => s \in (SUBSET Nat) \ {{}}
        /\ reqs[i].op = "execute" => reqs[i].arg \in DOMAIN tickets /\ tickets[reqs[i].arg].tenant = Tenant(i)
    BY <2>0, <2>1, FoundFacts
  <2>4. /\ r \in Requested /\ r.op = reqs[i].op /\ r.who = reqs[i].who /\ r.arg = reqs[i].arg
        /\ r.phase = "read" /\ r.txn = "none" /\ r.seen = s
    BY <1>1, <2>3, ReadRecord
  <2> HIDE DEF r
  <2>5. /\ reqs' \in Seq(Requested) /\ Len(reqs') = Len(reqs) /\ Ids' = Ids /\ reqs'[i] = r
        /\ \A j \in Ids \ {i} : reqs'[j] = reqs[j]
    BY <2>2, <2>4, OneRequest
  <2>6. \A j \in Ids : /\ Tenant(j)' = Tenant(j) /\ (Locks(j)' <=> Locks(j))
                       /\ j # i => (Touches(j)' = Touches(j) /\ (Live(j)' <=> Live(j)))
    BY <1>1, <2>4, <2>5 DEF Tenant, Locks, Touches, Live
  <2>7. \A j, op : DoneBy(j, op)' <=> DoneBy(j, op)
    BY <1>1, <2>4, <2>5 DEF DoneBy
  <2>8. Pool' /\ conns' \in [Conns -> Settings]
    <3>1. PICK c \in Conns : /\ conns[c].by = 0
                              /\ conns' = [conns EXCEPT ![c].by = i, ![c].current_principal =
                                             IF Tenant(i) = Unset THEN @ ELSE Tenant(i)]
      BY <2>2 DEF Enter
    <3>2. conns[c] = Free /\ conns \in [Conns -> Settings] /\ i \in Nat \ {0} /\ Tenant(i) \in Tenants
      BY <3>1, IdFacts DEF AccountsInv, Pool, Typed
    <3>0. PICK t \in Tenants : t = Tenant(i)
      BY <3>2
    <3> DEFINE d == [conns[c] EXCEPT !.by = i, !.current_principal = t]
    <3>3. conns' = [conns EXCEPT ![c] = d]
      <4>1. (IF Tenant(i) = Unset THEN conns[c].current_principal ELSE Tenant(i)) = t
        BY <3>0, <3>2 DEF Free
      <4> QED
        BY <3>1, <3>2, <4>1
    <3>4. d \in Settings /\ d.by = i /\ d.current_principal = Tenant(i)
      <4>1. PICK f \in Settings : f = conns[c]
        BY <3>2
      <4>2. LET g == [f EXCEPT !.by = i, !.current_principal = t] IN
            g \in Settings /\ g.by = i /\ g.current_principal = t
        BY <3>0, <3>2, <4>1 DEF Settings
      <4> QED
        BY <3>0, <4>1, <4>2
    <3> HIDE DEF d
    <3>5. conns' \in [Conns -> Settings] /\ conns'[c] = d /\ \A e \in Conns \ {c} : conns'[e] = conns[e]
      BY <3>2, <3>3, <3>4
    <3>6. \A e \in Conns : conns'[e].by = 0 => conns'[e] = Free
      BY <3>2, <3>4, <3>5 DEF AccountsInv, Pool
    <3>7. \A e \in Conns : conns'[e].by # 0 =>
             conns'[e].by \in Ids' /\ conns'[e].current_principal = reqs'[conns'[e].by].who.tenant
      <4>1. \A j \in Ids : reqs'[j].who = reqs[j].who
        BY <2>4, <2>5
      <4>2. \A e \in Conns \ {c} : conns[e].by # 0 =>
               conns[e].by \in Ids /\ conns[e].current_principal = reqs[conns[e].by].who.tenant
        BY DEF AccountsInv, Pool, Tenant
      <4>3. conns'[c].by = i /\ conns'[c].current_principal = reqs[i].who.tenant
        BY <3>4, <3>5 DEF Tenant
      <4> QED
        BY <2>5, <3>5, <4>1, <4>2, <4>3
    <3>8. \A j \in Ids' : Live(j)' => \E e \in Conns : conns'[e].by = j
      <4>1. SUFFICES ASSUME NEW j \in Ids, Live(j)', j # i PROVE \E e \in Conns : conns'[e].by = j
        BY <2>5, <3>4, <3>5
      <4>2. j # 0 /\ \E e \in Conns : conns[e].by = j
        BY <2>6, <4>1, IdFacts DEF AccountsInv, Pool
      <4> QED
        BY <3>1, <3>5, <4>2
    <3> QED
      BY <3>5, <3>6, <3>7, <3>8 DEF Pool, Tenant
  <2>9. Typed' /\ Phases'
    BY <1>1, <2>3, <2>4, <2>5, <2>8 DEF AccountsInv, Typed, Phases
  <2>10. Executing'
    BY <1>1, <2>3, <2>4, <2>5, <2>6 DEF AccountsInv, Executing
  <2>11. Exclusive' /\ Unkeyed'
    BY <1>1, <2>5, <2>6 DEF AccountsInv, Exclusive, Unkeyed, Locks
  <2>12. ShreddedForGood' /\ Subjects' /\ Erased' /\ Numbered'
    BY <1>1, <2>4, <2>5, <2>7 DEF AccountsInv, ShreddedForGood, Subjects, Erased, Numbered
  <2> QED
    BY <2>8, <2>9, <2>10, <2>11, <2>12 DEF AccountsInv
<1> QED
  BY <1>2, <1>3

\* An answer without a commit, and a crash, end a request.
LEMMA AnswersEnds ==
  ASSUME AccountsInv, NEW i \in Ids, NEW code \in Nat, Answers(i, code), reqs[i].phase = "read", Leave(i)
  PROVE  Ends(i)
<1>1. reqs[i] \in Requested /\ reqs[i].txn = "none" /\ Live(i)
  BY IdFacts DEF AccountsInv, Phases, Live
<1> DEFINE r == [reqs[i] EXCEPT !.phase = "answered", !.answer = code, !.seen = None]
<1>2. reqs' = [reqs EXCEPT ![i] = r]
  BY DEF Answers
<1>3. /\ r \in Requested /\ r.op = reqs[i].op /\ r.who = reqs[i].who /\ r.arg = reqs[i].arg
      /\ r.phase = "answered" /\ r.txn = "none"
  BY <1>1, AnsweredRecord
<1> HIDE DEF r
<1> QED
  BY <1>1, <1>2, <1>3, OneRequest DEF Ends

LEMMA CrashesEnds ==
  ASSUME AccountsInv, NEW i \in Ids, Crashes(i), Live(i), reqs[i].txn # "done", Leave(i)
  PROVE  Ends(i)
<1>1. reqs[i] \in Requested
  BY IdFacts
<1> DEFINE r == [reqs[i] EXCEPT !.phase = "told", !.answer = 500, !.txn = "lost", !.seen = None]
<1>2. reqs' = [reqs EXCEPT ![i] = r]
  <2> DEFINE p == [reqs[i] EXCEPT !.phase = "told", !.answer = 500]
             first == [reqs EXCEPT ![i].phase = "told", ![i].answer = 500]
  <2>1. reqs' = [first EXCEPT ![i].txn = "lost", ![i].seen = None]
    BY DEF Crashes
  <2>2. first = [reqs EXCEPT ![i] = p]
    OBVIOUS
  <2>3. r = [p EXCEPT !.txn = "lost", !.seen = None]
    OBVIOUS
  <2> HIDE DEF p, r
  <2>4. first[i] = p /\ DOMAIN first = DOMAIN reqs
    BY <2>2 DEF Ids
  <2> HIDE DEF first
  <2>5. reqs' = [first EXCEPT ![i] = r]
    BY <2>1, <2>3, <2>4
  <2> QED
    BY <2>2, <2>4, <2>5
<1>3. /\ r \in Requested /\ r.op = reqs[i].op /\ r.who = reqs[i].who /\ r.arg = reqs[i].arg
      /\ r.phase = "told" /\ r.txn = "lost"
  BY <1>1, CrashedRecord
<1> HIDE DEF r
<1> QED
  BY <1>2, <1>3, OneRequest DEF Ends

LEMMA MintInv ==
  ASSUME AccountsInv, NEW i \in Ids, Mint(i)
  PROVE  AccountsInv'
<1>1. PICK u : u = CHOOSE v \in reqs[i].seen : TRUE
  OBVIOUS
<1>2. u \in Nat
  BY <1>1 DEF Mint, AccountsInv, Phases
<1>3. PICK t \in Tenancies(i, u) : tokens' = Insert(tokens, i, t)
  BY <1>1 DEF Mint, Issue
<1>4. t \in Whos
  BY <1>2, <1>3 DEF Tenancies, Whos, Tenants, Roles, AccountsInv, Typed
<1>5. \A j \in DOMAIN tokens' : tokens'[j] \in Whos
  BY <1>3, <1>4 DEF Insert, AccountsInv, Typed
<1>6. Ends(i)
  BY AnswersEnds DEF Mint
<1> QED
  BY <1>5, <1>6, EndsInv DEF Mint, ledger

LEMMA ShowInv ==
  ASSUME AccountsInv, NEW i \in Ids, Show(i)
  PROVE  AccountsInv'
<1>1. Ends(i)
  BY AnswersEnds DEF Show
<1> QED
  BY <1>1, EndsInv DEF Show, people, ledger, AccountsInv, Typed

LEMMA TellInv ==
  ASSUME AccountsInv, NEW i \in Ids, Tell(i)
  PROVE  AccountsInv'
<1>1. reqs[i] \in Requested
  BY IdFacts
<1> DEFINE r == [reqs[i] EXCEPT !.phase = "told"]
<1>2. reqs' = [reqs EXCEPT ![i] = r] /\ UNCHANGED conns
  BY DEF Tell
<1>3. /\ r \in Requested /\ r.op = reqs[i].op /\ r.who = reqs[i].who /\ r.arg = reqs[i].arg
      /\ r.phase = "told" /\ r.seen = reqs[i].seen /\ r.txn = reqs[i].txn
  BY <1>1, ToldRecord
<1> HIDE DEF r
<1>4. Ends(i)
  BY <1>2, <1>3, OneRequest DEF Ends
<1> QED
  BY <1>4, EndsInv DEF Tell, people, ledger, AccountsInv, Typed

LEMMA RespondInv ==
  ASSUME AccountsInv, NEW i \in Ids, Respond(i), UNCHANGED <<enforced, conns, people, ledger>>
  PROVE  AccountsInv'
<1>1. reqs[i] \in Requested
  BY IdFacts
<1> DEFINE r == [reqs[i] EXCEPT !.phase = "answered", !.answer = 200]
<1>2. reqs' = [reqs EXCEPT ![i] = r] /\ UNCHANGED conns
  BY DEF Respond
<1>3. /\ r \in Requested /\ r.op = reqs[i].op /\ r.who = reqs[i].who /\ r.arg = reqs[i].arg
      /\ r.phase = "answered" /\ r.seen = reqs[i].seen /\ r.txn = reqs[i].txn
  BY <1>1, RespondedRecord
<1> HIDE DEF r
<1>4. Ends(i)
  BY <1>2, <1>3, OneRequest DEF Ends
<1> QED
  BY <1>4, EndsInv DEF people, ledger, AccountsInv, Typed

LEMMA RollbackInv ==
  ASSUME AccountsInv, NEW i \in Ids, Rollback(i), Leave(i), UNCHANGED <<enforced, people, ledger>>
  PROVE  AccountsInv'
<1>1. reqs[i] \in Requested /\ reqs[i].txn = "due" /\ Live(i) /\ reqs[i].phase \in {"flushed", "told"}
  BY IdFacts DEF Rollback, Commits, Live
<1>2. Ends(i)
  <2>1. CASE reqs[i].phase = "flushed"
    BY <1>1, <2>1, CrashesEnds DEF Rollback
  <2>2. CASE reqs[i].phase = "told"
    <3> DEFINE r == [reqs[i] EXCEPT !.txn = "lost", !.seen = None]
    <3>1. reqs' = [reqs EXCEPT ![i] = r]
      BY <2>2 DEF Rollback
    <3>2. /\ r \in Requested /\ r.op = reqs[i].op /\ r.who = reqs[i].who /\ r.arg = reqs[i].arg
          /\ r.phase = "told" /\ r.txn = "lost"
      BY <1>1, <2>2, LostRecord
    <3> HIDE DEF r
    <3> QED
      BY <1>1, <3>1, <3>2, OneRequest DEF Ends
  <2> QED
    BY <1>1, <2>1, <2>2
<1> QED
  BY <1>2, EndsInv DEF people, ledger, AccountsInv, Typed

LEMMA WriteInv ==
  ASSUME AccountsInv, NEW i \in Ids, Write(i)
  PROVE  AccountsInv'
<1> USE DEF people, ledger
<1>1. /\ reqs[i] \in Requested /\ reqs[i].phase = "read" /\ reqs[i].txn = "none" /\ Live(i)
      /\ UNCHANGED <<people, ledger>>
  BY IdFacts DEF Write, AccountsInv, Phases, Live
<1>2. CASE Conflict(i)
  <2>1. Ends(i)
    BY <1>1, <1>2, CrashesEnds DEF Write
  <2> QED
    BY <1>1, <2>1, EndsInv DEF AccountsInv, Typed
<1>3. CASE ~Conflict(i)
  <2> DEFINE r == [reqs[i] EXCEPT !.phase = "flushed", !.txn = "due"]
  <2>1. reqs' = [reqs EXCEPT ![i] = r] /\ UNCHANGED conns
    BY <1>3 DEF Write, Flushes
  <2>2. /\ r \in Requested /\ r.op = reqs[i].op /\ r.who = reqs[i].who /\ r.arg = reqs[i].arg
        /\ r.phase = "flushed" /\ r.seen = reqs[i].seen /\ r.txn = "due"
    BY <1>1, FlushedRecord
  <2> HIDE DEF r
  <2>3. /\ reqs' \in Seq(Requested) /\ Len(reqs') = Len(reqs) /\ Ids' = Ids /\ reqs'[i] = r
        /\ \A j \in Ids \ {i} : reqs'[j] = reqs[j]
    BY <2>1, <2>2, OneRequest
  <2>4. \A j \in Ids : /\ reqs'[j].op = reqs[j].op /\ reqs'[j].arg = reqs[j].arg /\ reqs'[j].seen = reqs[j].seen
                       /\ reqs'[j].who = reqs[j].who
    BY <2>2, <2>3
  <2>5. \A j \in Ids : /\ Tenant(j)' = Tenant(j) /\ Touches(j)' = Touches(j)
                       /\ (Live(j)' <=> Live(j)) /\ (Locks(j)' <=> Locks(j) \/ j = i)
    BY <1>1, <2>2, <2>3, <2>4 DEF Tenant, Locks, Touches, Live
  <2>6. \A j, op : DoneBy(j, op)' <=> DoneBy(j, op)
    BY <1>1, <2>2, <2>3 DEF DoneBy
  <2>7. Typed' /\ Phases'
    BY <1>1, <2>1, <2>2, <2>3 DEF AccountsInv, Typed, Phases
  <2>8. Pool' /\ Executing'
    BY <1>1, <2>1, <2>3, <2>4, <2>5 DEF AccountsInv, Pool, Executing
  <2>9. Exclusive'
    BY <2>3, <2>5 DEF AccountsInv, Exclusive, Write
  <2>10. Unkeyed'
    BY <1>1, <1>3, <2>3, <2>4, <2>5 DEF AccountsInv, Unkeyed, Conflict
  <2>11. ShreddedForGood' /\ Subjects' /\ Erased' /\ Numbered'
    BY <1>1, <2>3, <2>4, <2>6 DEF AccountsInv, ShreddedForGood, Subjects, Erased, Numbered
  <2> QED
    BY <2>7, <2>8, <2>9, <2>10, <2>11 DEF AccountsInv
<1> QED
  BY <1>2, <1>3

\* A request that waits for its commit has inserted nothing yet.
LEMMA Fresh ==
  ASSUME AccountsInv, NEW i \in Ids, reqs[i].txn # "done"
  PROVE  i \notin DOMAIN users /\ i \notin DOMAIN tickets /\ i \notin DOMAIN records
  BY IdFacts DEF AccountsInv, Numbered, DoneBy

\* What a commit makes of the users, of the tickets and of the consents.
LEMMA UsersCommitted ==
  ASSUME AccountsInv, NEW i \in Ids, Commit(i)
  PROVE  /\ \A u : u \in DOMAIN users' <=> u \in DOMAIN users \/ (reqs[i].op = "signup" /\ u = i)
         /\ \A u \in DOMAIN users' : users'[u] \in UserRows
         /\ \A u \in DOMAIN users : users[u].hash = "erased" /\ ~users[u].active =>
              users'[u].hash = "erased" /\ ~users'[u].active
         /\ reqs[i].op = "execute" => \A u \in DOMAIN users : u = tickets[reqs[i].arg].subject =>
              users'[u].hash = "erased" /\ ~users'[u].active
<1>1. i \notin DOMAIN users /\ reqs[i].arg \in Args /\ \A u \in DOMAIN users : users[u] \in UserRows
  BY IdFacts, Fresh DEF Commit, Commits, AccountsInv, Typed
<1>2. CASE reqs[i].op = "signup"
  <2>1. users' = Insert(users, i, NewUser(reqs[i])) /\ NewUser(reqs[i]) \in UserRows
    BY <1>1, <1>2 DEF Commit, NewUser, User, UserRows
  <2>2. /\ DOMAIN users' = DOMAIN users \cup {i} /\ users'[i] \in UserRows
        /\ \A u \in DOMAIN users : users'[u] = users[u]
    BY <1>1, <2>1 DEF Insert
  <2> QED
    BY <1>1, <1>2, <2>2
<1>3. CASE reqs[i].op = "execute" /\ tickets[reqs[i].arg].subject \in DOMAIN users
  <2>1. PICK subject \in DOMAIN users : subject = tickets[reqs[i].arg].subject
    BY <1>3
  <2>2. users' = [users EXCEPT ![subject] = Tombstone(subject)]
    BY <1>3, <2>1 DEF Commit
  <2>3. PICK row \in UserRows : row = users[subject]
    BY <1>1
  <2>4. LET r == [row EXCEPT !.email = "erased", !.hash = "erased", !.active = FALSE] IN
        r \in UserRows /\ r.hash = "erased" /\ ~r.active
    BY <2>3 DEF UserRows
  <2>5. Tombstone(subject) \in UserRows /\ Tombstone(subject).hash = "erased" /\ ~Tombstone(subject).active
    BY <2>3, <2>4 DEF Tombstone
  <2> QED
    BY <1>1, <1>3, <2>1, <2>2, <2>5
<1>4. CASE reqs[i].op # "signup" /\ ~(reqs[i].op = "execute" /\ tickets[reqs[i].arg].subject \in DOMAIN users)
  BY <1>1, <1>4 DEF Commit
<1> QED
  BY <1>2, <1>3, <1>4

LEMMA TicketsCommitted ==
  ASSUME AccountsInv, NEW i \in Ids, Commit(i)
  PROVE  /\ \A t : t \in DOMAIN tickets' <=> t \in DOMAIN tickets \/ (reqs[i].op = "submit" /\ t = i)
         /\ \A t \in DOMAIN tickets' : tickets'[t] \in TicketRows
         /\ \A t \in DOMAIN tickets :
              /\ tickets'[t].tenant = tickets[t].tenant /\ tickets'[t].subject = tickets[t].subject
              /\ tickets'[t].status = "completed" =>
                   tickets[t].status = "completed" \/ (reqs[i].op = "execute" /\ t = reqs[i].arg)
         /\ reqs[i].op = "submit" =>
              i \notin DOMAIN tickets /\ tickets'[i].subject = reqs[i].arg /\ tickets'[i].status = "pending"
<1>1. /\ i \notin DOMAIN tickets /\ reqs[i].arg \in Args /\ Tenant(i) \in Tenants
      /\ \A t \in DOMAIN tickets : tickets[t] \in TicketRows
  BY IdFacts, Fresh DEF Commit, Commits, AccountsInv, Typed
<1>2. CASE reqs[i].op = "submit"
  <2>1. tickets' = Insert(tickets, i, TicketRow(i))
    BY <1>2 DEF Commit
  <2>2. /\ TicketRow(i) \in TicketRows /\ TicketRow(i).status = "pending"
        /\ TicketRow(i).subject = reqs[i].arg
    BY <1>1 DEF TicketRow, TicketRows
  <2>3. /\ DOMAIN tickets' = DOMAIN tickets \cup {i} /\ tickets'[i] = TicketRow(i)
        /\ \A t \in DOMAIN tickets : tickets'[t] = tickets[t]
    BY <1>1, <2>1 DEF Insert
  <2> QED
    BY <1>1, <1>2, <2>2, <2>3
<1>3. CASE reqs[i].op = "execute"
  <2>1. PICK t \in DOMAIN tickets : t = reqs[i].arg
    BY <1>3 DEF AccountsInv, Executing, Live, Commit, Commits
  <2>2. PICK row \in TicketRows : row = tickets[t]
    BY <1>1
  <2> DEFINE r == [row EXCEPT !.status = "completed"]
  <2>3. tickets' = [tickets EXCEPT ![t] = r]
    BY <1>3, <2>1, <2>2 DEF Commit
  <2>4. r \in TicketRows /\ r.tenant = row.tenant /\ r.subject = row.subject
    BY <2>2 DEF TicketRows
  <2> HIDE DEF r
  <2> QED
    BY <1>1, <1>3, <2>1, <2>2, <2>3, <2>4
<1>4. CASE reqs[i].op \notin {"submit", "execute"}
  BY <1>1, <1>4 DEF Commit
<1> QED
  BY <1>2, <1>3, <1>4

LEMMA RecordsCommitted ==
  ASSUME AccountsInv, NEW i \in Ids, Commit(i)
  PROVE  /\ \A r : r \in DOMAIN records' <=> r \in DOMAIN records \/ (reqs[i].op = "grant" /\ r = i)
         /\ \A r \in DOMAIN records' : records'[r] \in ConsentRows
         /\ \A r \in DOMAIN records : ~records[r].granted => ~records'[r].granted
<1>1. /\ i \notin DOMAIN records /\ reqs[i].who \in Whos
      /\ \A r \in DOMAIN records : records[r] \in ConsentRows
  BY IdFacts, Fresh DEF Commit, Commits, AccountsInv, Typed
<1>2. CASE reqs[i].op = "grant"
  <2>1. records' = Insert(records, i, ConsentRecord(reqs[i].who)) /\ ConsentRecord(reqs[i].who) \in ConsentRows
    BY <1>1, <1>2 DEF Commit, GrantedBy, ConsentRecord, ConsentRows, Whos
  <2>2. /\ DOMAIN records' = DOMAIN records \cup {i} /\ records'[i] \in ConsentRows
        /\ \A r \in DOMAIN records : records'[r] = records[r]
    BY <1>1, <2>1 DEF Insert
  <2> QED
    BY <1>1, <1>2, <2>2
<1>3. CASE reqs[i].op = "revoke"
  <2>1. /\ DOMAIN records' = DOMAIN records
        /\ \A r \in DOMAIN records :
             records'[r] = IF r \in reqs[i].seen THEN [records[r] EXCEPT !.granted = FALSE] ELSE records[r]
    BY <1>3 DEF Commit, Withdrawn
  <2>2. \A r \in DOMAIN records : records'[r] \in ConsentRows /\ (~records[r].granted => ~records'[r].granted)
    <3>1. SUFFICES ASSUME NEW r \in DOMAIN records
                   PROVE  records'[r] \in ConsentRows /\ (~records[r].granted => ~records'[r].granted)
      OBVIOUS
    <3>2. PICK row \in ConsentRows : row = records[r]
      BY <1>1
    <3>3. LET w == [row EXCEPT !.granted = FALSE] IN w \in ConsentRows /\ ~w.granted
      BY <3>2 DEF ConsentRows
    <3> QED
      BY <2>1, <3>2, <3>3
  <2> QED
    BY <1>3, <2>1, <2>2
<1>4. CASE reqs[i].op \notin {"grant", "revoke"}
  BY <1>1, <1>4 DEF Commit
<1> QED
  BY <1>2, <1>3, <1>4

\* And of the keys: what is inserted is held by the request alone.
LEMMA KeysCommitted ==
  ASSUME AccountsInv, NEW i \in Ids, Commit(i)
  PROVE  /\ \A t \in DOMAIN keys' : keys'[t] \in {"sealed", "shredded"}
         /\ \A t \in DOMAIN keys : t \in DOMAIN keys' /\ (keys[t] = "shredded" => keys'[t] = "shredded")
         /\ reqs[i].op = "execute" => Tenant(i) \in DOMAIN keys' /\ keys'[Tenant(i)] = "shredded"
         /\ \A t \in DOMAIN keys' \ DOMAIN keys :
              t = Tenant(i) /\ (reqs[i].op = "execute" \/ (reqs[i].op = "encrypt" /\ reqs[i].seen = {}))
<1>1. \A t \in DOMAIN keys : keys[t] \in {"sealed", "shredded"}
  BY DEF AccountsInv, Typed
<1>2. CASE reqs[i].op = "execute"
  <2>1. keys' = Insert(keys, Tenant(i), "shredded")
    BY <1>2 DEF Commit, Shredded
  <2>2. /\ DOMAIN keys' = DOMAIN keys \cup {Tenant(i)} /\ keys'[Tenant(i)] = "shredded"
        /\ \A t \in DOMAIN keys : t # Tenant(i) => keys'[t] = keys[t]
    BY <2>1 DEF Insert
  <2> QED
    BY <1>1, <1>2, <2>2
<1>3. CASE reqs[i].op = "encrypt" /\ reqs[i].seen = {}
  <2>1. keys' = Insert(keys, Tenant(i), "sealed")
    BY <1>3 DEF Commit, Sealed
  <2>2. Tenant(i) \notin DOMAIN keys
    BY <1>3 DEF AccountsInv, Unkeyed, Locks, Commit, Commits
  <2>3. /\ DOMAIN keys' = DOMAIN keys \cup {Tenant(i)} /\ keys'[Tenant(i)] = "sealed"
        /\ \A t \in DOMAIN keys : keys'[t] = keys[t]
    BY <2>1, <2>2 DEF Insert
  <2> QED
    BY <1>1, <1>3, <2>3
<1>4. CASE reqs[i].op # "execute" /\ ~(reqs[i].op = "encrypt" /\ reqs[i].seen = {})
  BY <1>1, <1>4 DEF Commit
<1> QED
  BY <1>2, <1>3, <1>4

\* The request itself after its commit.
LEMMA RequestCommitted ==
  ASSUME AccountsInv, NEW i \in Ids, Commit(i)
  PROVE  /\ reqs' \in Seq(Requested) /\ Len(reqs') = Len(reqs) /\ Ids' = Ids
         /\ \A j \in Ids \ {i} : reqs'[j] = reqs[j]
         /\ reqs'[i].op = reqs[i].op /\ reqs'[i].who = reqs[i].who /\ reqs'[i].arg = reqs[i].arg
         /\ reqs'[i].txn = "done" /\ reqs'[i].phase \in {"answered", "told"}
         /\ reqs[i].txn = "due" /\ Live(i) /\ Leave(i)
<1>1. /\ reqs[i] \in Requested /\ reqs[i].txn = "due" /\ reqs[i].phase \in {"flushed", "told"}
      /\ Committed(i) /\ Live(i) /\ Leave(i)
  BY IdFacts DEF Commit, Commits, Live
<1>2. PICK phase \in {"answered", "told"} : phase = IF reqs[i].phase = "flushed" THEN "answered" ELSE reqs[i].phase
  BY <1>1
<1>3. PICK code \in Nat : code = IF reqs[i].phase = "flushed" THEN 200 ELSE reqs[i].answer
  BY <1>1, IdFacts
<1> DEFINE a == [reqs[i] EXCEPT !.txn = "done", !.seen = None]
           r == [a EXCEPT !.phase = phase, !.answer = code]
           first == [reqs EXCEPT ![i].txn = "done", ![i].seen = None]
<1>4. reqs' = [first EXCEPT ![i].phase = IF @ = "flushed" THEN "answered" ELSE @,
                            ![i].answer = IF reqs[i].phase = "flushed" THEN 200 ELSE @]
  BY <1>1 DEF Committed
<1>5. first = [reqs EXCEPT ![i] = a]
  OBVIOUS
<1>6. /\ a \in Requested /\ a.op = reqs[i].op /\ a.who = reqs[i].who /\ a.arg = reqs[i].arg
      /\ a.txn = "done" /\ a.phase = reqs[i].phase /\ a.answer = reqs[i].answer
  BY <1>1 DEF Requested, Seens
<1> HIDE DEF a
<1>7. first[i] = a /\ DOMAIN first = DOMAIN reqs
  BY <1>5 DEF Ids
<1> HIDE DEF first
<1>8. reqs' = [first EXCEPT ![i].phase = phase, ![i].answer = code]
  BY <1>2, <1>3, <1>4, <1>6, <1>7
<1>9. reqs' = [first EXCEPT ![i] = r]
  BY <1>7, <1>8
<1>10. /\ r \in Requested /\ r.op = a.op /\ r.who = a.who /\ r.arg = a.arg
       /\ r.txn = a.txn /\ r.phase = phase
  BY <1>2, <1>3, <1>6 DEF Requested
<1> HIDE DEF r
<1>11. reqs' = [reqs EXCEPT ![i] = r]
  BY <1>5, <1>7, <1>9
<1> QED
  BY <1>1, <1>2, <1>6, <1>10, <1>11, OneRequest

LEMMA CommitInv ==
  ASSUME AccountsInv, NEW i \in Ids, Commit(i)
  PROVE  AccountsInv'
<1>1. /\ reqs' \in Seq(Requested) /\ Len(reqs') = Len(reqs) /\ Ids' = Ids
      /\ \A j \in Ids \ {i} : reqs'[j] = reqs[j]
      /\ reqs'[i].txn = "done" /\ reqs'[i].phase \in {"answered", "told"}
      /\ reqs[i].txn = "due" /\ Live(i) /\ Leave(i)
      /\ \A j \in Ids : reqs'[j].op = reqs[j].op /\ reqs'[j].who = reqs[j].who /\ reqs'[j].arg = reqs[j].arg
  BY RequestCommitted
<1>2. /\ UNCHANGED <<memberships, tokens>> /\ i \in 1..MaxRequests
      /\ i \notin DOMAIN users /\ i \notin DOMAIN tickets /\ i \notin DOMAIN records
  BY <1>1, IdFacts, Fresh DEF Commit
<1>3. \A j \in Ids : /\ Tenant(j)' = Tenant(j)
                     /\ Live(j)' => j # i /\ Live(j)
                     /\ Locks(j)' => j # i /\ Locks(j)
  BY <1>1 DEF Tenant, Live, Locks
<1>4. \A j \in Ids : reqs[j].op = "execute" /\ Live(j) =>
         reqs[j].arg \in DOMAIN tickets /\ tickets[reqs[j].arg].tenant = Tenant(j)
  BY DEF AccountsInv, Executing
<1>5. \A j \in Ids : Locks(j)' => j # i /\ Locks(j) /\ Touches(j)' = Touches(j)
  <2>1. SUFFICES ASSUME NEW j \in Ids, Locks(j)' PROVE Touches(j)' = Touches(j)
    BY <1>3
  <2>2. j # i /\ Locks(j) /\ Live(j) /\ reqs'[j] = reqs[j] /\ Tenant(j)' = Tenant(j)
    BY <1>1, <1>3, <2>1 DEF Locks, Live
  <2>3. reqs[j].op = "execute" => tickets'[reqs[j].arg].subject = tickets[reqs[j].arg].subject
    BY <1>4, <2>2, TicketsCommitted
  <2> QED
    BY <2>2, <2>3 DEF Touches
<1>6. Pool' /\ conns' \in [Conns -> Settings]
  BY <1>1, <1>3, LeavePool
<1>7. Typed'
  <2>1. DOMAIN users' \subseteq 0..MaxRequests /\ 0 \in DOMAIN users'
    BY <1>2, UsersCommitted, RequestsAssumption DEF AccountsInv, Typed
  <2>2. /\ \A u \in DOMAIN users' : users'[u] \in UserRows
        /\ \A t \in DOMAIN tickets' : tickets'[t] \in TicketRows
        /\ \A t \in DOMAIN keys' : keys'[t] \in {"sealed", "shredded"}
        /\ \A r \in DOMAIN records' : records'[r] \in ConsentRows
    BY UsersCommitted, TicketsCommitted, KeysCommitted, RecordsCommitted
  <2> QED
    BY <1>1, <1>2, <1>6, <2>1, <2>2 DEF AccountsInv, Typed
<1>8. Phases'
  BY <1>1 DEF AccountsInv, Phases
<1>9. Executing'
  <2>1. SUFFICES ASSUME NEW j \in Ids, reqs'[j].op = "execute", Live(j)'
                 PROVE  reqs'[j].arg \in DOMAIN tickets' /\ tickets'[reqs'[j].arg].tenant = Tenant(j)'
    BY <1>1 DEF Executing
  <2>2. /\ reqs'[j].arg = reqs[j].arg /\ Tenant(j)' = Tenant(j)
        /\ reqs[j].arg \in DOMAIN tickets /\ tickets[reqs[j].arg].tenant = Tenant(j)
    BY <1>1, <1>3, <1>4, <2>1
  <2> QED
    BY <2>2, TicketsCommitted
<1>10. Exclusive'
  BY <1>1, <1>5 DEF AccountsInv, Exclusive
<1>11. Unkeyed'
  <2>1. SUFFICES ASSUME NEW j \in Ids, Locks(j)', reqs'[j].op \in {"execute", "encrypt"}, reqs'[j].seen = {},
                        Tenant(j) \in DOMAIN keys'
                 PROVE  FALSE
    BY <1>1, <1>3 DEF Unkeyed
  <2>2. j # i /\ Locks(j) /\ reqs[j].op \in {"execute", "encrypt"} /\ reqs[j].seen = {}
    BY <1>1, <1>3, <2>1
  <2>3. Tenant(j) \notin DOMAIN keys
    BY <2>2 DEF AccountsInv, Unkeyed
  <2>4. Tenant(j) = Tenant(i) /\ (reqs[i].op = "execute" \/ (reqs[i].op = "encrypt" /\ reqs[i].seen = {}))
    BY <2>1, <2>3, KeysCommitted
  <2>5. <<"key", Tenant(j)>> \in Touches(j)
    BY <2>2 DEF Touches
  <2>6. <<"key", Tenant(i)>> \in Touches(i)
    BY <2>4 DEF Touches
  <2> QED
    BY <1>1, <2>2, <2>4, <2>5, <2>6 DEF AccountsInv, Exclusive, Locks
<1>12. ShreddedForGood'
  <2>1. SUFFICES ASSUME NEW t \in DOMAIN tickets', tickets'[t].status = "completed"
                 PROVE  tickets'[t].tenant \in DOMAIN keys' /\ keys'[tickets'[t].tenant] = "shredded"
    BY DEF ShreddedForGood
  <2>2. t \in DOMAIN tickets /\ tickets'[t].tenant = tickets[t].tenant
    BY <2>1, TicketsCommitted
  <2>3. CASE tickets[t].status = "completed"
    BY <2>2, <2>3, KeysCommitted DEF AccountsInv, ShreddedForGood
  <2>4. CASE reqs[i].op = "execute" /\ t = reqs[i].arg
    BY <1>1, <1>4, <2>2, <2>4, KeysCommitted
  <2> QED
    BY <2>1, <2>2, <2>3, <2>4, TicketsCommitted
<1>13. Subjects'
  <2>1. DOMAIN users \subseteq DOMAIN users'
    BY UsersCommitted
  <2>2. ASSUME NEW t \in DOMAIN tickets', tickets'[t].subject \in 1..MaxRequests
        PROVE  tickets'[t].subject \in DOMAIN users'
    <3>1. CASE t \in DOMAIN tickets
      BY <2>1, <2>2, <3>1, TicketsCommitted DEF AccountsInv, Subjects
    <3>2. CASE reqs[i].op = "submit" /\ t = i
      BY <2>1, <2>2, <3>2, TicketsCommitted DEF AccountsInv, Subjects
    <3> QED
      BY <2>2, <3>1, <3>2, TicketsCommitted
  <2> QED
    BY <1>1, <2>1, <2>2 DEF AccountsInv, Subjects
<1>14. Erased'
  <2>1. SUFFICES ASSUME NEW t \in DOMAIN tickets', tickets'[t].status = "completed",
                        tickets'[t].subject \in DOMAIN users'
                 PROVE  users'[tickets'[t].subject].hash = "erased" /\ ~users'[tickets'[t].subject].active
    BY DEF Erased
  <2>2. t \in DOMAIN tickets /\ tickets'[t].subject = tickets[t].subject
    BY <2>1, TicketsCommitted
  <2>3. tickets[t].subject \in DOMAIN users
    BY <1>2, <2>1, <2>2, UsersCommitted DEF AccountsInv, Subjects
  <2>4. CASE tickets[t].status = "completed"
    BY <2>2, <2>3, <2>4, UsersCommitted DEF AccountsInv, Erased
  <2>5. CASE reqs[i].op = "execute" /\ t = reqs[i].arg
    BY <2>2, <2>3, <2>5, UsersCommitted
  <2> QED
    BY <2>1, <2>2, <2>4, <2>5, TicketsCommitted
<1>15. Numbered'
  <2>1. \A u \in DOMAIN users' : u = 0 \/ DoneBy(u, "signup")'
    BY <1>1, UsersCommitted DEF AccountsInv, Numbered, DoneBy
  <2>2. \A t \in DOMAIN tickets' : t = 0 \/ DoneBy(t, "submit")'
    BY <1>1, TicketsCommitted DEF AccountsInv, Numbered, DoneBy
  <2>3. \A r \in DOMAIN records' : DoneBy(r, "grant")'
    BY <1>1, RecordsCommitted DEF AccountsInv, Numbered, DoneBy
  <2> QED
    BY <2>1, <2>2, <2>3 DEF Numbered
<1> QED
  BY <1>6, <1>7, <1>8, <1>9, <1>10, <1>11, <1>12, <1>13, <1>14, <1>15 DEF AccountsInv

LEMMA StepInv ==
  ASSUME AccountsInv, [Next]_vars
  PROVE  AccountsInv'
<1>1. ASSUME NEW q \in Questions, Ask(q) PROVE AccountsInv'
  BY <1>1, AskInv
<1>2. ASSUME NEW i \in Ids, Look(i) \/ Mint(i) \/ Show(i) \/ Write(i) \/ Commit(i) \/ Tell(i) PROVE AccountsInv'
  BY <1>2, LookInv, MintInv, ShowInv, WriteInv, CommitInv, TellInv
<1>3. ASSUME NEW i \in Ids, Respond(i), UNCHANGED <<enforced, conns, people, ledger>> PROVE AccountsInv'
  BY <1>3, RespondInv
<1>4. ASSUME NEW i \in Ids, Rollback(i), Leave(i), UNCHANGED <<enforced, people, ledger>> PROVE AccountsInv'
  BY <1>4, RollbackInv
<1>5. CASE UNCHANGED vars
  BY <1>5 DEF vars, people, ledger, AccountsInv, Typed, Phases, Pool, Executing, Exclusive, Unkeyed, ShreddedForGood,
     Subjects, Erased, Numbered, Ids, Live, Tenant, Locks, Touches, DoneBy
<1> QED
  BY <1>1, <1>2, <1>3, <1>4, <1>5 DEF Next

(* Whatever overlaps, the requests, the pool and the tables stay of their  *)
(* types and consistent: a connection carries the tenant of its request or *)
(* nothing, no two transactions wait with the same row, and the row that a *)
(* request inserts is there when it has committed (tenant_session, and the *)
(* services of auth, erasure and consent).                                 *)
THEOREM AccountsInvariant == Spec => []AccountsInv
<1>1. Init => AccountsInv
  BY InitInv
<1>2. AccountsInv /\ [Next]_vars => AccountsInv'
  BY StepInv
<1> QED
  BY <1>1, <1>2, PTL DEF Spec

(* For any number of tenants and of overlapping requests, an erasure that  *)
(* was executed has destroyed the key of its tenant, and none comes back   *)
(* (shred_tenant_dek, ensure_tenant_dek).                                  *)
THEOREM ShreddedStays == Spec => []ShreddedForGood
<1>1. AccountsInv => ShreddedForGood
  BY DEF AccountsInv
<1> QED
  BY <1>1, AccountsInvariant, PTL

(* For any pool, a session that is under way has the setting of its own    *)
(* tenant, or none without a principal, and where the policies bind the    *)
(* counts of the overview are of its own tenant only (tenant_session, the  *)
(* policies of migrations 0003 to 0005).                                   *)
THEOREM SessionsScoped == Spec => []SeesOwnTenant
<1>1. AccountsInv => SeesOwnTenant
  <2>1. SUFFICES ASSUME AccountsInv, NEW i \in Ids, enforced, reqs[i].phase \in {"read", "flushed"}
                 PROVE  /\ conns[Conn(i)].current_principal = Tenant(i)
                        /\ Counted(i) \subseteq {Tenant(i)}
    BY DEF SeesOwnTenant
  <2>2. conns[Conn(i)].current_principal = Tenant(i)
    BY <2>1, ConnFacts DEF Live
  <2>3. Policy("athlete_profiles") = "current_principal"
    BY DEF Policy, TenantTables, FederationTables, QueueTables
  <2>4. \A g \in Granted : Passes(i, "athlete_profiles", g.tenant) => g.tenant = Tenant(i)
    BY <2>1, <2>2, <2>3 DEF Passes
  <2> QED
    BY <2>2, <2>4 DEF Counted
<1> QED
  BY <1>1, AccountsInvariant, PTL

\* Only a look takes a request from received to read, and it keeps what it found.
LEMMA LookedOnly ==
  ASSUME AccountsInv, Next, NEW i \in Ids, reqs[i].phase = "received", reqs'[i].phase = "read"
  PROVE  Look(i)
<1>1. reqs \in Seq(Requested) /\ \A j \in Ids : reqs[j] \in Requested
  BY IdFacts DEF AccountsInv, Typed
<1>2. ASSUME NEW q \in Questions, Ask(q) PROVE FALSE
  <2>1. PICK r : reqs' = Append(reqs, r)
    BY <1>2 DEF Ask, Arrive
  <2>2. reqs'[i] = reqs[i]
    BY <1>1, <2>1 DEF Ids
  <2> QED
    BY <2>2
<1>3. ASSUME NEW j \in Ids, Look(j) PROVE j = i
  <2>1. ASSUME NEW seen, Reads(j, seen) PROVE \E r : reqs' = [reqs EXCEPT ![j] = r]
    BY <2>1 DEF Reads
  <2>2. ASSUME NEW code, Answers(j, code) PROVE \E r : reqs' = [reqs EXCEPT ![j] = r]
    BY <2>2 DEF Answers
  <2>3. \E r : reqs' = [reqs EXCEPT ![j] = r]
    BY <1>3, <2>1, <2>2 DEF Look
  <2> QED
    BY <1>1, <2>3 DEF Ids
<1>4. ASSUME NEW j \in Ids, Ends(j) PROVE FALSE
  BY <1>4 DEF Ends
<1>5. ASSUME NEW j \in Ids, Mint(j) PROVE FALSE
  <2>1. Ends(j)
    BY <1>5, AnswersEnds DEF Mint
  <2> QED
    BY <1>4, <2>1
<1>6. ASSUME NEW j \in Ids, Show(j) PROVE FALSE
  <2>1. Ends(j)
    BY <1>6, AnswersEnds DEF Show
  <2> QED
    BY <1>4, <2>1
<1>7. ASSUME NEW j \in Ids, Write(j) PROVE FALSE
  <2>1. \E r : reqs' = [reqs EXCEPT ![j] = r]
    BY <1>7 DEF Write, Crashes, Flushes
  <2>2. j = i
    BY <1>1, <2>1 DEF Ids
  <2> QED
    BY <1>7, <2>2 DEF Write
<1>8. ASSUME NEW j \in Ids, Commit(j) PROVE FALSE
  BY <1>8, RequestCommitted
<1>9. ASSUME NEW j \in Ids, Tell(j) \/ Respond(j) \/ Rollback(j) PROVE FALSE
  <2>1. \E r : reqs' = [reqs EXCEPT ![j] = r]
    BY <1>9 DEF Tell, Respond, Rollback, Crashes
  <2>2. j = i
    BY <1>1, <2>1 DEF Ids
  <2> QED
    BY <1>9, <2>2 DEF Tell, Respond, Rollback, Commits
<1> QED
  BY <1>2, <1>3, <1>5, <1>6, <1>7, <1>8, <1>9 DEF Next

LEMMA LookedFinds ==
  ASSUME AccountsInv, NEW i \in Ids, Look(i), reqs'[i].phase = "read"
  PROVE  reqs'[i].seen = Found(i)
<1>1. reqs[i] \in Requested
  BY IdFacts
<1>2. CASE Reads(i, Found(i)) /\ Refusal(i) = 0
  <2>1. PICK s \in Seens : s = Found(i)
    BY <1>2, FoundFacts
  <2> DEFINE r == [reqs[i] EXCEPT !.phase = "read", !.seen = s]
  <2>2. reqs' = [reqs EXCEPT ![i] = r]
    BY <1>2, <2>1 DEF Reads
  <2>3. r \in Requested /\ r.seen = s
    BY <1>1, <2>1 DEF Requested
  <2> HIDE DEF r
  <2> QED
    BY <2>1, <2>2, <2>3, OneRequest
<1>3. ASSUME NEW code \in Nat, Answers(i, code) PROVE FALSE
  <2> DEFINE r == [reqs[i] EXCEPT !.phase = "answered", !.answer = code, !.seen = None]
  <2>1. reqs' = [reqs EXCEPT ![i] = r]
    BY <1>3 DEF Answers
  <2>2. r \in Requested /\ r.phase = "answered"
    BY <1>1, AnsweredRecord
  <2> HIDE DEF r
  <2> QED
    BY <2>1, <2>2, OneRequest
<1>4. 200 \in Nat /\ Refusal(i) \in Nat
  BY DEF Refusal, Signup, Login, Exchange, SubmitErasure, ExecuteErasure, Revoke, Overview, Post, Encrypt, ForRank
<1>5. (Reads(i, Found(i)) /\ Refusal(i) = 0) \/ Answers(i, 200) \/ Answers(i, Refusal(i))
  BY DEF Look
<1> QED
  BY <1>2, <1>3, <1>4, <1>5

(* Whoever was erased is found by no lookup that comes after the execution *)
(* was committed, and a withdrawn consent stays on record as withdrawn     *)
(* (execute_erasure's tombstone, grant_consent).                           *)
THEOREM TakenBack == Spec => TakenBackForGood
<1> DEFINE Shut ==
      \A i \in Ids, t \in DOMAIN tickets :
          /\ tickets[t].status = "completed" /\ reqs[i].op \in {"login", "exchange"}
          /\ reqs[i].phase = "received" /\ reqs'[i].phase = "read"
          => tickets[t].subject \notin reqs'[i].seen
    Withheld == \A r \in DOMAIN records :
          ~records[r].granted => r \in DOMAIN records' /\ ~records'[r].granted
<1>1. ASSUME AccountsInv, Next PROVE Shut
  <2>1. SUFFICES ASSUME NEW i \in Ids, NEW t \in DOMAIN tickets, tickets[t].status = "completed",
                        reqs[i].op \in {"login", "exchange"}, reqs[i].phase = "received",
                        reqs'[i].phase = "read", tickets[t].subject \in reqs'[i].seen
                 PROVE  FALSE
    OBVIOUS
  <2>2. Look(i)
    BY <1>1, <2>1, LookedOnly
  <2>3. reqs'[i].seen = Found(i)
    BY <1>1, <2>1, <2>2, LookedFinds
  <2>4. \A u \in Found(i) : u \in DOMAIN users /\ (users[u].hash = "own" \/ users[u].active)
    BY <2>1 DEF Found, WithPassword, OfSub
  <2>5. users[tickets[t].subject].hash = "erased" /\ ~users[tickets[t].subject].active
    BY <1>1, <2>1, <2>3, <2>4 DEF AccountsInv, Erased
  <2> QED
    BY <2>1, <2>3, <2>4, <2>5
<1>2. ASSUME AccountsInv, Next PROVE Withheld
  <2>1. CASE \E i \in Ids : Commit(i)
    BY <1>2, <2>1, RecordsCommitted
  <2>2. CASE ~\E i \in Ids : Commit(i)
    BY <1>2, <2>2 DEF Next, Ask, Look, Mint, Show, Write, Tell, ledger
  <2> QED
    BY <2>1, <2>2
<1>3. ASSUME AccountsInv, UNCHANGED vars PROVE Shut /\ Withheld
  BY <1>3 DEF vars, ledger
<1>4. AccountsInv /\ [Next]_vars => [Shut /\ Withheld]_vars
  BY <1>1, <1>2
<1> QED
  BY <1>4, AccountsInvariant, PTL DEF Spec, TakenBackForGood
=============================================================================
