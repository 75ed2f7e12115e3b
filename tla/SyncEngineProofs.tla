-------------------------- MODULE SyncEngineProofs --------------------------
(* Whatever the user and other devices write while a sync runs, and wherever *)
(* it stops, the cursor never passes a change this device has not dealt      *)
(* with, no two local rows stand for one server row, and a created row is    *)
(* never lost: for every set of rows, tables, columns and failing phases.    *)
(* What it holds differs from the server's rows in known places only.        *)
EXTENDS SyncEngine, FiniteSetTheorems, TLAPS

Items == [op : {"create", "update", "delete"}, key : Keys, sid : Sids \cup {None},
          cols : [Cols -> Nat], at : Nat]

Receipts == [op : {"create", "update", "delete"}, key : Keys, cols : [Cols -> Nat], sid : Sids, ver : Nat]

\* This device has dealt with every server change up to version n.
Covers(n) == \A s \in Sids : server[s] # None /\ server[s].ver <= n => seen[s] = server[s].ver

Versions ==
  /\ cursor <= sver /\ pullTs <= sver /\ resTs <= sver
  /\ \A s \in Sids : server[s] # None => server[s].ver <= sver

\* A local row has a server id exactly when it is past "created", and the
\* server then has a row with that id.
Known ==
  \A k \in Keys : local[k] # None =>
    /\ local[k].status = "created" <=> local[k].sid = None
    /\ local[k].sid # None => server[local[k].sid] # None

OneKey == \A k, l \in Keys :
  local[k] # None /\ local[l] # None /\ local[k].sid # None /\ local[k].sid = local[l].sid => k = l

\* What the phases leave behind for the next one.
Leftovers ==
  /\ phase # "apply" => todo = {} /\ found = None
  /\ phase # "ack" => acks = {}
  /\ \A i \in payload : i.op # "create" => i.sid \in Sids /\ server[i.sid] # None

\* What was pulled is what the server still has, or newer than the pull.
Applying ==
  phase = "apply" =>
    /\ cursor <= pullTs
    /\ \A s \in Sids \ todo :
         server[s] # None /\ server[s].ver <= pullTs => seen[s] = server[s].ver
    /\ \A s \in todo : /\ server[s] # None /\ pulled[s] # None
                       /\ server[s].ver <= pullTs => pulled[s].ver = server[s].ver

Pushing == phase \in {"collect", "push"} => cursor <= pullTs /\ Covers(pullTs)

\* Up to the result's timestamp, a server change this device has not dealt with
\* is its own push, with the acknowledgement still to be written.
Acking ==
  phase = "ack" =>
    /\ cursor <= resTs
    /\ \A s \in Sids : server[s] # None /\ server[s].ver <= resTs =>
         \/ seen[s] = server[s].ver
         \/ \E a \in acks : a.sid = s /\ a.ver = server[s].ver

\* An acknowledgement names a row the server has; that of a created row names
\* the row made of it, which no local row stands for yet.
AcksRight ==
  /\ \A a \in acks : /\ server[a.sid] # None
                     /\ a.ver > 0 => a.ver <= server[a.sid].ver /\ resTs <= a.ver
                     /\ a.op = "create" => /\ server[a.sid].origin = a.key
                                           /\ \A k \in Keys : local[k] # None => local[k].sid # a.sid
  /\ \A a, b \in acks : a.op = "create" /\ b.op = "create" /\ a.sid = b.sid => a = b

SyncInv ==
  /\ TypeOK /\ CursorCovers /\ Versions /\ Known /\ OneKey /\ Leftovers /\ Applying
  /\ Pushing /\ Acking /\ AcksRight

\* A created row the server has is past "created" here, or about to be; one that
\* is pushed is not there yet.
Once ==
  /\ \A s \in Sids : server[s] # None /\ server[s].origin # None =>
       LET k == server[s].origin
       IN  local[k] # None /\ local[k].status = "created" =>
             \E a \in acks : a.op = "create" /\ a.key = k
  /\ \A i \in payload : i.op = "create" => \A s \in Sids : server[s] # None => server[s].origin # i.key
  /\ \A i, j \in payload : i.op = "create" /\ j.op = "create" /\ i.key = j.key => i = j

LEMMA Distinguished == None \notin Keys /\ None \notin LocalRows /\ None \notin ServerRows
  BY SyncAssumption

\* Where a server row is stored, or will be.
LEMMA KeyForFacts ==
  ASSUME NEW s \in Sids
  PROVE  /\ KeyFor(s) \in Keys
         /\ KeysOf(s) = {} => KeyFor(s) = s
         /\ KeysOf(s) # {} => local[KeyFor(s)] # None /\ local[KeyFor(s)].sid = s
  BY DEF KeyFor, KeysOf, Keys

LEMMA RowType ==
  ASSUME NEW status \in {"synced", "created", "updated", "deleted"}, NEW s \in Sids \cup {None},
         NEW cols \in [Cols -> Nat], NEW dirty \in SUBSET Cols, NEW at \in Nat
  PROVE  /\ Row(status, s, cols, dirty, at) \in LocalRows
         /\ Row(status, s, cols, dirty, at).status = status /\ Row(status, s, cols, dirty, at).sid = s
         /\ Row(status, s, cols, dirty, at).cols = cols /\ Row(status, s, cols, dirty, at).dirty = dirty
         /\ Row(status, s, cols, dirty, at).at = at
  BY DEF Row, LocalRows

LEMMA ServerRowType ==
  ASSUME NEW cols \in [Cols -> Nat], NEW at \in Nat, NEW origin \in Keys \cup {None}, sver \in Nat
  PROVE  /\ ServerRow(cols, at, origin) \in ServerRows /\ ServerRow(cols, at, origin).ver = sver + 1
         /\ ServerRow(cols, at, origin).origin = origin /\ ServerRow(cols, at, origin).cols = cols
         /\ ServerRow(cols, at, origin).at = at /\ ~ServerRow(cols, at, origin).dead
  BY DEF ServerRow, ServerRows

LEMMA FieldTypes ==
  ASSUME TypeOK
  PROVE  /\ \A k \in Keys : local[k] # None =>
              /\ local[k] \in LocalRows /\ local[k].sid \in Sids \cup {None}
              /\ local[k].cols \in [Cols -> Nat] /\ local[k].dirty \subseteq Cols /\ local[k].at \in Nat
              /\ local[k].status \in {"synced", "created", "updated", "deleted"}
         /\ \A s \in Sids : server[s] # None =>
              /\ server[s] \in ServerRows /\ server[s].ver \in Nat \ {0} /\ server[s].cols \in [Cols -> Nat]
              /\ server[s].at \in Nat /\ server[s].origin \in Keys \cup {None}
         /\ \A s \in Sids : pulled[s] # None =>
              /\ pulled[s] \in ServerRows /\ pulled[s].ver \in Nat \ {0} /\ pulled[s].cols \in [Cols -> Nat]
              /\ pulled[s].at \in Nat
         /\ \A i \in payload : /\ i.op \in {"create", "update", "delete"} /\ i.key \in Keys
                               /\ i.cols \in [Cols -> Nat] /\ i.at \in Nat
         /\ \A a \in acks : /\ a.op \in {"create", "update", "delete"} /\ a.key \in Keys
                            /\ a.sid \in Sids /\ a.ver \in Nat /\ a.cols \in [Cols -> Nat]
<1>1. \A r \in LocalRows : /\ r.sid \in Sids \cup {None} /\ r.cols \in [Cols -> Nat] /\ r.dirty \subseteq Cols
                           /\ r.at \in Nat /\ r.status \in {"synced", "created", "updated", "deleted"}
  BY DEF LocalRows
<1>2. \A r \in ServerRows : /\ r.ver \in Nat \ {0} /\ r.cols \in [Cols -> Nat] /\ r.at \in Nat
                            /\ r.origin \in Keys \cup {None}
  BY DEF ServerRows
<1>3. (\A k \in Keys : local[k] \in LocalRows \cup {None}) /\ \A s \in Sids : server[s] \in ServerRows \cup {None}
      /\ pulled[s] \in ServerRows \cup {None}
  BY DEF TypeOK
<1>4. \A i \in payload : /\ i.op \in {"create", "update", "delete"} /\ i.key \in Keys
                         /\ i.cols \in [Cols -> Nat] /\ i.at \in Nat
  BY DEF TypeOK
<1>5. \A a \in acks : /\ a.op \in {"create", "update", "delete"} /\ a.key \in Keys
                      /\ a.sid \in Sids /\ a.ver \in Nat /\ a.cols \in [Cols -> Nat]
  BY DEF TypeOK
<1> QED
  BY <1>1, <1>2, <1>3, <1>4, <1>5

LEMMA InitInv == Init => SyncInv
<1> SUFFICES ASSUME Init PROVE SyncInv
  OBVIOUS
<1>1. TypeOK
  BY SMT DEF Init, TypeOK
<1>2. CursorCovers /\ Versions /\ Known /\ OneKey /\ Leftovers /\ Applying /\ Pushing /\ Acking /\ AcksRight
  BY DEF Init, CursorCovers, Versions, Known, OneKey, Leftovers, Applying, Pushing, Acking, AcksRight
<1> QED
  BY <1>1, <1>2 DEF SyncInv

\* What the user does to one row: it keeps its server id, and is dirty afterwards.
LEMMA UserFacts ==
  ASSUME SyncInv, NEW k \in Keys,
         (k \in Lids /\ UserCreates(k)) \/ UserDeletes(k) \/ \E c \in Cols : UserEdits(k, c)
  PROVE  /\ MayWrite /\ UNCHANGED <<cursor, phase, syncVars, serverVars, seen, astray>> /\ clock' = clock + 1
         /\ local[k] # None => local[k].status # "deleted"
         /\ \E r \in LocalRows \cup {None} :
              /\ local' = [local EXCEPT ![k] = r]
              /\ local[k] # None /\ local[k].sid # None => r # None /\ r.sid = local[k].sid
              /\ r # None => /\ r.status = "created" <=> r.sid = None
                             /\ r.sid # None => local[k] # None /\ r.sid = local[k].sid
                             /\ r.status # "synced" /\ (k \in Sids => local[k] # None)
                             /\ r.status # "created" \/ r.dirty # {} => TableOf[k] = "sessions"
                             /\ \/ r.at = clock + 1
                                \/ /\ local[k] # None /\ r.at = local[k].at
                                   /\ r.dirty = local[k].dirty /\ r.cols = local[k].cols
<1>1. clock + 1 \in Nat /\ local \in [Keys -> LocalRows \cup {None}]
  BY DEF SyncInv, TypeOK
<1>2. CASE k \in Lids /\ UserCreates(k)
  <2> DEFINE d == Row("created", None, [c \in Cols |-> clock + 1], {}, clock + 1)
  <2>1. local' = [local EXCEPT ![k] = d] /\ local[k] = None /\ k \notin Sids
    BY <1>1, <1>2, SyncAssumption DEF UserCreates
  <2>2. d \in LocalRows /\ d.status = "created" /\ d.sid = None /\ d.dirty = {} /\ d.at = clock + 1
    BY <1>1, RowType
  <2> HIDE DEF d
  <2> QED
    BY <1>2, <2>1, <2>2 DEF UserCreates
<1>3. CASE UserDeletes(k)
  <2> DEFINE d == [local[k] EXCEPT !.status = "deleted"]
             r == IF local[k].status = "created" THEN None ELSE d
  <2>1. local[k] \in LocalRows /\ local[k] # None
    BY <1>1, <1>3 DEF UserDeletes
  <2>2. /\ d \in LocalRows /\ d.status = "deleted" /\ d.sid = local[k].sid
        /\ d.at = local[k].at /\ d.dirty = local[k].dirty /\ d.cols = local[k].cols
    BY <2>1 DEF LocalRows
  <2>3. local' = [local EXCEPT ![k] = r] /\ TableOf[k] = "sessions" /\ local[k].status # "deleted"
    BY <1>1, <1>3 DEF UserDeletes
  <2>4. local[k].status = "created" <=> local[k].sid = None
    BY <2>1 DEF SyncInv, Known
  <2>5. r \in LocalRows \cup {None} /\ (r # None => r = d /\ local[k].sid # None)
        /\ (local[k].sid # None => r # None)
    BY <2>1, <2>2, <2>4, Distinguished
  <2> HIDE DEF d, r
  <2> QED
    BY <1>3, <2>1, <2>2, <2>3, <2>4, <2>5 DEF UserDeletes
<1>4. ASSUME NEW c \in Cols, UserEdits(k, c)
      PROVE  \E r \in LocalRows :
               /\ local' = [local EXCEPT ![k] = r] /\ r.sid = local[k].sid /\ r.at = clock + 1
               /\ r.status = IF local[k].status = "created" THEN "created" ELSE "updated"
  <2> DEFINE st == IF local[k].status = "created" THEN "created" ELSE "updated"
             d == [local[k] EXCEPT !.status = st,
                     !.cols[c] = clock + 1, !.dirty = @ \cup {c}, !.at = clock + 1]
  <2>1. local[k] \in LocalRows /\ local[k] # None
    BY <1>1, <1>4 DEF UserEdits
  <2>2. local[k].cols \in [Cols -> Nat] /\ local[k].dirty \subseteq Cols
    BY <2>1 DEF LocalRows
  <2>3. d \in LocalRows /\ d.status = st /\ d.sid = local[k].sid /\ d.at = clock + 1
    BY <1>1, <2>1, <2>2 DEF LocalRows
  <2>4. local' = [local EXCEPT ![k] = d]
    BY <1>1, <1>4, <2>1 DEF UserEdits, LocalRows
  <2> HIDE DEF d
  <2> QED
    BY <2>3, <2>4
<1>5. CASE \E c \in Cols : UserEdits(k, c)
  <2>1. local[k] # None /\ local[k].status # "deleted" /\ TableOf[k] = "sessions" /\ MayWrite /\ clock' = clock + 1
        /\ UNCHANGED <<cursor, phase, syncVars, serverVars, seen, astray>>
    BY <1>5 DEF UserEdits
  <2>2. local[k].status = "created" <=> local[k].sid = None
    BY <2>1 DEF SyncInv, Known
  <2> QED
    BY <1>4, <1>5, <2>1, <2>2, Distinguished
<1> QED
  BY <1>2, <1>3, <1>5

\* Nobody but this device's own sync gives a local row a server id.
LEMMA UserInv ==
  ASSUME SyncInv, NEW k \in Keys,
         (k \in Lids /\ UserCreates(k)) \/ UserDeletes(k) \/ \E c \in Cols : UserEdits(k, c)
  PROVE  SyncInv'
<1>1. UNCHANGED <<cursor, phase, syncVars, serverVars, seen, astray>> /\ clock' = clock + 1
  BY UserFacts
<1>2. PICK r \in LocalRows \cup {None} :
        /\ local' = [local EXCEPT ![k] = r]
        /\ r # None => /\ r.status = "created" <=> r.sid = None
                       /\ r.sid # None => local[k] # None /\ r.sid = local[k].sid
  BY UserFacts
<1>3. TypeOK'
  BY <1>1, <1>2 DEF SyncInv, TypeOK, syncVars, serverVars
<1>4. Known' /\ OneKey'
  BY <1>1, <1>2, <1>3 DEF SyncInv, TypeOK, Known, OneKey, serverVars
<1>5. AcksRight'
  <2>1. \A a \in acks : a.sid \in Sids /\ a.sid # None
    BY FieldTypes, Distinguished DEF SyncInv, Keys
  <2> QED
    BY <1>1, <1>2, <2>1 DEF SyncInv, TypeOK, AcksRight, syncVars, serverVars
<1> QED
  BY <1>1, <1>3, <1>4, <1>5 DEF SyncInv, syncVars, serverVars, CursorCovers, Versions, Leftovers, Applying, Pushing,
     Acking, Covers

LEMMA ForeignFacts ==
  ASSUME SyncInv, NEW s \in Sids, ForeignWrites(s)
  PROVE  \E r \in ServerRows :
           /\ server' = [server EXCEPT ![s] = r] /\ r.ver = sver + 1
           /\ server[s] # None => r.origin = server[s].origin
           /\ server[s] = None => r.origin = None
           /\ \A c \in Cols : r.cols[c] = clock + 1 \/ (server[s] # None /\ r.cols[c] = server[s].cols[c])
           /\ r.at = clock + 1 \/ (server[s] # None /\ r.at = server[s].at)
<1> DEFINE r == server'[s]
<1>1. sver' = sver + 1
  BY DEF ForeignWrites
<1>2. /\ server' = [server EXCEPT ![s] = r] /\ r \in ServerRows /\ r.ver = sver + 1
      /\ server[s] # None => r.origin = server[s].origin
      /\ server[s] = None => r.origin = None
      /\ \A c \in Cols : r.cols[c] = clock + 1 \/ (server[s] # None /\ r.cols[c] = server[s].cols[c])
      /\ r.at = clock + 1 \/ (server[s] # None /\ r.at = server[s].at)
  <2>1. clock + 1 \in Nat /\ sver \in Nat /\ server \in [Sids -> ServerRows \cup {None}]
    BY DEF SyncInv, TypeOK
  <2>2. server[s] # None => /\ server[s] \in ServerRows /\ server[s].cols \in [Cols -> Nat]
                            /\ server[s].origin \in Keys \cup {None}
    BY FieldTypes DEF SyncInv
  <2>3. CASE server' = [server EXCEPT ![s] = ServerRow([c \in Cols |-> clock + 1], clock + 1, None)]
             /\ server[s] = None
    BY <2>1, <2>3, ServerRowType
  <2>4. ASSUME NEW c \in Cols, server[s] # None,
               server' = [server EXCEPT ![s] = ServerRow([@.cols EXCEPT ![c] = clock + 1], clock + 1, @.origin)]
        PROVE  <1>2
    <3>1. [server[s].cols EXCEPT ![c] = clock + 1] \in [Cols -> Nat]
      BY <2>1, <2>2, <2>4
    <3> QED
      BY <2>1, <2>2, <2>4, <3>1, ServerRowType
  <2>5. ASSUME server[s] # None, server' = [server EXCEPT ![s].dead = TRUE, ![s].ver = sver + 1]
        PROVE  <1>2
    <3> DEFINE n == sver + 1
               d == [server[s] EXCEPT !.dead = TRUE, !.ver = n]
    <3>0. n \in Nat \ {0} /\ server[s] \in ServerRows
      BY <2>1, <2>2, <2>5
    <3> HIDE DEF n
    <3>1. d \in ServerRows /\ d.ver = n /\ d.origin = server[s].origin /\ d.cols = server[s].cols
          /\ d.at = server[s].at
      BY <3>0 DEF ServerRows
    <3>2. server' = [server EXCEPT ![s] = d]
      BY <2>1, <2>2, <2>5 DEF ServerRows, n
    <3> HIDE DEF d
    <3>3. r = d
      BY <2>1, <3>2
    <3> QED
      BY <2>5, <3>1, <3>2, <3>3 DEF n
  <2> QED
    BY <2>3, <2>4, <2>5 DEF ForeignWrites
<1> QED
  BY <1>2

\* Another device's write gets a version nobody has asked for yet.
LEMMA ForeignInv ==
  ASSUME SyncInv, NEW s \in Sids, ForeignWrites(s)
  PROVE  SyncInv'
<1>1. UNCHANGED <<local, cursor, phase, syncVars, seen, astray>> /\ clock' = clock + 1 /\ sver' = sver + 1
  BY DEF ForeignWrites
<1>2. PICK r \in ServerRows :
        /\ server' = [server EXCEPT ![s] = r] /\ r.ver = sver + 1
        /\ server[s] # None => r.origin = server[s].origin
  BY ForeignFacts
<1>3. r # None /\ sver \in Nat /\ cursor \in Nat /\ pullTs \in Nat /\ resTs \in Nat
  BY <1>2, Distinguished DEF SyncInv, TypeOK
<1>4. \A q \in Sids : server[q] # None => server[q].ver \in Nat
  BY FieldTypes DEF SyncInv
<1>5. TypeOK'
  BY <1>1, <1>2, <1>3 DEF SyncInv, TypeOK, syncVars
<1>6. CursorCovers' /\ Versions'
  BY <1>1, <1>2, <1>3, <1>4 DEF SyncInv, TypeOK, CursorCovers, Versions, syncVars
<1>7. Known' /\ OneKey' /\ Leftovers'
  BY <1>1, <1>2, <1>3 DEF SyncInv, TypeOK, Known, OneKey, Leftovers, syncVars
<1>8. Applying' /\ Pushing' /\ Acking'
  BY <1>1, <1>2, <1>3, <1>4 DEF SyncInv, TypeOK, Versions, Applying, Pushing, Acking, Covers, syncVars
<1>9. AcksRight'
  <2>1. \A a \in acks : a.sid \in Sids /\ a.ver \in Nat
    BY FieldTypes DEF SyncInv
  <2> QED
    BY <1>1, <1>2, <1>3, <1>4, <2>1 DEF SyncInv, TypeOK, Versions, AcksRight, syncVars
<1> QED
  BY <1>5, <1>6, <1>7, <1>8, <1>9 DEF SyncInv

\* A sync begins with everything the server has beyond the cursor.
LEMMA PullInv ==
  ASSUME SyncInv, Pull
  PROVE  SyncInv'
<1>1. /\ phase = "idle" /\ phase' = "apply" /\ pullTs' = sver
      /\ todo' = {s \in Sids : server[s] # None /\ server[s].ver > cursor}
      /\ pulled' = [s \in Sids |-> IF s \in todo' THEN server[s] ELSE None]
      /\ UNCHANGED <<local, cursor, found, payload, acks, resTs, worldVars, seen, astray>>
  BY DEF Pull
<1>2. \A q \in Sids : server[q] # None => server[q].ver \in Nat
  BY FieldTypes DEF SyncInv
<1>3. TypeOK' /\ Versions'
  BY <1>1 DEF SyncInv, TypeOK, Versions, Leftovers, worldVars, serverVars
<1>4. Applying'
  BY <1>1, <1>2 DEF SyncInv, TypeOK, Versions, CursorCovers, Applying, worldVars, serverVars
<1> QED
  BY <1>1, <1>3, <1>4 DEF SyncInv, CursorCovers, Known, OneKey, Leftovers, Pushing, Acking, AcksRight,
     worldVars, serverVars

\* The phases in which nothing is dealt with.
LEMMA QuietInv ==
  ASSUME SyncInv, Fail \/ AdvanceCursor \/ Finish \/ Collect \/ \E s \in Sids : Find(s)
  PROVE  SyncInv'
<1> USE DEF worldVars, serverVars
<1>1. CASE Fail
  <2>1. TypeOK'
    BY <1>1 DEF Fail, SyncInv, TypeOK
  <2> QED
    BY <1>1, <2>1 DEF Fail, SyncInv, TypeOK, CursorCovers, Versions, Known, OneKey, Leftovers, Applying, Pushing,
       Acking, AcksRight
<1>2. CASE AdvanceCursor
  <2>1. TypeOK'
    BY <1>2 DEF AdvanceCursor, SyncInv, TypeOK
  <2>2. CursorCovers' /\ Pushing' /\ Versions'
    BY <1>2 DEF AdvanceCursor, AllApplied, SyncInv, TypeOK, CursorCovers, Applying, Pushing, Covers, Versions
  <2> QED
    BY <1>2, <2>1, <2>2 DEF AdvanceCursor, SyncInv, Known, OneKey, Leftovers, Applying, Acking, AcksRight
<1>3. CASE Finish
  <2>1. TypeOK'
    BY <1>3 DEF Finish, SyncInv, TypeOK
  <2>2. CursorCovers' /\ Versions'
    BY <1>3 DEF Finish, SyncInv, TypeOK, CursorCovers, Acking, Versions
  <2> QED
    BY <1>3, <2>1, <2>2 DEF Finish, SyncInv, Known, OneKey, Leftovers, Applying, Pushing, Acking, AcksRight
<1>4. CASE Collect
  <2>1. Outgoing \subseteq Items /\ \A i \in Outgoing : i.op # "create" => i.sid \in Sids /\ server[i.sid] # None
    <3> SUFFICES ASSUME NEW k \in Keys, local[k] # None, local[k].status # "synced",
                        local[k].status = "created" \/ local[k].sid # None
                 PROVE  /\ Item(k) \in Items
                        /\ Item(k).op # "create" => Item(k).sid \in Sids /\ server[Item(k).sid] # None
      BY DEF Outgoing
    <3>1. /\ local[k].sid \in Sids \cup {None} /\ local[k].cols \in [Cols -> Nat] /\ local[k].at \in Nat
          /\ local[k].status \in {"created", "updated", "deleted"}
      BY FieldTypes DEF SyncInv
    <3>2. local[k].sid # None => server[local[k].sid] # None
      BY DEF SyncInv, Known
    <3> QED
      BY <3>1, <3>2 DEF Item, Items
  <2>2. payload' = Outgoing /\ phase = "collect" /\ phase' \in {"ack", "push"} /\ resTs' = pullTs
        /\ UNCHANGED <<local, cursor, pulled, pullTs, todo, found, acks, worldVars, seen, astray>>
    BY <1>4 DEF Collect, Cleared
  <2>3. TypeOK'
    BY <2>1, <2>2 DEF SyncInv, TypeOK, Items
  <2>4. Leftovers' /\ Acking'
    BY <2>1, <2>2 DEF SyncInv, Leftovers, Acking, Pushing, Covers
  <2> QED
    BY <2>2, <2>3, <2>4 DEF SyncInv, CursorCovers, Versions, Known, OneKey, Leftovers, Applying, Pushing, Covers,
       AcksRight
<1>5. ASSUME NEW s \in Sids, Find(s) PROVE SyncInv'
  <2>1. local[KeyFor(s)] \in LocalRows \cup {None}
    BY KeyForFacts DEF SyncInv, TypeOK
  <2>2. TypeOK'
    BY <1>5, <2>1 DEF Find, SyncInv, TypeOK
  <2> QED
    BY <1>5, <2>2 DEF Find, SyncInv, CursorCovers, Versions, Known, OneKey, Leftovers, Applying, Pushing, Covers,
       Acking, AcksRight
<1> QED
  BY <1>1, <1>2, <1>3, <1>4, <1>5

\* A pulled change counts as dealt with once its row is written, or removed.
LEMMA AppliedInv ==
  ASSUME SyncInv, NEW s \in todo, phase = "apply", TypeOK',
         todo' = todo \ {s}, found' = None, seen' = [seen EXCEPT ![s] = pulled[s].ver],
         Known', OneKey',
         UNCHANGED <<cursor, phase, pulled, pullTs, payload, acks, resTs, worldVars>>
  PROVE  SyncInv'
<1> USE DEF worldVars, serverVars
<1>1. s \in Sids /\ acks = {} /\ cursor <= pullTs
  BY DEF SyncInv, TypeOK, Leftovers, Applying
<1>2. Applying'
  BY <1>1 DEF SyncInv, TypeOK, Applying
<1>3. \A q \in Sids : server[q] # None => server[q].ver \in Nat
  BY FieldTypes DEF SyncInv
<1>4. CursorCovers'
  BY <1>1, <1>3 DEF SyncInv, TypeOK, Applying, CursorCovers
<1> QED
  BY <1>1, <1>2, <1>4 DEF SyncInv, Versions, Leftovers, Pushing, Acking, AcksRight

LEMMA ApplyFoundInv ==
  ASSUME SyncInv, ApplyFound
  PROVE  SyncInv'
<1> DEFINE s == found.sid
           srv == pulled[s]
           how == IF found.row = None THEN "use_server" ELSE Resolve(TableOf[s], found.row, srv)
           dirty == IF how = "merge_fields" THEN found.row.dirty ELSE {}
           cols == [c \in Cols |-> IF c \in dirty THEN found.row.cols[c] ELSE srv.cols[c]]
           r == Row("synced", s, cols, {}, srv.at)
<1>1. /\ phase = "apply" /\ found # None
      /\ local' = IF how = "use_local" THEN local ELSE [local EXCEPT ![KeyFor(s)] = r]
      /\ todo' = todo \ {s} /\ found' = None /\ seen' = [seen EXCEPT ![s] = pulled[s].ver]
      /\ astray' \subseteq astray \cup {s}
      /\ UNCHANGED <<cursor, phase, pulled, pullTs, payload, acks, resTs, worldVars>>
  BY DEF ApplyFound
<1>2. s \in todo /\ s \in Sids /\ found.row \in LocalRows \cup {None}
  BY <1>1 DEF SyncInv, TypeOK
<1>3. srv \in ServerRows /\ srv.ver \in Nat \ {0} /\ srv.cols \in [Cols -> Nat] /\ srv.at \in Nat
      /\ server[s] # None /\ s # None
  BY <1>1, <1>2, FieldTypes, Distinguished DEF SyncInv, Applying, Keys
<1>4. r \in LocalRows /\ r.status = "synced" /\ r.sid = s
  <2>1. found.row # None => found.row.cols \in [Cols -> Nat]
    BY <1>2 DEF LocalRows
  <2>2. found.row = None => dirty = {}
    OBVIOUS
  <2>3. cols \in [Cols -> Nat]
    BY <1>3, <2>1, <2>2
  <2> HIDE DEF cols, srv, s
  <2> QED
    BY <1>2, <1>3, <2>3, RowType
<1> HIDE DEF r, how, srv, s
<1>5. /\ KeyFor(s) \in Keys /\ \A k \in Keys : local[k] # None /\ local[k].sid = s => KeysOf(s) # {}
      /\ KeysOf(s) # {} => local[KeyFor(s)] # None /\ local[KeyFor(s)].sid = s
  BY <1>2, KeyForFacts DEF KeysOf
<1>6. TypeOK'
  BY <1>1, <1>2, <1>3, <1>4, <1>5 DEF SyncInv, TypeOK, worldVars, serverVars, srv
<1>7. Known'
  BY <1>1, <1>3, <1>4, <1>5 DEF SyncInv, TypeOK, Known, worldVars, serverVars
<1>8. OneKey'
  BY <1>1, <1>3, <1>4, <1>5 DEF SyncInv, TypeOK, OneKey
<1> QED
  BY <1>1, <1>2, <1>6, <1>7, <1>8, AppliedInv

LEMMA WithoutFacts ==
  ASSUME SyncInv, NEW s \in Sids
  PROVE  /\ Without(s) \in [Keys -> LocalRows \cup {None}]
         /\ \A k \in Keys : Without(s)[k] # None => Without(s)[k] = local[k]
         /\ \A k \in Keys : local[k] # None /\ local[k].sid # s => Without(s)[k] = local[k]
  BY DEF SyncInv, TypeOK, Without, KeysOf

LEMMA ApplyTombstoneInv ==
  ASSUME SyncInv, NEW s \in Sids, ApplyTombstone(s)
  PROVE  SyncInv'
<1>1. /\ phase = "apply" /\ s \in todo /\ local' = Without(s) /\ found = None /\ found' = None
      /\ todo' = todo \ {s} /\ seen' = [seen EXCEPT ![s] = pulled[s].ver] /\ astray' = astray \ {s}
      /\ UNCHANGED <<cursor, phase, pulled, pullTs, payload, acks, resTs, worldVars>>
  BY DEF ApplyTombstone
<1>2. pulled[s].ver \in Nat
  BY <1>1, FieldTypes DEF SyncInv, Applying
<1>3. TypeOK'
  BY <1>1, <1>2, WithoutFacts DEF SyncInv, TypeOK, worldVars, serverVars
<1>4. Known' /\ OneKey'
  BY <1>1, WithoutFacts DEF SyncInv, Known, OneKey, worldVars, serverVars
<1> QED
  BY <1>1, <1>3, <1>4, AppliedInv

\* What the server makes of the pushed rows.
LEMMA StoredFacts ==
  ASSUME SyncInv, NEW acc \in SUBSET payload, NEW ids \in Issues(acc)
  PROVE  /\ Stored(acc, ids) \in [Sids -> ServerRows \cup {None}]
         /\ \A s \in Sids : server[s] # None => Stored(acc, ids)[s] # None
         /\ \A s \in Sids : Stored(acc, ids)[s] # server[s] =>
              /\ acc # {} /\ Stored(acc, ids)[s] # None /\ Stored(acc, ids)[s].ver = sver + 1
              /\ \/ \E i \in DOMAIN ids : ids[i] = s
                 \/ \E i \in acc : i.op # "create" /\ i.sid = s
         /\ \A i \in DOMAIN ids : /\ i \in acc /\ i.op = "create" /\ ids[i] \in Sids /\ server[ids[i]] = None
                                  /\ Stored(acc, ids)[ids[i]] # None /\ Stored(acc, ids)[ids[i]].ver = sver + 1
                                  /\ Stored(acc, ids)[ids[i]].origin = i.key
         /\ \A i \in acc : i.op # "create" => Stored(acc, ids)[i.sid] # None /\ Stored(acc, ids)[i.sid].ver = sver + 1
         /\ \A s \in Sids : server[s] # None => Stored(acc, ids)[s].origin = server[s].origin
<1>1. /\ DOMAIN ids = {i \in acc : i.op = "create"} /\ \A i \in DOMAIN ids : ids[i] \in Sids /\ server[ids[i]] = None
      /\ \A i, j \in DOMAIN ids : ids[i] = ids[j] => i = j
  BY DEF Issues
<1>2. \A i \in acc : /\ i.cols \in [Cols -> Nat] /\ i.at \in Nat /\ i.key \in Keys
                     /\ i.op # "create" => i.sid \in Sids /\ server[i.sid] # None
  BY FieldTypes DEF SyncInv, Leftovers
<1>3. sver \in Nat /\ server \in [Sids -> ServerRows \cup {None}] /\ sver + 1 \in Nat \ {0}
  BY DEF SyncInv, TypeOK
<1>4. \A s \in Sids : server[s] # None => server[s] \in ServerRows /\ server[s].origin \in Keys \cup {None}
  BY FieldTypes DEF SyncInv
<1>5. ASSUME NEW i \in DOMAIN ids
      PROVE  Stored(acc, ids)[ids[i]] = ServerRow(i.cols, i.at, i.key)
  <2>1. (CHOOSE j \in DOMAIN ids : ids[j] = ids[i]) = i
    BY <1>1
  <2> QED
    BY <1>1, <2>1 DEF Stored
<1>6. ASSUME NEW i \in DOMAIN ids
      PROVE  /\ ServerRow(i.cols, i.at, i.key) \in ServerRows /\ ServerRow(i.cols, i.at, i.key).ver = sver + 1
             /\ ServerRow(i.cols, i.at, i.key).origin = i.key
  BY <1>1, <1>2, <1>3, ServerRowType
<1>7. ASSUME NEW s \in Sids, NEW i \in acc, i.op # "create", i.sid = s
      PROVE  /\ Stored(acc, ids)[s] \in ServerRows /\ Stored(acc, ids)[s].ver = sver + 1
             /\ Stored(acc, ids)[s].origin = server[s].origin
  <2>1. server[s] # None /\ ~\E j \in DOMAIN ids : ids[j] = s
    BY <1>1, <1>2, <1>7
  <2>2. PICK j \in acc : /\ j.op # "create" /\ j.sid = s
                         /\ Stored(acc, ids)[s] = IF j.op = "delete" THEN [server[s] EXCEPT !.dead = TRUE, !.ver = sver + 1]
                                                   ELSE ServerRow(j.cols, j.at, server[s].origin)
    BY <1>7, <2>1 DEF Stored
  <2>3. /\ ServerRow(j.cols, j.at, server[s].origin) \in ServerRows
        /\ ServerRow(j.cols, j.at, server[s].origin).ver = sver + 1
        /\ ServerRow(j.cols, j.at, server[s].origin).origin = server[s].origin
    BY <1>2, <1>3, <1>4, <2>1, ServerRowType
  <2> DEFINE n == sver + 1
             d == [server[s] EXCEPT !.dead = TRUE, !.ver = n]
  <2>4. n \in Nat \ {0} /\ server[s] \in ServerRows
    BY <1>3, <1>4, <2>1
  <2> HIDE DEF n
  <2>5. d \in ServerRows /\ d.ver = n /\ d.origin = server[s].origin
    BY <2>4 DEF ServerRows
  <2> QED
    BY <2>2, <2>3, <2>5 DEF n
<1>8. ASSUME NEW s \in Sids, ~\E i \in DOMAIN ids : ids[i] = s, ~\E i \in acc : i.op # "create" /\ i.sid = s
      PROVE  Stored(acc, ids)[s] = server[s]
  BY <1>8 DEF Stored
<1>9. Stored(acc, ids) = [s \in Sids |-> Stored(acc, ids)[s]]
  BY DEF Stored
<1> DEFINE st == Stored(acc, ids)
<1> HIDE DEF st
<1>10. \A s \in Sids : /\ st[s] \in ServerRows \cup {None}
                       /\ st[s] # server[s] => /\ st[s] # None /\ st[s].ver = sver + 1 /\ acc # {}
                                               /\ \/ \E i \in DOMAIN ids : ids[i] = s
                                                  \/ \E i \in acc : i.op # "create" /\ i.sid = s
  <2> TAKE s \in Sids
  <2>1. CASE \E i \in DOMAIN ids : ids[i] = s
    BY <1>1, <1>5, <1>6, <2>1, Distinguished DEF st
  <2>2. CASE \E i \in acc : i.op # "create" /\ i.sid = s
    BY <1>7, <2>2, Distinguished DEF st
  <2> QED
    BY <1>3, <1>8, <2>1, <2>2 DEF st
<1>11. st \in [Sids -> ServerRows \cup {None}]
  BY <1>9, <1>10 DEF st
<1>12. \A i \in DOMAIN ids : /\ i \in acc /\ i.op = "create" /\ ids[i] \in Sids /\ server[ids[i]] = None
                             /\ st[ids[i]] # None /\ st[ids[i]].ver = sver + 1 /\ st[ids[i]].origin = i.key
  BY <1>1, <1>5, <1>6, Distinguished DEF st
<1>13. \A i \in acc : i.op # "create" => st[i.sid] # None /\ st[i.sid].ver = sver + 1
  BY <1>2, <1>7, Distinguished DEF st
<1>14. \A s \in Sids : server[s] # None => st[s].origin = server[s].origin
  BY <1>1, <1>7, <1>8 DEF st
<1> QED
  BY <1>10, <1>11, <1>12, <1>13, <1>14 DEF st

\* What is acknowledged, and that everything the server stored is.
LEMMA AcksFacts ==
  ASSUME SyncInv, NEW acc \in SUBSET payload, NEW ids \in Issues(acc)
  PROVE  /\ \A a \in Acks(acc, ids) :
              /\ a \in Receipts
              /\ a.op = "create" => \E i \in DOMAIN ids : /\ a.sid = ids[i] /\ a.key = i.key /\ a.cols = i.cols
                                                           /\ a.ver = sver + 1
              /\ a.op # "create" => \E i \in payload : /\ a.op = i.op /\ a.key = i.key /\ a.sid = i.sid /\ a.cols = i.cols
                                                       /\ a.ver = IF i \in acc THEN sver + 1 ELSE 0
         /\ \A a, b \in Acks(acc, ids) : a.op = "create" /\ b.op = "create" /\ a.sid = b.sid => a = b
         /\ \A i \in DOMAIN ids : \E a \in Acks(acc, ids) :
              a.op = "create" /\ a.key = i.key /\ a.sid = ids[i] /\ a.ver = sver + 1
         /\ \A i \in acc : i.op # "create" =>
              \E a \in Acks(acc, ids) : a.sid = i.sid /\ a.ver = sver + 1
<1> DEFINE C(i) == [op |-> "create", key |-> i.key, cols |-> i.cols, sid |-> ids[i], ver |-> sver + 1]
           U(i) == [op |-> i.op, key |-> i.key, cols |-> i.cols, sid |-> i.sid,
                     ver |-> IF i \in acc THEN sver + 1 ELSE 0]
<1>1. /\ \A i \in DOMAIN ids : i \in acc /\ i.op = "create" /\ ids[i] \in Sids
      /\ \A i, j \in DOMAIN ids : ids[i] = ids[j] => i = j
  BY DEF Issues
<1>2. \A i \in payload : /\ i.op \in {"create", "update", "delete"} /\ i.key \in Keys
                         /\ i.op # "create" => i.sid \in Sids
                         /\ i.cols \in [Cols -> Nat]
  BY FieldTypes DEF SyncInv, Leftovers
<1>3. sver + 1 \in Nat
  BY DEF SyncInv, TypeOK
<1>4. \A a : a \in Acks(acc, ids) <=> \/ \E i \in DOMAIN ids : a = C(i)
                                     \/ \E i \in payload : i.op # "create" /\ a = U(i)
  BY DEF Acks
<1>5. \A i \in DOMAIN ids : /\ C(i) \in Receipts
                            /\ C(i).op = "create" /\ C(i).sid = ids[i] /\ C(i).key = i.key /\ C(i).ver = sver + 1
                            /\ C(i).cols = i.cols
  BY <1>1, <1>2, <1>3 DEF Receipts
<1>6. \A i \in payload : i.op # "create" =>
        /\ U(i) \in Receipts
        /\ U(i).op = i.op /\ U(i).key = i.key /\ U(i).sid = i.sid /\ U(i).ver = IF i \in acc THEN sver + 1 ELSE 0
        /\ U(i).cols = i.cols
  BY <1>2, <1>3 DEF Receipts
<1> HIDE DEF C, U
<1> QED
  BY <1>1, <1>4, <1>5, <1>6

LEMMA PushInv ==
  ASSUME SyncInv, Push
  PROVE  SyncInv'
<1>1. PICK acc \in SUBSET {i \in payload : ~Conflicting(i)} : \E ids \in Issues(acc) :
        /\ server' = Stored(acc, ids) /\ acks' = Acks(acc, ids)
        /\ sver' = IF acc = {} THEN sver ELSE sver + 1
  BY DEF Push
<1>2. PICK ids \in Issues(acc) :
        /\ server' = Stored(acc, ids) /\ acks' = Acks(acc, ids)
        /\ sver' = IF acc = {} THEN sver ELSE sver + 1
  BY <1>1
<1>3. acc \in SUBSET payload
  OBVIOUS
<1>4. /\ phase = "push" /\ phase' = "ack" /\ payload' = {} /\ resTs' = IF sver = pullTs THEN sver' ELSE pullTs
      /\ UNCHANGED <<local, cursor, pulled, pullTs, todo, found, clock, seen, astray>>
  BY DEF Push
<1>5. {sver, sver', pullTs, resTs', cursor} \subseteq Nat /\ sver <= sver' /\ resTs' <= sver'
      /\ cursor <= pullTs /\ pullTs <= sver /\ cursor <= resTs' /\ resTs' <= sver + 1
  BY <1>2, <1>4 DEF SyncInv, TypeOK, Versions, Pushing
<1>6. \A s \in Sids : server[s] # None => server[s].ver \in Nat /\ server[s].ver <= sver
  BY FieldTypes DEF SyncInv, Versions
<1>7. /\ server' \in [Sids -> ServerRows \cup {None}]
      /\ \A s \in Sids : server[s] # None => server'[s] # None
      /\ \A s \in Sids : server'[s] # server[s] =>
           /\ acc # {} /\ server'[s].ver = sver + 1 /\ \E a \in acks' : a.sid = s /\ a.ver = sver + 1
  BY <1>2, <1>3, StoredFacts, AcksFacts
<1>8. TypeOK'
  <2>1. acks' \subseteq Receipts
    BY <1>2, <1>3, AcksFacts
  <2> QED
    BY <1>4, <1>5, <1>7, <2>1 DEF SyncInv, TypeOK, Receipts
<1>9. CursorCovers' /\ Versions'
  BY <1>2, <1>4, <1>5, <1>6, <1>7 DEF SyncInv, Versions, CursorCovers
<1>10. Known' /\ OneKey' /\ Leftovers' /\ Applying' /\ Pushing'
  BY <1>4, <1>7, FieldTypes DEF SyncInv, Known, OneKey, Leftovers, Applying, Pushing
<1>11. Acking'
  <2> SUFFICES ASSUME NEW s \in Sids, server'[s] # None, server'[s].ver <= resTs'
               PROVE  seen[s] = server'[s].ver \/ \E a \in acks' : a.sid = s /\ a.ver = server'[s].ver
    BY <1>4, <1>5 DEF Acking
  <2>1. CASE server'[s] # server[s]
    BY <1>7, <2>1
  <2>2. CASE server'[s] = server[s]
    <3>1. server[s].ver <= pullTs
      BY <1>4, <1>5, <1>6, <2>2
    <3> QED
      BY <1>4, <2>2, <3>1 DEF SyncInv, Pushing, Covers
  <2> QED
    BY <2>1, <2>2
<1>12. AcksRight'
  <2>1. ASSUME NEW a \in acks', a.op = "create"
        PROVE  /\ server'[a.sid] # None /\ server'[a.sid].ver = a.ver /\ a.ver = sver + 1
               /\ server'[a.sid].origin = a.key /\ \A k \in Keys : local[k] # None => local[k].sid # a.sid
    <3>1. PICK i \in DOMAIN ids : a.sid = ids[i] /\ a.key = i.key /\ a.ver = sver + 1
      BY <1>2, <1>3, <2>1, AcksFacts
    <3>2. /\ ids[i] \in Sids /\ server[ids[i]] = None /\ server'[ids[i]] # None /\ server'[ids[i]].ver = sver + 1
          /\ server'[ids[i]].origin = i.key
      BY <1>2, <1>3, StoredFacts
    <3> QED
      BY <3>1, <3>2, Distinguished DEF SyncInv, Known, Keys
  <2>2. ASSUME NEW a \in acks', a.op # "create"
        PROVE  server'[a.sid] # None /\ (a.ver > 0 => a.ver = sver + 1 /\ server'[a.sid].ver = a.ver)
    <3>1. PICK i \in payload : i.op # "create" /\ a.sid = i.sid /\ a.ver = IF i \in acc THEN sver + 1 ELSE 0
      BY <1>2, <1>3, <2>2, AcksFacts
    <3>2. i.sid \in Sids /\ server[i.sid] # None
      BY <3>1 DEF SyncInv, Leftovers
    <3>3. i \in acc => server'[i.sid].ver = sver + 1
      BY <1>2, <1>3, <3>1, StoredFacts
    <3> QED
      BY <1>7, <3>1, <3>2, <3>3
  <2>3. \A a, b \in acks' : a.op = "create" /\ b.op = "create" /\ a.sid = b.sid => a = b
    BY <1>2, <1>3, AcksFacts
  <2> QED
    BY <1>4, <1>5, <2>1, <2>2, <2>3 DEF AcksRight
<1> QED
  BY <1>8, <1>9, <1>10, <1>11, <1>12 DEF SyncInv

\* Acknowledging writes the server id on the row it was issued for, marks a row
\* synced, or removes a row; the rest of the acknowledgements still hold.
LEMMA AcknowledgeInv ==
  ASSUME SyncInv, NEW a \in acks, Acknowledge(a)
  PROVE  SyncInv'
<1>1. /\ phase = "ack" /\ acks' = acks \ {a}
      /\ seen' = [seen EXCEPT ![a.sid] = IF a.ver > 0 THEN a.ver ELSE @]
      /\ astray' \subseteq astray \cup {a.sid}
      /\ UNCHANGED <<cursor, phase, pulled, pullTs, todo, found, payload, resTs, worldVars>>
  BY DEF Acknowledge
<1>2. /\ a.key \in Keys /\ a.sid \in Sids /\ a.sid # None /\ a.ver \in Nat
      /\ a.op \in {"create", "update", "delete"} /\ server[a.sid] # None
  BY FieldTypes, Distinguished DEF SyncInv, AcksRight, Keys
\* One row becomes synced under the acknowledged id, or some rows go.
<1>3. \/ UNCHANGED local
      \/ local' = Without(a.sid)
      \/ \E k \in Keys : \E r \in LocalRows :
           /\ local' = [local EXCEPT ![k] = r] /\ local[k] # None /\ r.status = "synced" /\ r.sid = a.sid
           /\ a.op = "create" \/ local[k].sid = a.sid
  <2> DEFINE New(k) == Accepted(local[k], a.sid)
  <2>1. ASSUME NEW k \in Keys, local[k] # None
        PROVE  New(k) \in LocalRows /\ New(k).status = "synced" /\ New(k).sid = a.sid
    <3>1. local[k] \in LocalRows
      BY <2>1, FieldTypes DEF SyncInv
    <3> QED
      BY <1>2, <3>1 DEF Accepted, LocalRows
  <2>2. CASE a.op = "create" /\ local[a.key] # None
    <3>1. local' = [local EXCEPT ![a.key] = New(a.key)]
      BY <2>2 DEF Acknowledge, Accepted, SyncInv, TypeOK
    <3> HIDE DEF New
    <3> QED
      BY <1>2, <2>1, <2>2, <3>1
  <2>3. CASE a.op = "update" /\ KeysOf(a.sid) # {}
    <3>1. KeyFor(a.sid) \in Keys /\ local[KeyFor(a.sid)] # None /\ local[KeyFor(a.sid)].sid = a.sid
      BY <1>2, <2>3, KeyForFacts
    <3>2. local' = [local EXCEPT ![KeyFor(a.sid)] = New(KeyFor(a.sid))]
      BY <2>3, <3>1 DEF Acknowledge, Accepted, SyncInv, TypeOK
    <3> HIDE DEF New
    <3> QED
      BY <2>1, <3>1, <3>2
  <2>4. CASE a.op = "delete"
    BY <2>4 DEF Acknowledge
  <2>5. CASE ~(a.op = "create" /\ local[a.key] # None) /\ ~(a.op = "update" /\ KeysOf(a.sid) # {}) /\ a.op # "delete"
    BY <2>5 DEF Acknowledge
  <2> QED
    BY <2>2, <2>3, <2>4, <2>5
<1>4. \A b \in acks : b.sid \in Sids /\ b.sid # None /\ b.ver \in Nat
  BY FieldTypes, Distinguished DEF SyncInv, Keys
<1>5. local' \in [Keys -> LocalRows \cup {None}] /\ Known' /\ OneKey'
      /\ \A b \in acks' : b.op = "create" => \A k \in Keys : local'[k] # None => local'[k].sid # b.sid
  <2> USE DEF worldVars, serverVars
  <2>1. CASE UNCHANGED local
    BY <1>1, <2>1 DEF SyncInv, TypeOK, Known, OneKey, AcksRight
  <2>2. CASE local' = Without(a.sid)
    BY <1>1, <1>2, <2>2, WithoutFacts DEF SyncInv, Known, OneKey, AcksRight
  <2>3. ASSUME NEW k \in Keys, NEW r \in LocalRows, local' = [local EXCEPT ![k] = r], local[k] # None,
               r.status = "synced", r.sid = a.sid, a.op = "create" \/ local[k].sid = a.sid
        PROVE  <1>5
    <3>1. local' \in [Keys -> LocalRows \cup {None}] /\ Known'
      BY <1>1, <1>2, <2>3 DEF SyncInv, TypeOK, Known
    <3>2. \A l \in Keys : l # k /\ local[l] # None => local[l].sid # a.sid
      BY <1>2, <2>3 DEF SyncInv, OneKey, AcksRight
    <3>3. OneKey'
      BY <2>3, <3>2 DEF SyncInv, TypeOK, OneKey
    <3>4. \A b \in acks' : b.op = "create" => \A l \in Keys : local'[l] # None => local'[l].sid # b.sid
      BY <1>1, <1>2, <2>3 DEF SyncInv, TypeOK, AcksRight
    <3> QED
      BY <3>1, <3>3, <3>4
  <2> QED
    BY <1>3, <2>1, <2>2, <2>3
<1>6. TypeOK'
  BY <1>1, <1>2, <1>5 DEF SyncInv, TypeOK, worldVars, serverVars
<1>7. \A s \in Sids : server[s] # None => server[s].ver \in Nat \ {0}
  BY FieldTypes DEF SyncInv
<1>8. \A s \in Sids : s = a.sid /\ a.ver > 0 /\ server[s] # None /\ server[s].ver <= resTs => server[s].ver = a.ver
  BY <1>2, <1>7 DEF SyncInv, TypeOK, AcksRight
<1>9. cursor \in Nat /\ resTs \in Nat /\ cursor <= resTs /\ seen \in [Sids -> Nat]
  BY <1>1 DEF SyncInv, TypeOK, Acking
<1>10. CursorCovers'
  BY <1>1, <1>2, <1>7, <1>8, <1>9 DEF SyncInv, CursorCovers, worldVars, serverVars
<1>11. Acking'
  BY <1>1, <1>2, <1>7, <1>8, <1>9 DEF SyncInv, Acking, worldVars, serverVars
<1>12. AcksRight'
  BY <1>1, <1>5 DEF SyncInv, AcksRight, worldVars, serverVars
<1> QED
  BY <1>1, <1>5, <1>6, <1>10, <1>11, <1>12 DEF SyncInv, Versions, Leftovers, Applying, Pushing, worldVars, serverVars

LEMMA StepInv == SyncInv /\ [Next]_vars => SyncInv'
<1> SUFFICES ASSUME SyncInv, [Next]_vars PROVE SyncInv'
  OBVIOUS
<1>1. CASE SyncStep
  BY <1>1, PullInv, ApplyFoundInv, ApplyTombstoneInv, PushInv, QuietInv, AcknowledgeInv DEF SyncStep
<1>2. CASE Fail
  BY <1>2, QuietInv
<1>3. CASE \E l \in Lids : UserCreates(l)
  BY <1>3, UserInv DEF Keys
<1>4. CASE \E k \in Keys : UserDeletes(k) \/ \E c \in Cols : UserEdits(k, c)
  BY <1>4, UserInv
<1>5. CASE \E s \in Sids : ForeignWrites(s)
  BY <1>5, ForeignInv
<1>6. CASE UNCHANGED vars
  BY <1>6 DEF SyncInv, TypeOK, CursorCovers, Versions, Known, OneKey, Leftovers, Applying, Pushing, Covers, Acking,
     AcksRight, vars, syncVars, serverVars, worldVars
<1> QED
  BY <1>1, <1>2, <1>3, <1>4, <1>5, <1>6 DEF Next

\* The sync invariant holds for every set of rows, tables and columns, whatever
\* is written while a sync runs, rejected by the server or cut off (syncOnce).
THEOREM SyncInvariant == Spec => []SyncInv
  BY InitInv, StepInv, PTL DEF Spec

\* The cursor never runs ahead of what this device has dealt with, and a server
\* row is stored once (syncOnce writes the cursor after the rows, upsertSynced
\* goes by the server id).
THEOREM SyncKeepsStoreSound == Spec => []StoreSound
<1>1. SyncInv => StoreSound
  <2> SUFFICES ASSUME SyncInv, NEW s \in Sids PROVE Cardinality(KeysOf(s)) <= 1
    BY DEF StoreSound, UniqueServerId, SyncInv
  <2>1. CASE KeysOf(s) = {}
    BY <2>1, FS_EmptySet DEF SyncInv
  <2>2. ASSUME NEW k \in KeysOf(s) PROVE Cardinality(KeysOf(s)) = 1
    <3>1. KeysOf(s) = {k}
      BY Distinguished DEF SyncInv, OneKey, KeysOf, Keys
    <3> QED
      BY <3>1, FS_Singleton
  <2> QED
    BY <2>1, <2>2 DEF SyncInv
<1> QED
  BY <1>1, SyncInvariant, PTL

\* A row created on this device waits for its push, or is on the server, or the
\* user removed it, wherever a sync stops (collectDirty, acceptCreate).
THEOREM CreatedNeverLost == Spec => CreateKept
<1> DEFINE Kept(l) == local[l] # None /\ local[l].status = "created" =>
             \/ local'[l] # None /\ local'[l].status = "created"
             \/ l \in erased'
             \/ \E s \in Sids : server[s] # None /\ server[s].origin = l
<1>1. ASSUME SyncInv, [Next]_vars, NEW l \in Lids PROVE Kept(l)
  <2> SUFFICES ASSUME local[l] # None, local[l].status = "created" PROVE Kept(l)
    OBVIOUS
  <2>1. /\ l \in Keys /\ l \notin Sids /\ local[l].sid = None
        /\ \A s \in Sids : s # None /\ l \notin KeysOf(s) /\ KeyFor(s) # l
    BY <1>1, KeyForFacts, SyncAssumption, Distinguished DEF SyncInv, Known, KeysOf, Keys
  <2>2. CASE UNCHANGED local
    BY <2>2
  <2>3. ASSUME NEW k \in Keys, (k \in Lids /\ UserCreates(k)) \/ UserDeletes(k) \/ \E c \in Cols : UserEdits(k, c)
        PROVE  Kept(l)
    <3>1. CASE UserCreates(k) \/ UserDeletes(k)
      BY <1>1, <2>1, <3>1 DEF UserCreates, UserDeletes, SyncInv, TypeOK
    <3>2. ASSUME NEW c \in Cols, UserEdits(k, c) PROVE Kept(l)
      <4>1. local[l] \in LocalRows
        BY <1>1, <2>1, FieldTypes DEF SyncInv
      <4> QED
        BY <1>1, <2>1, <3>2, <4>1, Distinguished DEF UserEdits, SyncInv, TypeOK, LocalRows
    <3> QED
      BY <2>3, <3>1, <3>2
  <2>4. CASE ApplyFound
    <3>1. found.sid \in Sids
      BY <1>1, <2>4 DEF ApplyFound, SyncInv, TypeOK
    <3> QED
      BY <1>1, <2>1, <2>4, <3>1 DEF ApplyFound, SyncInv, TypeOK
  <2>5. ASSUME NEW s \in Sids, local' = Without(s) PROVE Kept(l)
    BY <1>1, <2>1, <2>5, WithoutFacts
  <2>6. ASSUME NEW a \in acks, Acknowledge(a) PROVE Kept(l)
    <3>1. a.sid \in Sids /\ a.key \in Keys /\ server[a.sid] # None /\ (a.op = "create" => server[a.sid].origin = a.key)
      BY <1>1, FieldTypes DEF SyncInv, AcksRight
    <3>2. CASE a.op = "create"
      BY <1>1, <2>1, <2>6, <3>1, <3>2 DEF Acknowledge, SyncInv, TypeOK
    <3>3. CASE a.op = "update"
      BY <1>1, <2>1, <2>6, <3>1, <3>3 DEF Acknowledge, SyncInv, TypeOK
    <3>4. CASE a.op \notin {"create", "update"}
      BY <2>5, <2>6, <3>1, <3>4 DEF Acknowledge
    <3> QED
      BY <3>2, <3>3, <3>4
  <2>7. CASE Next
    BY <2>2, <2>3, <2>4, <2>5, <2>6, <2>7 DEF Next, SyncStep, Pull, Find, ApplyTombstone, AdvanceCursor, Collect, Cleared,
       Push, Finish, Fail, ForeignWrites, Keys
  <2> QED
    BY <1>1, <2>2, <2>7 DEF vars
<1>2. SyncInv /\ [Next]_vars => [\A l \in Lids : Kept(l)]_vars
  BY <1>1
<1> QED
  BY <1>2, SyncInvariant, PTL DEF Spec, CreateKept

LEMMA OnceStep ==
  ASSUME SyncInv, Once, CreatedOnce, [Next]_vars, "ack" \notin FailIn
  PROVE  Once' /\ CreatedOnce'
<1>0. /\ \A s \in Sids : server[s] # None => server[s] \in ServerRows /\ server[s].origin \in Keys \cup {None}
      /\ local \in [Keys -> LocalRows \cup {None}] /\ server \in [Sids -> ServerRows \cup {None}]
  BY FieldTypes DEF SyncInv, TypeOK
\* Steps that leave the server's rows, the payload and the acknowledgements alone
\* and create no row that the server has.
<1>1. ASSUME UNCHANGED <<server, payload, acks>>,
             \A k \in Keys : local'[k] # None /\ local'[k].status = "created" =>
               \/ local[k] # None /\ local[k].status = "created"
               \/ \A s \in Sids : server[s] # None => server[s].origin # k
      PROVE  Once' /\ CreatedOnce'
  BY <1>0, <1>1 DEF Once, CreatedOnce
<1>2. ASSUME NEW k \in Keys, NEW r, local' = [local EXCEPT ![k] = r],
             r = None \/ r.status # "created" \/ (local[k] # None /\ local[k].status = "created"),
             UNCHANGED <<server, payload, acks>>
      PROVE  Once' /\ CreatedOnce'
  BY <1>0, <1>1, <1>2
<1>3. ASSUME NEW k \in Lids, UserCreates(k) PROVE Once' /\ CreatedOnce'
  BY <1>0, <1>1, <1>3 DEF UserCreates, serverVars, syncVars
<1>4. ASSUME NEW k \in Keys, UserDeletes(k) PROVE Once' /\ CreatedOnce'
  <2>1. local[k] \in LocalRows
    BY <1>0, <1>4 DEF UserDeletes
  <2>2. \A l \in Keys : local'[l] # None /\ local'[l].status = "created" => local[l] # None /\ local[l].status = "created"
    BY <1>0, <1>4, <2>1 DEF UserDeletes, LocalRows
  <2> QED
    BY <1>1, <1>4, <2>2 DEF UserDeletes, serverVars, syncVars
<1>5. ASSUME NEW k \in Keys, NEW c \in Cols, UserEdits(k, c) PROVE Once' /\ CreatedOnce'
  <2>1. local[k] \in LocalRows /\ local[k] # None
    BY <1>0, <1>5 DEF UserEdits
  <2>2. \A l \in Keys : local'[l] # None /\ local'[l].status = "created" => local[l] # None /\ local[l].status = "created"
    BY <1>0, <1>5, <2>1 DEF UserEdits, LocalRows
  <2> QED
    BY <1>1, <1>5, <2>2 DEF UserEdits, serverVars, syncVars
<1>6. ASSUME NEW s \in Sids, ForeignWrites(s) PROVE Once' /\ CreatedOnce'
  <2>1. PICK r \in ServerRows :
          /\ server' = [server EXCEPT ![s] = r]
          /\ server[s] # None => r.origin = server[s].origin
          /\ server[s] = None => r.origin = None
    BY <1>6, ForeignFacts
  <2>2. \A i \in payload : i.key # None
    BY FieldTypes, Distinguished DEF SyncInv
  <2>3. UNCHANGED <<local, payload, acks>>
    BY <1>6 DEF ForeignWrites, syncVars
  <2> QED
    BY <1>0, <2>1, <2>2, <2>3 DEF Once, CreatedOnce
<1>7. CASE Pull \/ AdvanceCursor \/ Finish \/ UNCHANGED vars \/ \E s \in Sids : Find(s)
  BY <1>1, <1>7 DEF Pull, AdvanceCursor, Finish, Find, vars, syncVars, worldVars, serverVars
<1>8. CASE Fail
  BY <1>8 DEF Fail, SyncInv, Leftovers, Once, CreatedOnce, worldVars, serverVars
<1>9. CASE Collect
  <2>1. payload' = Outgoing /\ UNCHANGED <<local, acks, server>> /\ acks = {}
    BY <1>9 DEF Collect, Cleared, worldVars, serverVars, SyncInv, Leftovers
  <2>2. \A i \in Outgoing : /\ i.key \in Keys /\ local[i.key] # None
                            /\ i.op = "create" => local[i.key].status = "created"
    <3> SUFFICES ASSUME NEW k \in Keys, local[k] # None, local[k].status # "synced"
                 PROVE  Item(k).key = k /\ (Item(k).op = "create" => local[k].status = "created")
      BY DEF Outgoing
    <3>1. local[k].status \in {"created", "updated", "deleted"}
      BY FieldTypes DEF SyncInv
    <3> QED
      BY <3>1 DEF Item
  <2>3. \A i \in Outgoing : i.op = "create" => \A s \in Sids : server[s] # None => server[s].origin # i.key
    <3> SUFFICES ASSUME NEW i \in Outgoing, i.op = "create", NEW s \in Sids, server[s] # None, server[s].origin = i.key
                 PROVE  FALSE
      OBVIOUS
    <3>1. i.key # None /\ local[i.key] # None /\ local[i.key].status = "created"
      BY <2>2, Distinguished
    <3> QED
      BY <2>1, <3>1 DEF Once
  <2>4. ASSUME NEW i \in Outgoing, NEW j \in Outgoing, i.key = j.key PROVE i = j
    <3>1. PICK k \in Keys : i = Item(k)
      BY DEF Outgoing
    <3>2. PICK l \in Keys : j = Item(l)
      BY DEF Outgoing
    <3> QED
      BY <2>4, <3>1, <3>2 DEF Item
  <2> QED
    BY <2>1, <2>3, <2>4 DEF Once, CreatedOnce
<1>10. CASE ApplyFound
  <2>1. found.sid \in Sids /\ UNCHANGED <<server, payload, acks>>
    BY <1>10 DEF ApplyFound, SyncInv, TypeOK, worldVars, serverVars
  <2>2. KeyFor(found.sid) \in Keys
    BY <2>1, KeyForFacts
  <2>3. \A k \in Keys : local'[k] # None /\ local'[k].status = "created" => local[k] # None /\ local[k].status = "created"
    BY <1>0, <1>10, <2>2 DEF ApplyFound, Row
  <2> QED
    BY <1>1, <2>1, <2>3
<1>11. ASSUME NEW s \in Sids, ApplyTombstone(s) PROVE Once' /\ CreatedOnce'
  BY <1>1, <1>11, WithoutFacts DEF ApplyTombstone, worldVars, serverVars
<1>12. ASSUME NEW a \in acks, Acknowledge(a) PROVE Once' /\ CreatedOnce'
  <2>1. acks' = acks \ {a} /\ UNCHANGED <<server, payload>> /\ a.sid \in Sids /\ a.key \in Keys
        /\ (a.op # "create" => \A b \in acks : b.op # "create")
    BY <1>12, FieldTypes DEF Acknowledge, SyncInv, worldVars, serverVars
  <2>2. \A k \in Keys : local'[k] # None /\ local'[k].status = "created" =>
          local[k] # None /\ local[k].status = "created" /\ (a.op = "create" => k # a.key)
    <3>1. \A k \in Keys : local[k] # None => Accepted(local[k], a.sid).status # "created"
      BY <1>0 DEF Accepted, LocalRows
    <3>2. KeysOf(a.sid) # {} => KeyFor(a.sid) \in Keys /\ local[KeyFor(a.sid)] # None
      BY <2>1, KeyForFacts
    <3>3. CASE a.op = "create" \/ a.op = "update"
      BY <1>0, <1>12, <2>1, <3>1, <3>2, <3>3 DEF Acknowledge
    <3>4. CASE a.op = "delete"
      BY <1>12, <2>1, <3>4, WithoutFacts DEF Acknowledge
    <3> QED
      BY <3>3, <3>4, FieldTypes DEF SyncInv
  <2> QED
    BY <1>0, <2>1, <2>2 DEF Once, CreatedOnce
<1>13. CASE Push
  <2>1. PICK acc \in SUBSET {i \in payload : ~Conflicting(i)} : \E ids \in Issues(acc) :
          server' = Stored(acc, ids) /\ acks' = Acks(acc, ids)
    BY <1>13 DEF Push
  <2>2. PICK ids \in Issues(acc) : server' = Stored(acc, ids) /\ acks' = Acks(acc, ids)
    BY <2>1
  <2>3. payload' = {} /\ UNCHANGED local /\ acks = {}
    BY <1>13 DEF Push, SyncInv, Leftovers
  <2>4. \A i \in DOMAIN ids : /\ i \in payload /\ i.op = "create" /\ server'[ids[i]].origin = i.key
                              /\ \E a \in acks' : a.op = "create" /\ a.key = i.key
    BY <2>2, StoredFacts, AcksFacts
  <2>5. \A s \in Sids : server'[s] # None =>
          \/ server[s] # None /\ server'[s].origin = server[s].origin
          \/ server[s] = None /\ \E i \in DOMAIN ids : ids[i] = s
    BY <2>2, StoredFacts DEF SyncInv, Leftovers
  <2>6. Once'
    BY <2>3, <2>4, <2>5 DEF Once
  <2>7. CreatedOnce'
    <3> SUFFICES ASSUME NEW s \in Sids, NEW r \in Sids, server'[s] # None, server'[r] # None,
                        server'[s].origin # None, server'[s].origin = server'[r].origin
                 PROVE  s = r
      BY DEF CreatedOnce
    <3>1. CASE server[s] # None /\ server[r] # None
      BY <2>5, <3>1 DEF CreatedOnce
    <3>2. CASE server[s] = None \/ server[r] = None
      BY <2>4, <2>5, <3>2 DEF Once
    <3> QED
      BY <3>1, <3>2
  <2> QED
    BY <2>6, <2>7
<1> QED
  BY <1>3, <1>4, <1>5, <1>6, <1>7, <1>8, <1>9, <1>10, <1>11, <1>12, <1>13 DEF Next, SyncStep

\* While no sync stops between the server's answer and its last acknowledgement,
\* the server creates each row once, whatever else fails, is rejected, or is
\* written meanwhile (collectDirty, acceptCreate).
THEOREM ServerCreatesOnce ==
  ASSUME "ack" \notin FailIn
  PROVE  Spec => []CreatedOnce
<1>1. Init => Once /\ CreatedOnce
  BY DEF Init, Once, CreatedOnce
<1>2. SyncInv /\ Once /\ CreatedOnce /\ [Next]_vars => Once' /\ CreatedOnce'
  BY OnceStep
<1> QED
  BY <1>1, <1>2, SyncInvariant, PTL DEF Spec
-----------------------------------------------------------------------------
(* What the device holds, against what the server has: whatever conflicts,    *)
(* is rejected, lost or written meanwhile, they differ in known places only.  *)

\* What was pulled is the server's row, or an older one of it.
Fresh ==
  /\ \A s \in Sids : seen[s] <= sver
  /\ \A s \in Sids : pulled[s] # None =>
       /\ phase = "apply" /\ server[s] # None /\ pulled[s].ver <= server[s].ver
       /\ pulled[s].ver = server[s].ver => pulled[s] = server[s]
       /\ pulled[s].dead => server[s].dead
       /\ pulled[s].at <= clock
       /\ \A c \in Cols : pulled[s].cols[c] \in stored

\* What findByServerId returned is the row there is, or the user wrote since.
FoundRight ==
  found # None =>
    /\ ~pulled[found.sid].dead
    /\ found.row = None => KeysOf(found.sid) = {}
    /\ found.row # None => \E k \in KeysOf(found.sid) :
         /\ found.row.dirty # {} => local[k].status # "synced"
         /\ found.row.at <= local[k].at
         /\ found.row.at = local[k].at => local[k].dirty = found.row.dirty /\ local[k].cols = found.row.cols

\* Every row is in the table of its server row, and only sessions are edited.
InTable ==
  \A k \in Keys : local[k] # None =>
    /\ k \in Sids => local[k].sid = k
    /\ local[k].sid # None => TableOf[local[k].sid] = TableOf[k]
    /\ local[k].status \in {"updated", "deleted"} => TableOf[k] = "sessions"
    /\ local[k].status = "synced" => local[k].dirty = {}
    /\ local[k].at <= clock

\* What waits or was pushed was collected once, and a tombstone stays one meanwhile.
Sent ==
  /\ payload # {} => phase = "push"
  /\ \A i \in payload :
       /\ i.at <= clock
       /\ i.op = "create" /\ local[i.key] # None => local[i.key].status = "created"
       /\ i.op = "delete" => \A k \in KeysOf(i.sid) : local[k].status = "deleted"
  /\ \A i, j \in payload : i.key = j.key \/ (i.op # "create" /\ j.op # "create" /\ i.sid = j.sid) => i = j

\* An acknowledgement is of the row the server has, or had before another's write.
Answered ==
  /\ \A a \in acks :
       /\ a.op = "create" => /\ a.ver > 0 /\ TableOf[a.sid] = TableOf[a.key]
                             /\ local[a.key] # None => local[a.key].status = "created"
       /\ a.op = "delete" => \A k \in KeysOf(a.sid) : local[k].status = "deleted"
       /\ a.ver > 0 =>
            /\ a.op = "delete" => server[a.sid].dead
            /\ a.op # "delete" /\ a.ver = server[a.sid].ver => ~server[a.sid].dead /\ server[a.sid].cols = a.cols
            /\ \A c \in Cols : a.cols[c] \in stored
  /\ \A a, b \in acks : a.sid = b.sid \/ (a.op = "create" /\ b.op = "create" /\ a.key = b.key) => a = b

\* A server row this device has dealt with is here as the server has it, unless
\* it went astray or waits to be pushed.
Same(s) ==
  /\ server[s].dead => KeysOf(s) = {}
  /\ ~server[s].dead /\ s \notin astray =>
       KeysOf(s) # {} /\ \A k \in KeysOf(s) : local[k].status = "synced" => local[k].cols = server[s].cols
Mirror == \A s \in Sids : server[s] # None /\ seen[s] = server[s].ver => Same(s)

Stamped == \A s \in Sids : server[s] # None =>
  server[s].at <= clock /\ \A c \in Cols : server[s].cols[c] \in stored

DeviceInv ==
  /\ Fresh /\ FoundRight /\ InTable /\ Sent /\ Answered /\ Mirror /\ Stamped
  /\ UnconfirmedIsAstray

\* What the server's rows hold after a push, and whether they are dead.
LEMMA StoredRows ==
  ASSUME SyncInv, NEW acc \in SUBSET payload, NEW ids \in Issues(acc),
         \A i, j \in acc : i.op # "create" /\ j.op # "create" /\ i.sid = j.sid => i = j
  PROVE  /\ \A i \in DOMAIN ids :
              LET r == Stored(acc, ids)[ids[i]] IN r.cols = i.cols /\ r.at = i.at /\ ~r.dead
         /\ \A i \in acc : i.op = "update" =>
              LET r == Stored(acc, ids)[i.sid] IN r.cols = i.cols /\ r.at = i.at /\ ~r.dead
         /\ \A i \in acc : i.op = "delete" =>
              LET r == Stored(acc, ids)[i.sid] IN r.cols = server[i.sid].cols /\ r.at = server[i.sid].at /\ r.dead
<1>1. /\ DOMAIN ids = {i \in acc : i.op = "create"} /\ \A i \in DOMAIN ids : ids[i] \in Sids /\ server[ids[i]] = None
      /\ \A i, j \in DOMAIN ids : ids[i] = ids[j] => i = j
  BY DEF Issues
<1>2. \A i \in acc : /\ i.cols \in [Cols -> Nat] /\ i.at \in Nat /\ i.key \in Keys
                     /\ i.op # "create" => i.sid \in Sids /\ server[i.sid] # None
  BY FieldTypes DEF SyncInv, Leftovers
<1>3. sver \in Nat /\ \A s \in Sids : server[s] # None => server[s] \in ServerRows /\ server[s].origin \in Keys \cup {None}
  BY FieldTypes DEF SyncInv, TypeOK
<1>4. ASSUME NEW i \in DOMAIN ids
      PROVE  LET r == Stored(acc, ids)[ids[i]] IN r.cols = i.cols /\ r.at = i.at /\ ~r.dead
  <2>1. (CHOOSE j \in DOMAIN ids : ids[j] = ids[i]) = i
    BY <1>1
  <2>2. Stored(acc, ids)[ids[i]] = ServerRow(i.cols, i.at, i.key)
    BY <1>1, <2>1 DEF Stored
  <2> QED
    BY <1>1, <1>2, <1>3, <2>2, ServerRowType
<1>5. ASSUME NEW i \in acc, i.op # "create"
      PROVE  Stored(acc, ids)[i.sid] = IF i.op = "delete" THEN [server[i.sid] EXCEPT !.dead = TRUE, !.ver = sver + 1]
                                       ELSE ServerRow(i.cols, i.at, server[i.sid].origin)
  <2>1. ~\E j \in DOMAIN ids : ids[j] = i.sid
    BY <1>1, <1>2, <1>5
  <2>2. (CHOOSE j \in acc : j.op # "create" /\ j.sid = i.sid) = i
    BY <1>5
  <2> QED
    BY <1>2, <1>5, <2>1, <2>2 DEF Stored
<1>6. ASSUME NEW i \in acc, i.op = "update"
      PROVE  LET r == Stored(acc, ids)[i.sid] IN r.cols = i.cols /\ r.at = i.at /\ ~r.dead
  <2>1. i.sid \in Sids /\ server[i.sid] # None /\ i.cols \in [Cols -> Nat] /\ i.at \in Nat
        /\ server[i.sid].origin \in Keys \cup {None}
    BY <1>2, <1>3, <1>6
  <2>2. Stored(acc, ids)[i.sid] = ServerRow(i.cols, i.at, server[i.sid].origin)
    BY <1>5, <1>6
  <2> QED
    BY <1>3, <2>1, <2>2, ServerRowType
<1>7. ASSUME NEW i \in acc, i.op = "delete"
      PROVE  LET r == Stored(acc, ids)[i.sid]
             IN  r.cols = server[i.sid].cols /\ r.at = server[i.sid].at /\ r.dead
  <2>1. server[i.sid] \in ServerRows
    BY <1>2, <1>3, <1>7
  <2>2. Stored(acc, ids)[i.sid] = [server[i.sid] EXCEPT !.dead = TRUE, !.ver = sver + 1]
    BY <1>5, <1>7
  <2> QED
    BY <2>1, <2>2 DEF ServerRows
<1> QED
  BY <1>4, <1>6, <1>7

LEMMA ItemFacts ==
  ASSUME SyncInv, NEW k \in Keys, local[k] # None, local[k].status # "synced"
  PROVE  /\ Item(k).key = k /\ Item(k).sid = local[k].sid /\ Item(k).cols = local[k].cols /\ Item(k).at = local[k].at
         /\ Item(k).op = "create" <=> local[k].status = "created"
         /\ Item(k).op = "update" <=> local[k].status = "updated"
         /\ Item(k).op = "delete" <=> local[k].status = "deleted"
<1>1. local[k].status \in {"created", "updated", "deleted"}
  BY FieldTypes DEF SyncInv
<1> QED
  BY <1>1 DEF Item

LEMMA DeviceInit == Init => DeviceInv
<1> SUFFICES ASSUME Init PROVE DeviceInv
  OBVIOUS
<1>1. (\A s \in Sids : server[s] = None /\ seen[s] = 0 /\ pulled[s] = None) /\ \A k \in Keys : local[k] = None
  BY DEF Init
<1> QED
  BY <1>1 DEF Init, DeviceInv, Fresh, FoundRight, InTable, Sent, Answered, Mirror, Stamped, UnconfirmedIsAstray

\* The user's writes leave every server id where it is, and are dirty.
LEMMA DeviceUser ==
  ASSUME SyncInv, DeviceInv, NEW k \in Keys,
         (k \in Lids /\ UserCreates(k)) \/ UserDeletes(k) \/ \E c \in Cols : UserEdits(k, c)
  PROVE  DeviceInv'
<1>1. /\ UNCHANGED <<cursor, phase, pulled, pullTs, todo, found, payload, acks, resTs, server, sver, stored, seen, astray>>
      /\ clock' = clock + 1 /\ (local[k] # None => local[k].status # "deleted")
  BY UserFacts DEF syncVars, serverVars
<1>2. PICK r \in LocalRows \cup {None} :
        /\ local' = [local EXCEPT ![k] = r]
        /\ local[k] # None /\ local[k].sid # None => r # None /\ r.sid = local[k].sid
        /\ r # None => /\ r.status = "created" <=> r.sid = None
                       /\ r.sid # None => local[k] # None /\ r.sid = local[k].sid
                       /\ r.status # "synced" /\ (k \in Sids => local[k] # None)
                       /\ r.status # "created" \/ r.dirty # {} => TableOf[k] = "sessions"
                       /\ \/ r.at = clock + 1
                          \/ /\ local[k] # None /\ r.at = local[k].at
                             /\ r.dirty = local[k].dirty /\ r.cols = local[k].cols
  BY UserFacts
<1>3. /\ clock \in Nat /\ local'[k] = r /\ \A l \in Keys \ {k} : local'[l] = local[l]
      /\ \A s \in Sids : s # None
      /\ \A l \in Keys : local[l] # None => local[l].at \in Nat
                           /\ (local[l].status = "created" <=> local[l].sid = None)
  <2>1. local \in [Keys -> LocalRows \cup {None}] /\ \A s \in Sids : s # None
    BY Distinguished DEF SyncInv, TypeOK, Keys
  <2>2. \A l \in Keys : local[l] # None => local[l].at \in Nat
    BY FieldTypes DEF SyncInv
  <2> QED
    BY <1>2, <2>1, <2>2 DEF SyncInv, TypeOK, Known
<1>4. ASSUME NEW s \in Sids PROVE KeysOf(s)' = KeysOf(s)
  BY <1>2, <1>3 DEF KeysOf
<1>5. Fresh'
  <2>1. \A s \in Sids : pulled[s] # None => pulled[s].at \in Nat
    BY FieldTypes DEF SyncInv
  <2> QED
    BY <1>1, <1>3, <2>1 DEF DeviceInv, Fresh
<1>6. FoundRight'
  <2> SUFFICES ASSUME found # None PROVE FoundRight'
    BY <1>1 DEF FoundRight
  <2>1. found.sid \in Sids /\ (found.row # None => found.row.at \in Nat)
    BY DEF SyncInv, TypeOK, LocalRows
  <2>2. ASSUME found.row # None
        PROVE  \E j \in KeysOf(found.sid) :
                 /\ found.row.dirty # {} => local'[j].status # "synced"
                 /\ found.row.at <= local'[j].at
                 /\ found.row.at = local'[j].at =>
                      local'[j].dirty = found.row.dirty /\ local'[j].cols = found.row.cols
    <3>1. PICK j \in KeysOf(found.sid) :
            /\ found.row.dirty # {} => local[j].status # "synced"
            /\ found.row.at <= local[j].at
            /\ found.row.at = local[j].at => local[j].dirty = found.row.dirty /\ local[j].cols = found.row.cols
      BY <2>2 DEF DeviceInv, FoundRight
    <3>2. j \in Keys /\ local[j] # None /\ local[j].sid = found.sid /\ local[j].at <= clock /\ local[j].at \in Nat
      BY <1>3, <3>1 DEF KeysOf, DeviceInv, InTable
    <3>3. CASE j # k
      BY <1>3, <3>1, <3>2, <3>3
    <3>4. CASE j = k
      <4>1. r # None /\ local'[j] = r
        BY <1>2, <1>3, <2>1, <3>2, <3>4
      <4>2. CASE r.at = clock + 1
        <5>1. found.row.at <= r.at /\ found.row.at # r.at
          BY <1>3, <2>1, <2>2, <3>1, <3>2, <4>2
        <5> QED
          BY <1>2, <3>1, <4>1, <5>1
      <4>3. CASE r.at = local[k].at /\ r.dirty = local[k].dirty /\ r.cols = local[k].cols
        BY <1>2, <3>1, <3>4, <4>1, <4>3
      <4> QED
        BY <1>2, <4>1, <4>2, <4>3
    <3> QED
      BY <3>3, <3>4
  <2>3. ~pulled[found.sid].dead /\ (found.row = None => KeysOf(found.sid) = {})
    BY DEF DeviceInv, FoundRight
  <2>4. KeysOf(found.sid)' = KeysOf(found.sid) /\ found' = found /\ pulled' = pulled
    BY <1>1, <1>2, <1>3, <2>1 DEF KeysOf
  <2> QED
    BY <2>2, <2>3, <2>4 DEF FoundRight
<1>7. InTable'
  <2>1. \A l \in Keys \ {k} : local[l] # None => local[l].at <= clock'
    BY <1>1, <1>3 DEF DeviceInv, InTable
  <2>2. r # None => r.at <= clock'
    BY <1>1, <1>2, <1>3 DEF DeviceInv, InTable
  <2> QED
    BY <1>2, <1>3, <2>1, <2>2 DEF DeviceInv, InTable
<1>8. \A i : i \in Keys /\ (local[i] # None => local[i].status = "created") => (local'[i] # None => local'[i].status = "created")
  BY <1>2, <1>3
<1>9. \A s \in Sids : (\A j \in KeysOf(s) : local[j].status = "deleted") => \A j \in KeysOf(s)' : local'[j].status = "deleted"
  BY <1>1, <1>3, <1>4 DEF KeysOf
<1>10. Sent'
  <2>1. \A i \in payload : i.key \in Keys /\ i.at \in Nat /\ (i.op = "delete" => i.sid \in Sids)
    BY FieldTypes DEF SyncInv, Leftovers
  <2>2. \A i \in payload : i.at <= clock'
    BY <1>1, <1>3, <2>1 DEF DeviceInv, Sent
  <2> QED
    BY <1>1, <1>8, <1>9, <2>1, <2>2 DEF DeviceInv, Sent
<1>11. Answered'
  <2>1. \A a \in acks : a.key \in Keys /\ a.sid \in Sids
    BY FieldTypes DEF SyncInv
  <2> QED
    BY <1>1, <1>8, <1>9, <2>1 DEF DeviceInv, Answered
<1>12. Mirror'
  <2>1. \A s \in Sids : Same(s) => Same(s)'
    <3> TAKE s \in Sids
    <3>1. KeysOf(s)' = KeysOf(s)
      BY <1>4
    <3>2. \A j \in KeysOf(s) : local'[j].status = "synced" => local'[j] = local[j]
      BY <1>2, <1>3, <3>1 DEF KeysOf
    <3> QED
      BY <1>1, <3>1, <3>2 DEF Same
  <2> QED
    BY <1>1, <2>1 DEF DeviceInv, Mirror
<1>13. Stamped'
  <2>1. \A s \in Sids : server[s] # None => server[s].at \in Nat
    BY FieldTypes DEF SyncInv
  <2> QED
    BY <1>1, <1>3, <2>1 DEF DeviceInv, Stamped
<1>14. UnconfirmedIsAstray'
  BY <1>1, <1>2, <1>3 DEF DeviceInv, UnconfirmedIsAstray, Confirmed
<1> QED
  BY <1>5, <1>6, <1>7, <1>10, <1>11, <1>12, <1>13, <1>14 DEF DeviceInv

\* Another device's write makes a newer version than any this device deals with.
LEMMA DeviceForeign ==
  ASSUME SyncInv, DeviceInv, NEW s \in Sids, ForeignWrites(s)
  PROVE  DeviceInv'
<1>1. /\ UNCHANGED <<local, cursor, phase, pulled, pullTs, todo, found, payload, acks, resTs, seen, astray>>
      /\ clock' = clock + 1 /\ sver' = sver + 1 /\ stored' = stored \cup {clock + 1}
      /\ server[s] # None => ~server[s].dead
  BY DEF ForeignWrites, syncVars
<1>2. PICK r \in ServerRows :
        /\ server' = [server EXCEPT ![s] = r] /\ r.ver = sver + 1
        /\ \A c \in Cols : r.cols[c] = clock + 1 \/ (server[s] # None /\ r.cols[c] = server[s].cols[c])
        /\ r.at = clock + 1 \/ (server[s] # None /\ r.at = server[s].at)
  BY ForeignFacts
<1>3. /\ r # None /\ sver \in Nat /\ clock \in Nat /\ server'[s] = r /\ \A q \in Sids \ {s} : server'[q] = server[q]
      /\ \A q \in Sids : server[q] # None =>
           server[q].ver \in Nat /\ server[q].ver <= sver /\ server[q].at \in Nat /\ server[q].at <= clock
  BY <1>2, FieldTypes, Distinguished DEF SyncInv, TypeOK, Versions, DeviceInv, Stamped
<1>4. Fresh'
  <2>1. \A q \in Sids : pulled[q] # None => pulled[q].ver \in Nat /\ pulled[q].at \in Nat
    BY FieldTypes DEF SyncInv
  <2>2. \A q \in Sids : seen[q] \in Nat
    BY DEF SyncInv, TypeOK
  <2> QED
    BY <1>1, <1>2, <1>3, <2>1, <2>2 DEF DeviceInv, Fresh
<1>5. InTable'
  <2>1. \A k \in Keys : local[k] # None => local[k].at \in Nat
    BY FieldTypes DEF SyncInv
  <2> QED
    BY <1>1, <1>3, <2>1 DEF DeviceInv, InTable
<1>6. FoundRight' /\ Sent'
  <2>1. \A i \in payload : i.at \in Nat
    BY FieldTypes DEF SyncInv
  <2> QED
    BY <1>1, <1>3, <2>1 DEF DeviceInv, FoundRight, Sent, KeysOf
<1>7. Answered'
  <2>1. \A a \in acks : a.sid \in Sids /\ a.ver \in Nat /\ server[a.sid] # None /\ (a.ver > 0 => a.ver <= sver)
    BY <1>3, FieldTypes DEF SyncInv, AcksRight
  <2> QED
    BY <1>1, <1>2, <1>3, <2>1 DEF DeviceInv, Answered, KeysOf
<1>8. Mirror'
  <2> SUFFICES ASSUME NEW q \in Sids, server'[q] # None, seen[q] = server'[q].ver PROVE Same(q)'
    BY <1>1 DEF Mirror
  <2>1. seen[q] \in Nat /\ seen[q] <= sver
    BY DEF SyncInv, TypeOK, DeviceInv, Fresh
  <2>2. q # s
    BY <1>2, <1>3, <2>1
  <2>3. Same(q) /\ server'[q] = server[q]
    BY <1>3, <2>2 DEF DeviceInv, Mirror
  <2> QED
    BY <1>1, <2>3 DEF Same, KeysOf
<1>9. Stamped' /\ UnconfirmedIsAstray'
  <2>1. r.at <= clock'
    BY <1>1, <1>2, <1>3
  <2>2. \A c \in Cols : r.cols[c] \in stored'
    BY <1>1, <1>2 DEF DeviceInv, Stamped
  <2>3. \A q \in Sids \ {s} : server'[q] # None => server'[q].at <= clock'
    BY <1>1, <1>3
  <2> QED
    BY <1>1, <1>2, <1>3, <2>1, <2>2, <2>3 DEF DeviceInv, Stamped, UnconfirmedIsAstray, Confirmed
<1> QED
  BY <1>4, <1>5, <1>6, <1>7, <1>8, <1>9 DEF DeviceInv

\* Pulling, finding and collecting look at what there is.
LEMMA DeviceQuiet ==
  ASSUME SyncInv, DeviceInv,
         Pull \/ Fail \/ AdvanceCursor \/ Finish \/ Collect \/ \E s \in Sids : Find(s)
  PROVE  DeviceInv'
<1>1. UNCHANGED <<local, server, sver, clock, stored, seen, astray>>
  BY DEF Pull, Fail, AdvanceCursor, Finish, Collect, Cleared, Find, worldVars, serverVars
<1>2. InTable' /\ Mirror' /\ Stamped' /\ UnconfirmedIsAstray'
  BY <1>1 DEF DeviceInv, InTable, Mirror, Same, KeysOf, Stamped, UnconfirmedIsAstray, Confirmed
<1>3. CASE Pull
  <2>1. /\ pulled' = [s \in Sids |-> IF s \in todo' THEN server[s] ELSE None] /\ phase' = "apply"
        /\ todo' \subseteq {s \in Sids : server[s] # None}
        /\ UNCHANGED <<found, payload, acks>> /\ found = None /\ phase = "idle"
    BY <1>3 DEF Pull, SyncInv, Leftovers
  <2>2. \A s \in Sids : server[s] # None => server[s].ver \in Nat
    BY FieldTypes DEF SyncInv
  <2>3. Fresh' /\ FoundRight' /\ Sent' /\ Answered'
    BY <1>1, <2>1, <2>2 DEF DeviceInv, Fresh, FoundRight, Sent, Answered, Stamped, KeysOf
  <2> QED
    BY <1>2, <2>3 DEF DeviceInv
<1>4. CASE Fail
  <2>1. found' = None /\ payload' = {} /\ acks' = {} /\ \A s \in Sids : pulled'[s] = None
    BY <1>4 DEF Fail
  <2> QED
    BY <1>1, <1>2, <2>1 DEF DeviceInv, Fresh, FoundRight, Sent, Answered
<1>5. CASE AdvanceCursor
  <2>1. found' = None /\ UNCHANGED <<payload, acks>> /\ phase = "apply" /\ \A s \in Sids : pulled'[s] = None
    BY <1>5 DEF AdvanceCursor
  <2> QED
    BY <1>1, <1>2, <2>1 DEF DeviceInv, Fresh, FoundRight, Sent, Answered, KeysOf
<1>6. CASE Finish
  <2>1. UNCHANGED <<pulled, found, payload, acks>> /\ phase = "ack" /\ phase' = "idle"
    BY <1>6 DEF Finish
  <2> QED
    BY <1>1, <1>2, <2>1 DEF DeviceInv, Fresh, FoundRight, Sent, Answered, KeysOf
<1>7. CASE Collect
  <2>1. /\ payload' = Outgoing /\ UNCHANGED <<pulled, found, acks>> /\ phase = "collect"
        /\ phase' = IF Outgoing = {} THEN "ack" ELSE "push"
    BY <1>7 DEF Collect
  <2>2. ASSUME NEW i \in Outgoing
        PROVE  \E k \in Keys : /\ local[k] # None /\ local[k].status # "synced" /\ i = Item(k)
                               /\ local[k].status = "created" \/ local[k].sid # None
    BY DEF Outgoing
  <2>3. ASSUME NEW i \in Outgoing
        PROVE  /\ i.key \in Keys /\ local[i.key] # None /\ i = Item(i.key) /\ i.sid = local[i.key].sid
               /\ i.at = local[i.key].at
               /\ i.op = "create" => local[i.key].status = "created"
               /\ i.op # "create" => i.sid # None
               /\ i.op = "delete" => local[i.key].status = "deleted"
    BY <2>2, ItemFacts
  <2>4. Sent'
    BY <1>1, <2>1, <2>3 DEF Sent, DeviceInv, InTable, SyncInv, OneKey, KeysOf
  <2> QED
    BY <1>1, <1>2, <2>1, <2>4 DEF DeviceInv, Fresh, FoundRight, Answered, KeysOf
<1>8. ASSUME NEW s \in Sids, Find(s) PROVE DeviceInv'
  <2>1. /\ phase = "apply" /\ s \in todo /\ ~pulled[s].dead /\ found' = [sid |-> s, row |-> local[KeyFor(s)]]
        /\ UNCHANGED <<phase, pulled, payload, acks>>
    BY <1>8 DEF Find
  <2>2. /\ KeyFor(s) \in Keys
        /\ KeysOf(s) = {} => KeyFor(s) = s
        /\ KeysOf(s) # {} => local[KeyFor(s)] # None /\ local[KeyFor(s)].sid = s
    BY KeyForFacts
  <2>3. local[KeyFor(s)] # None => KeyFor(s) \in KeysOf(s)
    BY <2>2 DEF KeysOf, DeviceInv, InTable
  <2>4. local[KeyFor(s)] = None => KeysOf(s) = {}
    BY <2>2
  <2>5. local[KeyFor(s)] # None => local[KeyFor(s)].at \in Nat
    BY <2>2, FieldTypes DEF SyncInv
  <2>6. FoundRight'
    BY <1>1, <2>1, <2>2, <2>3, <2>4, <2>5 DEF FoundRight, DeviceInv, InTable, KeysOf
  <2> QED
    BY <1>1, <1>2, <2>1, <2>6 DEF DeviceInv, Fresh, Sent, Answered, KeysOf
<1> QED
  BY <1>3, <1>4, <1>5, <1>6, <1>7, <1>8

\* The pulled row is written over the one found, or an edited one stays.
LEMMA ApplyFacts ==
  ASSUME SyncInv, DeviceInv, ApplyFound, NEW s, s = found.sid, NEW k, k = KeyFor(s)
  PROVE  /\ s \in todo /\ s \in Sids /\ s # None /\ k \in Keys /\ phase = "apply" /\ found # None
         /\ todo' = todo \ {s} /\ found' = None /\ seen' = [seen EXCEPT ![s] = pulled[s].ver]
         /\ UNCHANGED <<cursor, phase, pulled, pullTs, payload, acks, resTs, server, sver, clock, stored>>
         /\ pulled[s] # None /\ ~pulled[s].dead
         /\ local[k] # None => local[k].sid = s
         /\ k \in Sids => k = s
         /\ TableOf[k] = TableOf[s]
         /\ \A j \in Keys \ {k} : local[j] # None => local[j].sid # s
         /\ \/ /\ UNCHANGED <<local, astray>> /\ local[k] # None /\ local[k].status # "synced"
            \/ \E r \in LocalRows :
                 /\ local' = [local EXCEPT ![k] = r]
                 /\ r.status = "synced" /\ r.sid = s /\ r.dirty = {} /\ r.at = pulled[s].at
                 /\ \/ r.cols = pulled[s].cols /\ astray' = astray \ {s}
                    \/ astray' = astray \cup {s}
                 /\ found.row # None /\ TableOf[s] = "sessions" =>
                      \A c \in found.row.dirty : r.cols[c] = found.row.cols[c]
<1> DEFINE srv == pulled[s]
           how == IF found.row = None THEN "use_server" ELSE Resolve(TableOf[s], found.row, srv)
           dirty == IF how = "merge_fields" THEN found.row.dirty ELSE {}
           cols == [c \in Cols |-> IF c \in dirty THEN found.row.cols[c] ELSE srv.cols[c]]
           r == Row("synced", s, cols, {}, srv.at)
<1>1. /\ phase = "apply" /\ found # None
      /\ local' = IF how = "use_local" THEN local ELSE [local EXCEPT ![k] = r]
      /\ todo' = todo \ {s} /\ found' = None /\ seen' = [seen EXCEPT ![s] = pulled[s].ver]
      /\ astray' = IF how = "use_local" THEN astray
                   ELSE IF cols = srv.cols THEN astray \ {s} ELSE astray \cup {s}
      /\ UNCHANGED <<cursor, phase, pulled, pullTs, payload, acks, resTs, server, sver, clock, stored>>
  BY DEF ApplyFound, worldVars, serverVars
<1>2. s \in todo /\ s \in Sids /\ s \in Keys /\ s # None /\ pulled[s] # None /\ found.row \in LocalRows \cup {None}
  BY <1>1, Distinguished DEF SyncInv, TypeOK, Applying, Keys
<1>3. srv.cols \in [Cols -> Nat] /\ srv.at \in Nat /\ ~srv.dead
  BY <1>1, <1>2, FieldTypes DEF SyncInv, DeviceInv, FoundRight
<1>4. /\ k \in Keys
      /\ KeysOf(s) = {} => k = s
      /\ KeysOf(s) # {} => local[k] # None /\ local[k].sid = s
  BY <1>2, KeyForFacts
\* Under the row's own id there is no other row.
<1>5. local[k] # None => local[k].sid = s
  BY <1>2, <1>4 DEF DeviceInv, InTable, KeysOf
<1>6. TableOf[k] = TableOf[s] /\ (k \in Sids => k = s)
  BY <1>2, <1>4, <1>5 DEF DeviceInv, InTable, KeysOf
<1>7. \A j \in Keys \ {k} : local[j] # None => local[j].sid # s
  BY <1>2, <1>4 DEF KeysOf, SyncInv, OneKey
<1>8. how \in {"use_local", "use_server", "merge_fields"} /\ (how = "merge_fields" => found.row # None)
  BY DEF Resolve
<1>9. found.row # None => found.row.dirty \subseteq Cols /\ found.row.cols \in [Cols -> Nat]
  BY <1>2 DEF LocalRows
<1>10. how = "use_local" => local[k] # None /\ local[k].status # "synced"
  <2> SUFFICES ASSUME how = "use_local" PROVE local[k] # None /\ local[k].status # "synced"
    OBVIOUS
  <2>1. found.row # None /\ found.row.dirty # {}
    BY DEF Resolve
  <2>2. PICK j \in KeysOf(s) : local[j].status # "synced"
    BY <1>1, <2>1 DEF DeviceInv, FoundRight
  <2>3. j = k
    BY <1>7, <2>2 DEF KeysOf
  <2> QED
    BY <2>2, <2>3 DEF KeysOf
<1>11. found.row # None /\ TableOf[s] = "sessions" /\ how # "use_local" => found.row.dirty = dirty
  BY DEF Resolve
<1>12. dirty \subseteq Cols /\ (dirty # {} => found.row # None)
  BY <1>8, <1>9
<1> HIDE DEF how, dirty
<1>13. cols \in [Cols -> Nat]
  BY <1>3, <1>9, <1>12
<1>14. \A c \in dirty : cols[c] = found.row.cols[c]
  BY <1>12
<1> HIDE DEF cols, srv
<1>15. r \in LocalRows /\ r.status = "synced" /\ r.sid = s /\ r.dirty = {} /\ r.at = srv.at /\ r.cols = cols
  BY <1>2, <1>3, <1>13, RowType
<1> HIDE DEF r
<1>16. CASE how = "use_local"
  BY <1>1, <1>2, <1>3, <1>4, <1>5, <1>6, <1>7, <1>10, <1>16 DEF srv
<1>17. CASE how # "use_local"
  <2>1. local' = [local EXCEPT ![k] = r]
    BY <1>1, <1>17
  <2>2. \/ r.cols = srv.cols /\ astray' = astray \ {s}
        \/ astray' = astray \cup {s}
    BY <1>1, <1>15, <1>17
  <2>3. found.row # None /\ TableOf[s] = "sessions" => \A c \in found.row.dirty : r.cols[c] = found.row.cols[c]
    BY <1>11, <1>14, <1>15, <1>17
  <2> QED
    BY <1>1, <1>2, <1>3, <1>4, <1>5, <1>6, <1>7, <1>15, <2>1, <2>2, <2>3 DEF srv
<1> QED
  BY <1>16, <1>17

LEMMA DeviceApply ==
  ASSUME SyncInv, DeviceInv, ApplyFound
  PROVE  DeviceInv'
<1> DEFINE s == found.sid
           k == KeyFor(s)
<1>1. /\ s \in todo /\ s \in Sids /\ s # None /\ k \in Keys /\ phase = "apply"
      /\ found' = None /\ seen' = [seen EXCEPT ![s] = pulled[s].ver]
      /\ UNCHANGED <<phase, pulled, payload, acks, server, sver, clock, stored>>
      /\ pulled[s] # None /\ ~pulled[s].dead
      /\ local[k] # None => local[k].sid = s
      /\ k \in Sids => k = s
      /\ TableOf[k] = TableOf[s]
      /\ \A j \in Keys \ {k} : local[j] # None => local[j].sid # s
      /\ \/ /\ UNCHANGED <<local, astray>> /\ local[k] # None /\ local[k].status # "synced"
         \/ \E r \in LocalRows :
              /\ local' = [local EXCEPT ![k] = r]
              /\ r.status = "synced" /\ r.sid = s /\ r.dirty = {} /\ r.at = pulled[s].at
              /\ \/ r.cols = pulled[s].cols /\ astray' = astray \ {s}
                 \/ astray' = astray \cup {s}
  BY ApplyFacts
<1> HIDE DEF s, k
<1>2. /\ server[s] # None /\ pulled[s].ver <= server[s].ver /\ pulled[s].at <= clock
      /\ pulled[s].ver = server[s].ver => pulled[s] = server[s]
      /\ \A c \in Cols : pulled[s].cols[c] \in stored
      /\ payload = {} /\ acks = {} /\ server[s].ver <= sver /\ pulled[s].ver \in Nat /\ server[s].ver \in Nat /\ sver \in Nat
  BY <1>1, FieldTypes DEF DeviceInv, Fresh, Sent, SyncInv, Leftovers, Versions, TypeOK
<1>3. local \in [Keys -> LocalRows \cup {None}] /\ seen \in [Sids -> Nat] /\ \A q \in Sids : q # None
  BY Distinguished DEF SyncInv, TypeOK, Keys
<1>4. Fresh' /\ FoundRight' /\ Sent' /\ Answered' /\ Stamped'
  BY <1>1, <1>2, <1>3 DEF DeviceInv, Fresh, FoundRight, Sent, Answered, Stamped
<1>5. CASE UNCHANGED <<local, astray>> /\ local[k] # None /\ local[k].status # "synced"
  <2>1. InTable' /\ UnconfirmedIsAstray'
    BY <1>1, <1>5 DEF DeviceInv, InTable, UnconfirmedIsAstray, Confirmed
  <2>2. Mirror'
    <3> SUFFICES ASSUME NEW q \in Sids, server[q] # None, seen'[q] = server[q].ver PROVE Same(q)'
      BY <1>1 DEF Mirror
    <3>1. CASE q = s
      <4>1. ~server[s].dead
        BY <1>1, <1>2, <1>3, <3>1
      <4>2. k \in KeysOf(s) /\ \A j \in KeysOf(s) : j = k
        BY <1>1, <1>5 DEF KeysOf
      <4> QED
        BY <1>1, <1>5, <3>1, <4>1, <4>2 DEF Same, KeysOf
    <3>2. CASE q # s
      <4>1. Same(q)
        BY <1>1, <1>3, <3>2 DEF DeviceInv, Mirror
      <4> QED
        BY <1>1, <1>5, <4>1 DEF Same, KeysOf
    <3> QED
      BY <3>1, <3>2
  <2> QED
    BY <1>4, <2>1, <2>2 DEF DeviceInv
<1>6. ASSUME NEW r \in LocalRows, local' = [local EXCEPT ![k] = r],
             r.status = "synced", r.sid = s, r.dirty = {}, r.at = pulled[s].at,
             \/ r.cols = pulled[s].cols /\ astray' = astray \ {s}
             \/ astray' = astray \cup {s}
      PROVE  DeviceInv'
  <2>1. r # None /\ local'[k] = r /\ \A j \in Keys \ {k} : local'[j] = local[j]
    BY <1>1, <1>3, <1>6, Distinguished
  <2>2. InTable'
    BY <1>1, <1>2, <1>6, <2>1 DEF DeviceInv, InTable
  <2>3. UnconfirmedIsAstray'
    BY <1>1, <1>2, <1>6, <2>1 DEF DeviceInv, UnconfirmedIsAstray, Confirmed
  <2>4. Mirror'
    <3> SUFFICES ASSUME NEW q \in Sids, server[q] # None, seen'[q] = server[q].ver PROVE Same(q)'
      BY <1>1 DEF Mirror
    <3>1. CASE q = s
      <4>1. ~server[s].dead /\ server[s] = pulled[s]
        BY <1>1, <1>2, <1>3, <3>1
      <4>2. k \in KeysOf(q)' /\ \A j \in KeysOf(q)' : j = k
        BY <1>1, <1>6, <2>1, <3>1 DEF KeysOf
      <4> QED
        BY <1>1, <1>6, <2>1, <3>1, <4>1, <4>2 DEF Same
    <3>2. CASE q # s
      <4>1. KeysOf(q)' = KeysOf(q) /\ \A l \in KeysOf(q) : local'[l] = local[l]
        BY <1>1, <1>3, <1>6, <2>1, <3>2 DEF KeysOf
      <4>2. Same(q) /\ (q \in astray' <=> q \in astray)
        BY <1>1, <1>3, <1>6, <3>2 DEF DeviceInv, Mirror
      <4> QED
        BY <1>1, <4>1, <4>2 DEF Same
    <3> QED
      BY <3>1, <3>2
  <2> QED
    BY <1>4, <2>2, <2>3, <2>4 DEF DeviceInv
<1> QED
  BY <1>1, <1>5, <1>6

LEMMA DeviceTombstone ==
  ASSUME SyncInv, DeviceInv, NEW s \in Sids, ApplyTombstone(s)
  PROVE  DeviceInv' /\ server[s].dead
<1>1. /\ phase = "apply" /\ s \in todo /\ pulled[s].dead /\ found = None
      /\ local' = Without(s) /\ seen' = [seen EXCEPT ![s] = pulled[s].ver] /\ astray' = astray \ {s}
      /\ UNCHANGED <<phase, pulled, found, payload, acks, server, sver, clock, stored>>
  BY DEF ApplyTombstone, worldVars, serverVars
<1>2. /\ server[s] # None /\ server[s].dead /\ pulled[s].ver <= server[s].ver /\ acks = {} /\ payload = {}
      /\ server[s].ver <= sver /\ pulled[s].ver \in Nat /\ server[s].ver \in Nat /\ sver \in Nat /\ seen \in [Sids -> Nat]
  BY <1>1, FieldTypes DEF DeviceInv, Fresh, Sent, SyncInv, Applying, Versions, Leftovers, TypeOK
<1>3. /\ \A k \in Keys : local'[k] # None => local'[k] = local[k] /\ local[k].sid # s
      /\ \A k \in Keys : local[k] # None /\ local[k].sid # s => local'[k] = local[k]
  BY <1>1, WithoutFacts DEF Without, KeysOf
<1>4. Fresh' /\ FoundRight' /\ Sent' /\ Answered' /\ Stamped'
  BY <1>1, <1>2 DEF DeviceInv, Fresh, FoundRight, Sent, Answered, Stamped
<1>5. InTable' /\ UnconfirmedIsAstray'
  BY <1>1, <1>3 DEF DeviceInv, InTable, UnconfirmedIsAstray, Confirmed
<1>6. Mirror'
  <2> SUFFICES ASSUME NEW q \in Sids, server[q] # None, seen'[q] = server[q].ver PROVE Same(q)'
    BY <1>1 DEF Mirror
  <2>1. CASE q = s
    <3>1. KeysOf(s)' = {}
      BY <1>3 DEF KeysOf
    <3> QED
      BY <1>1, <1>2, <2>1, <3>1 DEF Same
  <2>2. CASE q # s
    <3>1. KeysOf(q)' = KeysOf(q) /\ \A l \in KeysOf(q) : local'[l] = local[l]
      BY <1>3, <2>2 DEF KeysOf
    <3>2. Same(q)
      BY <1>1, <1>2, <2>2 DEF DeviceInv, Mirror
    <3> QED
      BY <1>1, <2>2, <3>1, <3>2 DEF Same
  <2> QED
    BY <2>1, <2>2
<1> QED
  BY <1>2, <1>4, <1>5, <1>6 DEF DeviceInv

\* What the server stores is what was collected, and it is acknowledged as that.
LEMMA DevicePush ==
  ASSUME SyncInv, DeviceInv, Push
  PROVE  DeviceInv'
<1>1. /\ phase = "push" /\ payload' = {} /\ todo = {} /\ found = None
      /\ UNCHANGED <<local, pulled, found, clock, seen, astray>>
      /\ \A s \in Sids : pulled[s] = None
  BY DEF Push, SyncInv, Leftovers, DeviceInv, Fresh
<1>2. PICK acc \in SUBSET {i \in payload : ~Conflicting(i)} : \E ids \in Issues(acc) :
        /\ server' = Stored(acc, ids) /\ acks' = Acks(acc, ids)
        /\ sver' = IF acc = {} THEN sver ELSE sver + 1
        /\ stored' = stored \cup UNION {{i.cols[c] : c \in Cols} : i \in acc}
  BY DEF Push
<1>3. PICK ids \in Issues(acc) :
        /\ server' = Stored(acc, ids) /\ acks' = Acks(acc, ids)
        /\ sver' = IF acc = {} THEN sver ELSE sver + 1
        /\ stored' = stored \cup UNION {{i.cols[c] : c \in Cols} : i \in acc}
  BY <1>2
<1>4. acc \in SUBSET payload /\ sver \in Nat /\ \A s \in Sids : seen[s] \in Nat /\ seen[s] <= sver
  BY DEF SyncInv, TypeOK, DeviceInv, Fresh
<1>5. \A i \in payload :
        /\ i.key \in Keys /\ i.op \in {"create", "update", "delete"} /\ i.at <= clock
        /\ i.op # "create" => i.sid \in Sids /\ server[i.sid] # None
        /\ i.op = "create" /\ local[i.key] # None => local[i.key].status = "created"
        /\ i.op = "delete" => \A k \in KeysOf(i.sid) : local[k].status = "deleted"
  BY FieldTypes DEF SyncInv, Leftovers, DeviceInv, Sent
<1>6. /\ \A i, j \in payload : i.key = j.key => i = j
      /\ \A i, j \in payload : i.op # "create" /\ j.op # "create" /\ i.sid = j.sid => i = j
  BY DEF DeviceInv, Sent
<1>7. /\ \A i \in DOMAIN ids : i \in acc /\ i.op = "create" /\ ids[i] \in Sids /\ server[ids[i]] = None
                               /\ TableOf[ids[i]] = TableOf[i.key]
      /\ \A i, j \in DOMAIN ids : ids[i] = ids[j] => i = j
  BY DEF Issues
<1>8. \A s \in Sids : server'[s] # server[s] =>
        /\ server'[s] # None /\ server'[s].ver = sver + 1
        /\ \/ \E i \in DOMAIN ids : ids[i] = s
           \/ \E i \in acc : i.op # "create" /\ i.sid = s
  BY <1>3, <1>4, StoredFacts
<1>9. /\ \A i \in DOMAIN ids : server'[ids[i]].cols = i.cols /\ server'[ids[i]].at = i.at /\ ~server'[ids[i]].dead
      /\ \A i \in acc : i.op = "update" =>
           server'[i.sid].cols = i.cols /\ server'[i.sid].at = i.at /\ ~server'[i.sid].dead
      /\ \A i \in acc : i.op = "delete" =>
           server'[i.sid].cols = server[i.sid].cols /\ server'[i.sid].at = server[i.sid].at /\ server'[i.sid].dead
  BY <1>3, <1>4, <1>6, StoredRows
<1>10. \A i \in acc : \A c \in Cols : i.cols[c] \in stored'
  BY <1>3
<1>11. ASSUME NEW a \in acks', a.op = "create"
       PROVE  \E i \in DOMAIN ids : a.sid = ids[i] /\ a.key = i.key /\ a.cols = i.cols /\ a.ver = sver + 1
  BY <1>3, <1>4, <1>11, AcksFacts
<1>12. ASSUME NEW a \in acks', a.op # "create"
       PROVE  \E i \in payload : /\ a.op = i.op /\ a.key = i.key /\ a.sid = i.sid /\ a.cols = i.cols
                                 /\ a.ver = IF i \in acc THEN sver + 1 ELSE 0
  BY <1>3, <1>4, <1>12, AcksFacts
<1>13. Fresh' /\ FoundRight' /\ Sent' /\ InTable'
  <2>1. sver' \in Nat /\ sver <= sver'
    BY <1>3, <1>4
  <2>2. \A s \in Sids : seen'[s] <= sver'
    BY <1>1, <1>4, <2>1
  <2> QED
    BY <1>1, <2>2 DEF DeviceInv, Fresh, FoundRight, Sent, InTable
<1>14. Answered'
  <2>1. ASSUME NEW a \in acks', a.op = "create"
        PROVE  /\ a.ver > 0 /\ TableOf[a.sid] = TableOf[a.key]
               /\ local[a.key] # None => local[a.key].status = "created"
               /\ ~server'[a.sid].dead /\ server'[a.sid].cols = a.cols /\ \A c \in Cols : a.cols[c] \in stored'
    <3>1. PICK i \in DOMAIN ids : a.sid = ids[i] /\ a.key = i.key /\ a.cols = i.cols /\ a.ver = sver + 1
      BY <1>11, <2>1
    <3> QED
      BY <1>4, <1>5, <1>7, <1>9, <1>10, <3>1
  <2>2. ASSUME NEW a \in acks', a.op # "create"
        PROVE  /\ a.op = "delete" => \A k \in KeysOf(a.sid) : local[k].status = "deleted"
               /\ a.ver > 0 => /\ a.op = "delete" => server'[a.sid].dead
                               /\ a.op # "delete" => ~server'[a.sid].dead /\ server'[a.sid].cols = a.cols
                               /\ \A c \in Cols : a.cols[c] \in stored'
    <3>1. PICK i \in payload : /\ a.op = i.op /\ a.key = i.key /\ a.sid = i.sid /\ a.cols = i.cols
                               /\ a.ver = IF i \in acc THEN sver + 1 ELSE 0
      BY <1>12, <2>2
    <3>2. a.ver > 0 => i \in acc
      BY <3>1
    <3> QED
      BY <1>5, <1>9, <1>10, <2>2, <3>1, <3>2
  <2>3. ASSUME NEW a \in acks', NEW b \in acks',
               a.sid = b.sid \/ (a.op = "create" /\ b.op = "create" /\ a.key = b.key)
        PROVE  a = b
    <3>1. a \in Receipts /\ b \in Receipts
      BY <1>3, <1>4, AcksFacts
    <3>2. CASE a.op = "create" /\ b.op = "create"
      BY <1>3, <1>4, <1>6, <1>7, <1>11, <2>3, <3>1, <3>2, AcksFacts DEF Receipts
    <3>3. CASE a.op # "create" /\ b.op # "create"
      BY <1>6, <1>12, <2>3, <3>1, <3>3 DEF Receipts
    <3>4. CASE a.op = "create" /\ b.op # "create"
      <4>1. server[a.sid] = None /\ server[b.sid] # None
        BY <1>5, <1>7, <1>11, <1>12, <3>4
      <4> QED
        BY <2>3, <3>4, <4>1
    <3>5. CASE a.op # "create" /\ b.op = "create"
      <4>1. server[b.sid] = None /\ server[a.sid] # None
        BY <1>5, <1>7, <1>11, <1>12, <3>5
      <4> QED
        BY <2>3, <3>5, <4>1
    <3> QED
      BY <3>2, <3>3, <3>4, <3>5
  <2>4. UNCHANGED local
    BY <1>1
  <2> QED
    BY <2>1, <2>2, <2>3, <2>4 DEF Answered, KeysOf
<1>15. Mirror'
  <2> SUFFICES ASSUME NEW s \in Sids, server'[s] # None, seen[s] = server'[s].ver PROVE Same(s)'
    BY <1>1 DEF Mirror
  <2>1. server'[s] = server[s]
    BY <1>4, <1>8
  <2>2. Same(s)
    BY <2>1 DEF DeviceInv, Mirror
  <2> QED
    BY <1>1, <2>1, <2>2 DEF Same, KeysOf
<1>16. Stamped'
  <2> SUFFICES ASSUME NEW s \in Sids, server'[s] # None
               PROVE  server'[s].at <= clock /\ \A c \in Cols : server'[s].cols[c] \in stored'
    BY <1>1 DEF Stamped
  <2>1. server[s] # None => server[s].at <= clock /\ \A c \in Cols : server[s].cols[c] \in stored'
    BY <1>3 DEF DeviceInv, Stamped
  <2>2. CASE server'[s] = server[s]
    BY <2>1, <2>2
  <2>3. ASSUME NEW i \in DOMAIN ids, ids[i] = s
        PROVE  server'[s].at <= clock /\ \A c \in Cols : server'[s].cols[c] \in stored'
    BY <1>5, <1>7, <1>9, <1>10, <2>3
  <2>4. ASSUME NEW i \in acc, i.op # "create", i.sid = s
        PROVE  server'[s].at <= clock /\ \A c \in Cols : server'[s].cols[c] \in stored'
    BY <1>4, <1>5, <1>9, <1>10, <2>1, <2>4
  <2> QED
    BY <1>8, <2>2, <2>3, <2>4
<1>17. UnconfirmedIsAstray'
  BY <1>1, <1>3 DEF DeviceInv, UnconfirmedIsAstray, Confirmed
<1> QED
  BY <1>13, <1>14, <1>15, <1>16, <1>17 DEF DeviceInv

\* Acknowledging marks one row synced as it is, removes a tombstone, or does nothing.
LEMMA AckFacts ==
  ASSUME SyncInv, DeviceInv, NEW a \in acks, Acknowledge(a)
  PROVE  /\ phase = "ack" /\ acks' = acks \ {a}
         /\ seen' = [seen EXCEPT ![a.sid] = IF a.ver > 0 THEN a.ver ELSE @]
         /\ astray' = IF Agreed(a) THEN astray \ {a.sid} ELSE astray \cup {a.sid}
         /\ UNCHANGED <<cursor, phase, pulled, pullTs, todo, found, payload, resTs, server, sver, clock, stored>>
         /\ a.sid \in Sids /\ a.sid # None /\ server[a.sid] # None /\ (Agreed(a) => a.ver > 0)
         /\ \/ a.op = "delete" /\ local' = Without(a.sid) /\ (a.ver > 0 => Agreed(a))
            \/ a.op # "delete" /\ UNCHANGED local /\ ~Agreed(a)
            \/ /\ a.op # "delete"
               /\ \E k \in Keys : \E r \in LocalRows :
                    /\ local' = [local EXCEPT ![k] = r] /\ local[k] # None
                    /\ r.status = "synced" /\ r.sid = a.sid /\ r.dirty = {}
                    /\ r.cols = local[k].cols /\ r.at = local[k].at
                    /\ Agreed(a) => r.cols = a.cols
                    /\ \A j \in Keys \ {k} : local[j] # None => local[j].sid # a.sid
                    /\ (k \in Sids => k = a.sid) /\ TableOf[k] = TableOf[a.sid]
                    /\ \/ a.op = "create" /\ k = a.key /\ local[k].status = "created" /\ local[k].sid = None
                       \/ a.op = "update" /\ local[k].sid = a.sid
<1>1. /\ phase = "ack" /\ acks' = acks \ {a}
      /\ seen' = [seen EXCEPT ![a.sid] = IF a.ver > 0 THEN a.ver ELSE @]
      /\ astray' = IF Agreed(a) THEN astray \ {a.sid} ELSE astray \cup {a.sid}
      /\ UNCHANGED <<cursor, phase, pulled, pullTs, todo, found, payload, resTs, server, sver, clock, stored>>
  BY DEF Acknowledge, worldVars, serverVars
<1>2. /\ a.key \in Keys /\ a.sid \in Sids /\ a.sid # None /\ server[a.sid] # None
      /\ a.op \in {"create", "update", "delete"} /\ (Agreed(a) => a.ver > 0)
  BY FieldTypes, Distinguished DEF SyncInv, AcksRight, Agreed, Keys
<1> DEFINE New(k) == Accepted(local[k], a.sid)
<1>3. ASSUME NEW k \in Keys, local[k] # None
      PROVE  /\ New(k) \in LocalRows /\ New(k).status = "synced" /\ New(k).sid = a.sid /\ New(k).dirty = {}
             /\ New(k).cols = local[k].cols /\ New(k).at = local[k].at
  <2>1. local[k] \in LocalRows
    BY <1>3, FieldTypes DEF SyncInv
  <2> QED
    BY <1>2, <2>1 DEF Accepted, LocalRows
<1>4. CASE a.op = "create" /\ local[a.key] # None
  <2>1. local' = [local EXCEPT ![a.key] = New(a.key)]
    BY <1>4 DEF Acknowledge, Accepted, SyncInv, TypeOK
  <2>2. /\ local[a.key].status = "created" /\ local[a.key].sid = None /\ TableOf[a.key] = TableOf[a.sid]
        /\ a.key \notin Sids
    BY <1>2, <1>4, Distinguished DEF DeviceInv, Answered, InTable, SyncInv, Known, Keys
  <2>3. \A j \in Keys \ {a.key} : local[j] # None => local[j].sid # a.sid
    BY <1>4 DEF SyncInv, AcksRight
  <2>4. Agreed(a) => local[a.key].cols = a.cols
    BY <1>4 DEF Agreed
  <2> HIDE DEF New
  <2> QED
    BY <1>1, <1>2, <1>3, <1>4, <2>1, <2>2, <2>3, <2>4
<1>5. CASE a.op = "update" /\ KeysOf(a.sid) # {}
  <2> DEFINE k == KeyFor(a.sid)
  <2>1. k \in Keys /\ local[k] # None /\ local[k].sid = a.sid
    BY <1>2, <1>5, KeyForFacts
  <2>2. local' = [local EXCEPT ![k] = New(k)]
    BY <1>5, <2>1 DEF Acknowledge, Accepted, SyncInv, TypeOK
  <2>3. TableOf[k] = TableOf[a.sid] /\ (k \in Sids => k = a.sid)
    BY <1>2, <2>1 DEF DeviceInv, InTable
  <2>4. \A j \in Keys \ {k} : local[j] # None => local[j].sid # a.sid
    BY <1>2, <2>1 DEF SyncInv, OneKey
  <2>5. Agreed(a) => local[k].cols = a.cols
    BY <1>5 DEF Agreed
  <2> HIDE DEF New, k
  <2> QED
    BY <1>1, <1>2, <1>3, <1>5, <2>1, <2>2, <2>3, <2>4, <2>5
<1>6. CASE a.op = "delete"
  <2>1. local' = Without(a.sid) /\ (a.ver > 0 => Agreed(a))
    BY <1>6 DEF Acknowledge, Agreed
  <2> QED
    BY <1>1, <1>2, <1>6, <2>1
<1>7. CASE a.op # "delete" /\ ~(a.op = "create" /\ local[a.key] # None) /\ ~(a.op = "update" /\ KeysOf(a.sid) # {})
  <2>1. UNCHANGED local /\ ~Agreed(a)
    BY <1>7 DEF Acknowledge, Agreed
  <2> QED
    BY <1>1, <1>2, <1>7, <2>1
<1> QED
  BY <1>2, <1>4, <1>5, <1>6, <1>7

LEMMA DeviceAck ==
  ASSUME SyncInv, DeviceInv, NEW a \in acks, Acknowledge(a)
  PROVE  DeviceInv'
<1>1. /\ phase = "ack" /\ acks' = acks \ {a}
      /\ seen' = [seen EXCEPT ![a.sid] = IF a.ver > 0 THEN a.ver ELSE @]
      /\ astray' = IF Agreed(a) THEN astray \ {a.sid} ELSE astray \cup {a.sid}
      /\ UNCHANGED <<phase, pulled, todo, found, payload, server, sver, clock, stored>>
      /\ a.sid \in Sids /\ a.sid # None /\ server[a.sid] # None /\ (Agreed(a) => a.ver > 0)
  BY AckFacts
<1>2. /\ found = None /\ payload = {} /\ \A s \in Sids : s # None /\ pulled[s] = None
      /\ local \in [Keys -> LocalRows \cup {None}] /\ seen \in [Sids -> Nat] /\ sver \in Nat
  BY <1>1, Distinguished DEF SyncInv, Leftovers, TypeOK, DeviceInv, Sent, Fresh, Keys
<1>3. /\ a.ver \in Nat /\ server[a.sid].ver \in Nat /\ server[a.sid].ver <= sver
      /\ a.ver > 0 => a.ver <= server[a.sid].ver
      /\ a.op \in {"create", "update", "delete"}
      /\ \A b \in acks : b.key \in Keys /\ b.sid \in Sids
  BY <1>1, FieldTypes DEF SyncInv, AcksRight, Versions
<1>4. Fresh' /\ FoundRight' /\ Sent' /\ Stamped'
  <2>1. \A s \in Sids : seen'[s] <= sver
    BY <1>1, <1>2, <1>3 DEF DeviceInv, Fresh
  <2> QED
    BY <1>1, <1>2, <2>1 DEF DeviceInv, Fresh, FoundRight, Sent, Stamped
\* What is known of the other acknowledgements, and of the other server rows.
<1>5. ASSUME InTable', UnconfirmedIsAstray',
             \A b \in acks' : b.op = "create" /\ local'[b.key] # None => local'[b.key].status = "created",
             \A b \in acks' : b.op = "delete" => \A k \in KeysOf(b.sid)' : local'[k].status = "deleted",
             \A s \in Sids \ {a.sid} : KeysOf(s)' = KeysOf(s) /\ \A k \in KeysOf(s) : local'[k] = local[k],
             \A q \in Sids : q = a.sid /\ seen'[q] = server[q].ver => Same(q)'
      PROVE  DeviceInv'
  <2>1. Answered'
    BY <1>1, <1>5 DEF DeviceInv, Answered
  <2>2. Mirror'
    <3> SUFFICES ASSUME NEW q \in Sids, server[q] # None, seen'[q] = server[q].ver PROVE Same(q)'
      BY <1>1 DEF Mirror
    <3>1. CASE q = a.sid
      BY <1>5, <3>1
    <3>2. CASE q # a.sid
      <4>1. Same(q) /\ (q \in astray' <=> q \in astray)
        BY <1>1, <1>2, <3>2 DEF DeviceInv, Mirror
      <4> QED
        BY <1>1, <1>5, <3>2, <4>1 DEF Same
    <3> QED
      BY <3>1, <3>2
  <2> QED
    BY <1>4, <1>5, <2>1, <2>2 DEF DeviceInv
<1>6. \A b \in acks' : b \in acks /\ b.sid # a.sid
  BY <1>1 DEF DeviceInv, Answered
<1>7. CASE a.op = "delete" /\ local' = Without(a.sid) /\ (a.ver > 0 => Agreed(a))
  <2>1. /\ \A k \in Keys : local'[k] # None => local'[k] = local[k] /\ local[k].sid # a.sid
        /\ \A k \in Keys : local[k] # None /\ local[k].sid # a.sid => local'[k] = local[k]
    BY <1>1, <1>7, WithoutFacts DEF Without, KeysOf
  <2>2. InTable' /\ UnconfirmedIsAstray'
    BY <1>1, <2>1 DEF DeviceInv, InTable, UnconfirmedIsAstray, Confirmed
  <2>3. \A s \in Sids \ {a.sid} : KeysOf(s)' = KeysOf(s) /\ \A k \in KeysOf(s) : local'[k] = local[k]
    BY <2>1 DEF KeysOf
  <2>4. \A b \in acks' : /\ b.op = "create" /\ local'[b.key] # None => local'[b.key].status = "created"
                         /\ b.op = "delete" => \A k \in KeysOf(b.sid)' : local'[k].status = "deleted"
    BY <1>3, <1>6, <2>1, <2>3 DEF DeviceInv, Answered
  <2>5. ASSUME NEW q \in Sids, q = a.sid, seen'[q] = server[q].ver PROVE Same(q)'
    <3>1. KeysOf(q)' = {}
      BY <2>1, <2>5 DEF KeysOf
    <3>2. server[q].dead \/ q \in astray'
      BY <1>1, <1>7, <2>5 DEF DeviceInv, Answered
    <3> QED
      BY <1>1, <3>1, <3>2 DEF Same
  <2> QED
    BY <1>5, <2>2, <2>3, <2>4, <2>5
<1>8. CASE a.op # "delete" /\ UNCHANGED local /\ ~Agreed(a)
  <2>1. InTable' /\ UnconfirmedIsAstray'
    BY <1>1, <1>8 DEF DeviceInv, InTable, UnconfirmedIsAstray, Confirmed
  <2>2. \A s \in Sids : KeysOf(s)' = KeysOf(s) /\ \A k \in KeysOf(s) : local'[k] = local[k]
    BY <1>8 DEF KeysOf
  <2>3. \A b \in acks' : /\ b.op = "create" /\ local'[b.key] # None => local'[b.key].status = "created"
                         /\ b.op = "delete" => \A k \in KeysOf(b.sid)' : local'[k].status = "deleted"
    BY <1>3, <1>6, <1>8, <2>2 DEF DeviceInv, Answered
  <2>4. ASSUME NEW q \in Sids, q = a.sid, seen'[q] = server[q].ver PROVE Same(q)'
    <3>1. q \in astray'
      BY <1>1, <1>8, <2>4
    <3>2. server[q].dead => KeysOf(q) = {}
      <4>1. CASE a.ver > 0
        BY <1>1, <1>2, <1>8, <2>4, <4>1 DEF DeviceInv, Answered
      <4>2. CASE ~(a.ver > 0)
        BY <1>1, <1>2, <2>4, <4>2 DEF DeviceInv, Mirror, Same
      <4> QED
        BY <4>1, <4>2
    <3> QED
      BY <1>1, <2>2, <3>1, <3>2 DEF Same
  <2> QED
    BY <1>5, <2>1, <2>2, <2>3, <2>4
<1>9. ASSUME NEW k \in Keys, NEW r \in LocalRows, a.op # "delete",
             local' = [local EXCEPT ![k] = r], local[k] # None,
             r.status = "synced", r.sid = a.sid, r.dirty = {}, r.cols = local[k].cols, r.at = local[k].at,
             Agreed(a) => r.cols = a.cols,
             \A j \in Keys \ {k} : local[j] # None => local[j].sid # a.sid,
             (k \in Sids => k = a.sid) /\ TableOf[k] = TableOf[a.sid],
             \/ a.op = "create" /\ k = a.key /\ local[k].status = "created" /\ local[k].sid = None
             \/ a.op = "update" /\ local[k].sid = a.sid
      PROVE  DeviceInv'
  <2>1. r # None /\ local'[k] = r /\ \A j \in Keys \ {k} : local'[j] = local[j]
    BY <1>2, <1>9, Distinguished
  <2>2. InTable'
    BY <1>1, <1>9, <2>1 DEF DeviceInv, InTable
  <2>3. Agreed(a) => \A c \in Cols : r.cols[c] \in stored
    BY <1>1, <1>9 DEF DeviceInv, Answered
  <2>4. UnconfirmedIsAstray'
    BY <1>1, <1>9, <2>1, <2>3 DEF DeviceInv, UnconfirmedIsAstray, Confirmed
  <2>5. \A s \in Sids \ {a.sid} : KeysOf(s)' = KeysOf(s) /\ \A j \in KeysOf(s) : local'[j] = local[j]
    BY <1>1, <1>2, <1>9, <2>1 DEF KeysOf
  <2>6. \A b \in acks' : /\ b.op = "create" /\ local'[b.key] # None => local'[b.key].status = "created"
                         /\ b.op = "delete" => \A j \in KeysOf(b.sid)' : local'[j].status = "deleted"
    <3>1. ASSUME NEW b \in acks', b.op = "create" PROVE b.key # k
      <4>1. a.op = "create" => b.key # a.key
        BY <1>1, <3>1 DEF DeviceInv, Answered
      <4>2. local[b.key] # None => local[b.key].status = "created" /\ local[b.key].sid = None
        BY <1>3, <1>6, <3>1 DEF DeviceInv, Answered, SyncInv, Known
      <4> QED
        BY <1>1, <1>9, <4>1, <4>2
    <3> QED
      BY <1>3, <1>6, <2>1, <2>5, <3>1 DEF DeviceInv, Answered
  <2>7. ASSUME NEW q \in Sids, q = a.sid, seen'[q] = server[q].ver PROVE Same(q)'
    <3>1. k \in KeysOf(q)' /\ \A j \in KeysOf(q)' : j = k
      BY <1>9, <2>1, <2>7 DEF KeysOf
    <3>2. a.ver > 0 => ~server[q].dead /\ server[q].cols = a.cols
      BY <1>1, <1>2, <1>9, <2>7 DEF DeviceInv, Answered
    <3>3. ~(a.ver > 0) => ~server[q].dead /\ q \in astray'
      <4> SUFFICES ASSUME ~(a.ver > 0) PROVE ~server[q].dead /\ q \in astray'
        OBVIOUS
      <4>1. a.op = "update" /\ k \in KeysOf(q)
        BY <1>9, <2>7 DEF DeviceInv, Answered, KeysOf
      <4>2. Same(q)
        BY <1>1, <1>2, <2>7 DEF DeviceInv, Mirror
      <4> QED
        BY <1>1, <2>7, <4>1, <4>2 DEF Same
    <3>4. Agreed(a) \/ q \in astray'
      BY <1>1, <2>7
    <3> QED
      BY <1>1, <1>9, <2>1, <3>1, <3>2, <3>3, <3>4 DEF Same
  <2> QED
    BY <1>5, <2>2, <2>4, <2>5, <2>6, <2>7
<1> QED
  BY <1>7, <1>8, <1>9, AckFacts

LEMMA DeviceStep == SyncInv /\ DeviceInv /\ [Next]_vars => DeviceInv'
<1> SUFFICES ASSUME SyncInv, DeviceInv, [Next]_vars PROVE DeviceInv'
  OBVIOUS
<1>1. CASE SyncStep
  BY <1>1, DeviceQuiet, DeviceApply, DeviceTombstone, DevicePush, DeviceAck DEF SyncStep
<1>2. CASE Fail
  BY <1>2, DeviceQuiet
<1>3. CASE \E l \in Lids : UserCreates(l)
  BY <1>3, DeviceUser DEF Keys
<1>4. CASE \E k \in Keys : UserDeletes(k) \/ \E c \in Cols : UserEdits(k, c)
  BY <1>4, DeviceUser
<1>5. CASE \E s \in Sids : ForeignWrites(s)
  BY <1>5, DeviceForeign
<1>6. CASE UNCHANGED vars
  <2>1. UNCHANGED <<local, phase, pulled, found, payload, acks, server, sver, clock, stored, seen, astray>>
    BY <1>6 DEF vars
  <2> QED
    BY <2>1 DEF DeviceInv, Fresh, FoundRight, InTable, Sent, Answered, Mirror, Same, KeysOf, Stamped,
       UnconfirmedIsAstray, Confirmed
<1> QED
  BY <1>1, <1>2, <1>3, <1>4, <1>5, <1>6 DEF Next

\* For any rows, tables and columns, whatever is written at any await, conflicts,
\* is rejected or lost: what a sync works on is what the server has or had, and a
\* server row dealt with is held as the server has it, is dirty or went astray.
THEOREM DeviceInvariant == Spec => []DeviceInv
  BY DeviceInit, DeviceStep, SyncInvariant, PTL DEF Spec

\* A synced row holds what has been on the server (schema.ts), unless a merge, a
\* rejection or an edit in flight left it astray.
THEOREM OnlyAstrayUnconfirmed == Spec => []UnconfirmedIsAstray
<1>1. DeviceInv => UnconfirmedIsAstray
  BY DEF DeviceInv
<1> QED
  BY <1>1, DeviceInvariant, PTL

\* After any conflicts, a device with the server's latest cursor has the server's
\* live rows, and its synced rows equal them, but for those that went astray.
THEOREM AlwaysConverges == Spec => []Converged
<1>1. SyncInv /\ DeviceInv => Converged
  <2> SUFFICES ASSUME SyncInv, DeviceInv, cursor = sver PROVE
                 /\ \A s \in Sids \ astray : server[s] # None /\ ~server[s].dead => KeysOf(s) # {}
                 /\ \A k \in Keys : local[k] # None /\ local[k].status = "synced" /\ local[k].sid \notin astray =>
                      ~server[local[k].sid].dead /\ local[k].cols = server[local[k].sid].cols
    BY DEF Converged
  <2>1. \A s \in Sids : server[s] # None => Same(s)
    BY DEF SyncInv, CursorCovers, Versions, DeviceInv, Mirror
  <2>2. ASSUME NEW k \in Keys, local[k] # None, local[k].status = "synced", local[k].sid \notin astray
        PROVE  ~server[local[k].sid].dead /\ local[k].cols = server[local[k].sid].cols
    <3>1. PICK s \in Sids : local[k].sid = s /\ server[s] # None
      BY <2>2, FieldTypes DEF SyncInv, Known
    <3>2. k \in KeysOf(s)
      BY <2>2, <3>1 DEF KeysOf
    <3> QED
      BY <2>1, <2>2, <3>1, <3>2 DEF Same
  <2> QED
    BY <2>1, <2>2 DEF Same
<1> QED
  BY <1>1, SyncInvariant, DeviceInvariant, PTL

\* A tombstone waits until the server has the deletion, but for a pulled row
\* written over it, a rejected deletion and an update acknowledged over it.
THEOREM TombstonesKept == Spec => TombstoneKept
<1> DEFINE Kept(k) == local[k] # None /\ local[k].status = "deleted" =>
             LET s == local[k].sid
             IN  \/ local'[k] # None /\ local'[k].status = "deleted"
                 \/ local'[k] = None /\ server[s].dead
                 \/ phase = "apply" /\ found # None /\ found.sid = s /\ local'[k] # None
                 \/ \E a \in acks : a.sid = s /\ a.op = "delete" /\ a.ver = 0 /\ local'[k] = None
                 \/ \E a \in acks : a.sid = s /\ a.op = "update" /\ local'[k] # None
<1>1. ASSUME SyncInv, DeviceInv, [Next]_vars, NEW k \in Keys PROVE Kept(k)
  <2> SUFFICES ASSUME local[k] # None, local[k].status = "deleted" PROVE Kept(k)
    OBVIOUS
  <2>0. local \in [Keys -> LocalRows \cup {None}] /\ local[k].sid \in Sids
    BY <1>1, FieldTypes DEF SyncInv, TypeOK, Known
  <2>1. CASE UNCHANGED local
    BY <2>1
  <2>2. ASSUME NEW l \in Keys, (l \in Lids /\ UserCreates(l)) \/ UserDeletes(l) \/ \E c \in Cols : UserEdits(l, c)
        PROVE  Kept(k)
    <3>1. /\ local[l] # None => local[l].status # "deleted"
          /\ \E r : local' = [local EXCEPT ![l] = r]
      BY <1>1, <2>2, UserFacts
    <3>2. l # k /\ local'[k] = local[k]
      BY <2>0, <3>1
    <3> QED
      BY <3>2
  <2>3. CASE ApplyFound
    <3> DEFINE s == found.sid
               j == KeyFor(s)
    <3>1. /\ phase = "apply" /\ found # None /\ j \in Keys /\ (local[j] # None => local[j].sid = s)
          /\ local' = local \/ \E r \in LocalRows : local' = [local EXCEPT ![j] = r]
      BY <1>1, <2>3, ApplyFacts
    <3> HIDE DEF s, j
    <3>2. PICK r \in LocalRows : local' = local \/ local' = [local EXCEPT ![j] = r]
      BY <2>0, <3>1
    <3>3. r # None
      BY Distinguished
    <3> QED
      BY <2>0, <3>1, <3>2, <3>3 DEF s
  <2>4. ASSUME NEW s \in Sids, ApplyTombstone(s) PROVE Kept(k)
    <3>1. server[s].dead /\ local' = Without(s)
      BY <1>1, <2>4, DeviceTombstone DEF ApplyTombstone
    <3>2. local[k].sid # s => local'[k] = local[k]
      BY <1>1, <3>1, WithoutFacts
    <3>3. local[k].sid = s => local'[k] = None
      BY <3>1 DEF Without, KeysOf
    <3> QED
      BY <3>1, <3>2, <3>3
  <2>5. ASSUME NEW a \in acks, Acknowledge(a) PROVE Kept(k)
    <3>1. a.sid \in Sids /\ a.ver \in Nat
      BY <1>1, FieldTypes DEF SyncInv
    <3>2. CASE a.op = "delete" /\ local' = Without(a.sid)
      <4>1. local[k].sid # a.sid => local'[k] = local[k]
        BY <1>1, <3>1, <3>2, WithoutFacts
      <4>2. local[k].sid = a.sid => local'[k] = None
        BY <3>2 DEF Without, KeysOf
      <4>3. a.ver > 0 => server[a.sid].dead
        BY <1>1, <3>2 DEF DeviceInv, Answered
      <4> QED
        BY <3>1, <3>2, <4>1, <4>2, <4>3
    <3>3. ASSUME NEW j \in Keys, NEW r \in LocalRows, local' = [local EXCEPT ![j] = r],
                 \/ local[j].status = "created"
                 \/ a.op = "update" /\ local[j].sid = a.sid
          PROVE  Kept(k)
      <4>1. r # None
        BY Distinguished
      <4>2. CASE j # k
        BY <2>0, <3>3, <4>2
      <4>3. CASE j = k
        BY <2>0, <3>3, <4>1, <4>3
      <4> QED
        BY <4>2, <4>3
    <3> QED
      BY <1>1, <2>1, <2>5, <3>2, <3>3, AckFacts
  <2>6. CASE Next
    BY <2>1, <2>2, <2>3, <2>4, <2>5, <2>6 DEF Next, SyncStep, Pull, Find, AdvanceCursor, Collect, Cleared,
       Push, Finish, Fail, ForeignWrites, Keys
  <2> QED
    BY <1>1, <2>1, <2>6 DEF vars
<1>2. SyncInv /\ DeviceInv /\ [Next]_vars => [\A k \in Keys : Kept(k)]_vars
  BY <1>1
<1> QED
  BY <1>2, SyncInvariant, DeviceInvariant, PTL DEF Spec, TombstoneKept

\* Conflict resolution and acknowledgement keep the values of edited columns, unless
\* the edit came between findByServerId and upsertSynced, or the server's row is dead.
THEOREM EditsKept == Spec => EditKept
<1> DEFINE Kept(k, c) == local[k] # None /\ local[k].status = "updated" /\ c \in local[k].dirty =>
             \/ local'[k] # None /\ local'[k].cols[c] = local[k].cols[c]
             \/ clock' > clock
             \/ server[local[k].sid].dead
             \/ found # None /\ found.sid = local[k].sid
                /\ found.row # None /\ found.row.at < local[k].at
<1>1. ASSUME SyncInv, DeviceInv, [Next]_vars, NEW k \in Keys, NEW c \in Cols PROVE Kept(k, c)
  <2> SUFFICES ASSUME local[k] # None, local[k].status = "updated", c \in local[k].dirty PROVE Kept(k, c)
    OBVIOUS
  <2>0. /\ local \in [Keys -> LocalRows \cup {None}] /\ local[k].sid \in Sids /\ clock \in Nat
        /\ TableOf[k] = "sessions" /\ TableOf[local[k].sid] = "sessions"
    BY <1>1, FieldTypes, Distinguished DEF SyncInv, TypeOK, Known, DeviceInv, InTable, Keys
  <2>1. CASE UNCHANGED local
    BY <2>1
  <2>2. CASE clock' = clock + 1
    BY <2>0, <2>2
  <2>3. CASE ApplyFound
    <3> DEFINE s == found.sid
               j == KeyFor(s)
    <3>1. /\ found # None /\ s \in todo /\ j \in Keys /\ (local[j] # None => local[j].sid = s)
          /\ \A i \in Keys \ {j} : local[i] # None => local[i].sid # s
          /\ \/ local' = local
             \/ \E r \in LocalRows :
                  /\ local' = [local EXCEPT ![j] = r]
                  /\ found.row # None /\ TableOf[s] = "sessions" =>
                       \A d \in found.row.dirty : r.cols[d] = found.row.cols[d]
      BY <1>1, <2>3, ApplyFacts
    <3>2. s \in Sids /\ (found.row # None => found.row \in LocalRows)
      BY <1>1, <3>1 DEF SyncInv, TypeOK
    <3> HIDE DEF s, j
    <3>3. CASE local' = local
      BY <3>3
    <3>4. ASSUME NEW r \in LocalRows, local' = [local EXCEPT ![j] = r],
                 found.row # None /\ TableOf[s] = "sessions" =>
                   \A d \in found.row.dirty : r.cols[d] = found.row.cols[d]
          PROVE  Kept(k, c)
      <4>1. CASE j # k
        BY <2>0, <3>4, <4>1
      <4>2. CASE j = k
        <5>1. local[k].sid = s /\ k \in KeysOf(s) /\ \A i \in KeysOf(s) : i = k
          BY <3>1, <4>2 DEF KeysOf
        <5>2. /\ found.row # None /\ found.row.at <= local[k].at
              /\ found.row.at = local[k].at => local[k].dirty = found.row.dirty /\ local[k].cols = found.row.cols
          BY <1>1, <3>1, <5>1 DEF DeviceInv, FoundRight, s
        <5>3. CASE found.row.at = local[k].at
          BY <2>0, <3>4, <4>2, <5>1, <5>2, <5>3, Distinguished
        <5>4. CASE found.row.at # local[k].at
          <6>1. found.row.at \in Nat /\ local[k].at \in Nat
            BY <1>1, <3>2, <5>2, FieldTypes DEF SyncInv, LocalRows
          <6> QED
            BY <3>1, <5>1, <5>2, <5>4, <6>1 DEF s
        <5> QED
          BY <5>3, <5>4
      <4> QED
        BY <4>1, <4>2
    <3> QED
      BY <3>1, <3>3, <3>4
  <2>4. ASSUME NEW s \in Sids, ApplyTombstone(s) PROVE Kept(k, c)
    <3>1. server[s].dead /\ local' = Without(s)
      BY <1>1, <2>4, DeviceTombstone DEF ApplyTombstone
    <3>2. local[k].sid # s => local'[k] = local[k]
      BY <1>1, <3>1, WithoutFacts
    <3> QED
      BY <3>1, <3>2
  <2>5. ASSUME NEW a \in acks, Acknowledge(a) PROVE Kept(k, c)
    <3>1. a.sid \in Sids
      BY <1>1, FieldTypes DEF SyncInv
    <3>2. CASE a.op = "delete" /\ local' = Without(a.sid)
      <4>1. local[k].sid # a.sid
        BY <1>1, <3>2 DEF DeviceInv, Answered, KeysOf
      <4> QED
        BY <1>1, <3>1, <3>2, <4>1, WithoutFacts
    <3>3. ASSUME NEW j \in Keys, NEW r \in LocalRows, local' = [local EXCEPT ![j] = r], r.cols = local[j].cols
          PROVE  Kept(k, c)
      BY <2>0, <3>3, Distinguished
    <3> QED
      BY <1>1, <2>1, <2>5, <3>2, <3>3, AckFacts
  <2>6. CASE Next
    BY <2>1, <2>2, <2>3, <2>4, <2>5, <2>6 DEF Next, SyncStep, Pull, Find, AdvanceCursor, Collect, Cleared,
       Push, Finish, Fail, ForeignWrites, UserCreates, UserDeletes, UserEdits, Keys
  <2> QED
    BY <1>1, <2>1, <2>6 DEF vars
<1>2. SyncInv /\ DeviceInv /\ [Next]_vars => [\A k \in Keys : \A c \in Cols : Kept(k, c)]_vars
  BY <1>1
<1> QED
  BY <1>2, SyncInvariant, DeviceInvariant, PTL DEF Spec, EditKept

=============================================================================
