---------------------------- MODULE PhoneProofs -----------------------------
(* Recording with the phone.  The accounting of PhoneCamera holds for any    *)
(* number of emitter threads and any capacities.  For any number of takes    *)
(* and any order of the callbacks, the screen of PhoneRecording is right     *)
(* about the permission, and about the camera as long as only the user ends  *)
(* takes; and it never goes back to an older take.                           *)
EXTENDS PhoneCamera, PhoneRecording, FiniteSetTheorems, TLAPS

-----------------------------------------------------------------------------
(* The rings and their counters.                                             *)

LEMMA InitInv ==
  ASSUME Init
  PROVE  CameraInv
<1> USE PhoneCameraAssumption DEF Init
<1>1. TypeOK
  BY DEF TypeOK, Media
<1>2. RingBounded
  BY DEF RingBounded
<1>3. PushesAccounted
  BY DEF PushesAccounted, Evicting
<1>4. LocksHeld /\ FoundStillTrue
  BY DEF LocksHeld, FoundStillTrue, Media
<1> QED
  BY <1>1, <1>2, <1>3, <1>4 DEF CameraInv

\* What TypeOK says of one medium.
LEMMA MediumTypes ==
  ASSUME TypeOK, NEW k \in Media
  PROVE  /\ ring[k] \in Seq(Nat) /\ Len(ring[k]) \in Nat
         /\ polled[k] \in Seq(Nat) /\ Len(polled[k]) \in Nat
         /\ told[k] \in Nat /\ dropped[k] \in Nat /\ seq[k] \in Nat
         /\ Capacity[k] \in Nat \ {0}
<1>1. /\ ring \in [Media -> Seq(Nat)] /\ polled \in [Media -> Seq(Nat)]
      /\ told \in [Media -> Nat] /\ dropped \in [Media -> Nat] /\ seq \in [Media -> Nat]
  BY DEF TypeOK
<1> QED
  BY <1>1, PhoneCameraAssumption

\* Only the holder of a lock can be evicting.
LEMMA EvictingHolds ==
  ASSUME CameraInv, NEW e \in Emitters
  PROVE  /\ push[e] = "evicting" => Evicting(Medium[e])
         /\ push[e] = "appending" => ~Evicting(Medium[e])
         /\ holder[Medium[e]] = None => ~Evicting(Medium[e])
<1> USE PhoneCameraAssumption DEF CameraInv, LocksHeld, Evicting
<1>1. push[e] = "evicting" => Evicting(Medium[e])
  OBVIOUS
<1>2. push[e] = "appending" => ~Evicting(Medium[e])
  OBVIOUS
<1>3. holder[Medium[e]] = None => ~Evicting(Medium[e])
  OBVIOUS
<1> QED
  BY <1>1, <1>2, <1>3

LEMMA NumberInv ==
  ASSUME CameraInv, NEW e \in Emitters, Number(e)
  PROVE  CameraInv'
<1> DEFINE m == Medium[e]
<1>1. m \in Media /\ NextNumber(m) \in Nat
  BY PhoneCameraAssumption, MediumTypes DEF CameraInv, NextNumber
<1>2. /\ seq' = [seq EXCEPT ![m] = NextNumber(m)]
      /\ num' = [num EXCEPT ![e] = NextNumber(m)]
      /\ push[e] = "idle" /\ push' = [push EXCEPT ![e] = push'[e]]
      /\ push'[e] \in {"idle", "numbered"}
      /\ UNCHANGED <<available, holder, ring, dropped, told, polled, reading, stats>>
  BY DEF Number, readerVars, CameraInv, TypeOK
<1>3. TypeOK'
  <2>1. seq' \in [Media -> Nat] /\ num' \in [Emitters -> Nat]
    BY <1>1, <1>2 DEF CameraInv, TypeOK
  <2>2. push' \in [Emitters -> {"idle", "numbered", "evicting", "appending"}]
    BY <1>2 DEF CameraInv, TypeOK
  <2> QED
    BY <1>2, <2>1, <2>2 DEF CameraInv, TypeOK
<1>4. \A f \in Emitters : \A s \in {"evicting", "appending"} : push'[f] = s <=> push[f] = s
  BY <1>2 DEF CameraInv, TypeOK
<1>5. RingBounded' /\ LocksHeld' /\ FoundStillTrue'
  BY <1>2, <1>4 DEF CameraInv, RingBounded, LocksHeld, FoundStillTrue, Full
<1>6. PushesAccounted'
  BY <1>2, <1>4 DEF CameraInv, PushesAccounted, Evicting
<1> QED
  BY <1>3, <1>5, <1>6 DEF CameraInv

LEMMA BeginPushInv ==
  ASSUME CameraInv, NEW e \in Emitters, BeginPush(e)
  PROVE  CameraInv'
<1> DEFINE m == Medium[e]
<1>1. m \in Media /\ ~Evicting(m)
  BY EvictingHolds, PhoneCameraAssumption DEF BeginPush
<1>2. /\ push[e] = "numbered" /\ holder[m] = None
      /\ holder' = [holder EXCEPT ![m] = e]
      /\ dropped' = IF Full(m) THEN [dropped EXCEPT ![m] = @ + 1] ELSE dropped
      /\ push' = [push EXCEPT ![e] = IF Full(m) THEN "evicting" ELSE "appending"]
      /\ UNCHANGED <<available, seq, num, ring, told, polled, reading, stats>>
  BY DEF BeginPush, readerVars
<1>3. /\ dropped'[m] = dropped[m] + (IF Full(m) THEN 1 ELSE 0)
      /\ \A k \in Media \ {m} : dropped'[k] = dropped[k] /\ holder'[k] = holder[k]
      /\ dropped' \in [Media -> Nat] /\ holder'[m] = e
  BY <1>1, <1>2 DEF CameraInv, TypeOK
<1>4. /\ push'[e] = IF Full(m) THEN "evicting" ELSE "appending"
      /\ \A f \in Emitters \ {e} : push'[f] = push[f]
  BY <1>2 DEF CameraInv, TypeOK
<1>5. TypeOK'
  <2>1. push' \in [Emitters -> {"idle", "numbered", "evicting", "appending"}]
    BY <1>2 DEF CameraInv, TypeOK
  <2>2. holder' \in [Media -> Emitters \cup {None}]
    BY <1>2 DEF CameraInv, TypeOK
  <2> QED
    BY <1>2, <1>3, <2>1, <2>2 DEF CameraInv, TypeOK
<1>6. LocksHeld'
  BY <1>1, <1>2, <1>3, <1>4, PhoneCameraAssumption DEF CameraInv, LocksHeld
<1>7. RingBounded' /\ FoundStillTrue'
  BY <1>2, <1>4 DEF CameraInv, RingBounded, FoundStillTrue, Full
<1>8. /\ Evicting(m)' <=> Full(m)
      /\ \A k \in Media \ {m} : Evicting(k)' = Evicting(k)
  BY <1>1, <1>4 DEF Evicting
<1>9. ASSUME NEW k \in Media
      PROVE  told'[k] + (IF Evicting(k)' THEN 1 ELSE 0)
               = Len(polled'[k]) + Len(ring'[k]) + dropped'[k]
  <2> DEFINE t == told[k]   p == Len(polled[k])   r == Len(ring[k])   d == dropped[k]
             t2 == told'[k] p2 == Len(polled'[k]) r2 == Len(ring'[k]) d2 == dropped'[k]
             x == IF Evicting(k) THEN 1 ELSE 0
             x2 == IF Evicting(k)' THEN 1 ELSE 0
  <2>1. /\ t \in Nat /\ p \in Nat /\ r \in Nat /\ d \in Nat /\ x \in {0, 1} /\ x2 \in {0, 1}
        /\ t + x = p + r + d
    BY MediumTypes DEF CameraInv, PushesAccounted
  <2>2. t2 = t /\ p2 = p /\ r2 = r
    BY <1>2
  <2>3. CASE k = m
    <3>1. x = 0 /\ x2 = (IF Full(m) THEN 1 ELSE 0) /\ d2 = d + x2
      BY <1>1, <1>3, <1>8, <2>3
    <3> HIDE DEF t, p, r, d, t2, p2, r2, d2, x, x2
    <3>2. t2 + x2 = p2 + r2 + d2
      BY <2>1, <2>2, <3>1
    <3> QED
      BY <3>2 DEF t2, p2, r2, d2, x2
  <2>4. CASE k # m
    BY <1>3, <1>8, <2>1, <2>2, <2>4
  <2> QED
    BY <2>3, <2>4
<1>10. PushesAccounted'
  BY <1>9 DEF PushesAccounted
<1> QED
  BY <1>5, <1>6, <1>7, <1>10 DEF CameraInv

LEMMA EndPushInv ==
  ASSUME CameraInv, NEW e \in Emitters, EndPush(e)
  PROVE  CameraInv'
<1> DEFINE m == Medium[e]
           room == IF push[e] = "evicting" THEN Evict(ring[m]) ELSE ring[m]
<1>1. /\ push[e] \in {"evicting", "appending"}
      /\ ring' = [ring EXCEPT ![m] = Append(room, num[e])]
      /\ holder' = [holder EXCEPT ![m] = None]
      /\ told' = [told EXCEPT ![m] = @ + 1]
      /\ push' = [push EXCEPT ![e] = "idle"]
      /\ UNCHANGED <<available, seq, num, dropped, polled, reading, stats>>
  BY DEF EndPush, readerVars
<1>2. /\ m \in Media /\ (Evicting(m) <=> push[e] = "evicting") /\ holder[m] = e
  BY <1>1, EvictingHolds, PhoneCameraAssumption DEF CameraInv, LocksHeld
<1>3. /\ room \in Seq(Nat) /\ Len(room) < Capacity[m]
      /\ Len(room) = Len(ring[m]) - (IF push[e] = "evicting" THEN 1 ELSE 0)
  <2>1. /\ ring[m] \in Seq(Nat) /\ Len(ring[m]) \in Nat /\ Len(ring[m]) <= Capacity[m]
        /\ Capacity[m] \in Nat \ {0}
        /\ push[e] = "evicting" => Len(ring[m]) >= Capacity[m]
        /\ push[e] = "appending" => ~(Len(ring[m]) >= Capacity[m])
    BY <1>2, MediumTypes DEF CameraInv, RingBounded, FoundStillTrue, Full
  <2>2. CASE push[e] = "evicting"
    <3>1. ring[m] # <<>>
      BY <2>1, <2>2
    <3> QED
      BY <2>1, <2>2, <3>1 DEF Evict
  <2>3. CASE push[e] = "appending"
    BY <2>1, <2>3
  <2> QED
    BY <1>1, <2>2, <2>3
<1> HIDE DEF room
<1>4. num[e] \in Nat /\ Append(room, num[e]) \in Seq(Nat)
      /\ Len(Append(room, num[e])) = Len(room) + 1
  BY <1>3 DEF CameraInv, TypeOK
<1>5. /\ ring' \in [Media -> Seq(Nat)] /\ ring'[m] = Append(room, num[e])
      /\ \A k \in Media \ {m} : ring'[k] = ring[k]
  BY <1>1, <1>2, <1>4 DEF CameraInv, TypeOK
<1>6. /\ told' \in [Media -> Nat] /\ told'[m] = told[m] + 1
      /\ holder' \in [Media -> Emitters \cup {None}] /\ holder'[m] = None
      /\ \A k \in Media \ {m} : told'[k] = told[k] /\ holder'[k] = holder[k]
  BY <1>1, <1>2 DEF CameraInv, TypeOK
<1>7. /\ push' \in [Emitters -> {"idle", "numbered", "evicting", "appending"}]
      /\ push'[e] = "idle" /\ \A f \in Emitters \ {e} : push'[f] = push[f]
  BY <1>1 DEF CameraInv, TypeOK
<1>8. TypeOK'
  BY <1>1, <1>5, <1>6, <1>7 DEF CameraInv, TypeOK
<1>9. RingBounded'
  <2>1. Len(ring'[m]) <= Capacity[m]
    <3>1. Len(room) \in Nat /\ Capacity[m] \in Nat
      BY <1>2, <1>3, PhoneCameraAssumption
    <3>2. Len(room) + 1 <= Capacity[m]
      <4> DEFINE l == Len(room) c == Capacity[m]
      <4>1. l < c /\ l \in Nat /\ c \in Nat
        BY <1>3, <3>1
      <4> HIDE DEF l, c
      <4>2. l + 1 <= c
        BY <4>1
      <4> QED
        BY <4>2 DEF l, c
    <3>3. Len(ring'[m]) = Len(room) + 1
      BY <1>4, <1>5
    <3> QED
      BY <3>2, <3>3
  <2> QED
    BY <1>5, <2>1 DEF CameraInv, RingBounded
<1>10. \A f \in Emitters \ {e} : Medium[f] = m => push[f] \notin {"evicting", "appending"}
  BY <1>2 DEF CameraInv, LocksHeld
<1>11. LocksHeld'
  BY <1>6, <1>7, <1>10, PhoneCameraAssumption DEF CameraInv, LocksHeld
<1>12. FoundStillTrue'
  BY <1>5, <1>7, <1>10, PhoneCameraAssumption DEF CameraInv, FoundStillTrue, Full
<1>13. ~Evicting(m)' /\ \A k \in Media \ {m} : Evicting(k)' = Evicting(k)
  BY <1>7, <1>10 DEF Evicting
<1>14. ASSUME NEW k \in Media
       PROVE  told'[k] + (IF Evicting(k)' THEN 1 ELSE 0)
                = Len(polled'[k]) + Len(ring'[k]) + dropped'[k]
  <2> DEFINE t == told[k]   p == Len(polled[k])   r == Len(ring[k])   d == dropped[k]
             t2 == told'[k] p2 == Len(polled'[k]) r2 == Len(ring'[k]) d2 == dropped'[k]
             x == IF Evicting(k) THEN 1 ELSE 0
             x2 == IF Evicting(k)' THEN 1 ELSE 0
  <2>1. /\ t \in Nat /\ p \in Nat /\ r \in Nat /\ d \in Nat /\ x \in {0, 1} /\ x2 \in {0, 1}
        /\ t + x = p + r + d
    BY MediumTypes DEF CameraInv, PushesAccounted
  <2>2. p2 = p /\ d2 = d
    BY <1>1
  <2>3. CASE k = m
    <3>1. t2 = t + 1 /\ x2 = 0 /\ r2 = Len(room) + 1
      BY <1>4, <1>5, <1>6, <1>13, <2>3
    <3>2. Len(room) = r - x
      BY <1>1, <1>2, <1>3, <2>3
    <3> HIDE DEF t, p, r, d, t2, p2, r2, d2, x, x2
    <3>3. t2 + x2 = p2 + r2 + d2
      BY <2>1, <2>2, <3>1, <3>2
    <3> QED
      BY <3>3 DEF t2, p2, r2, d2, x2
  <2>4. CASE k # m
    BY <1>5, <1>6, <1>13, <2>1, <2>2, <2>4
  <2> QED
    BY <2>3, <2>4
<1>15. PushesAccounted'
  BY <1>14 DEF PushesAccounted
<1> QED
  BY <1>8, <1>9, <1>11, <1>12, <1>15 DEF CameraInv

LEMMA PollInv ==
  ASSUME CameraInv, NEW m \in Media, Poll(m)
  PROVE  CameraInv'
<1>1. /\ holder[m] = None /\ ring[m] # <<>>
      /\ polled' = [polled EXCEPT ![m] = Append(@, Head(ring[m]))]
      /\ ring' = [ring EXCEPT ![m] = Tail(@)]
      /\ UNCHANGED <<available, seq, push, num, holder, dropped, told, reading, stats>>
  BY DEF Poll, emitterVars, readerVars
<1>2. /\ Tail(ring[m]) \in Seq(Nat) /\ Len(Tail(ring[m])) = Len(ring[m]) - 1
      /\ Append(polled[m], Head(ring[m])) \in Seq(Nat)
      /\ Len(Append(polled[m], Head(ring[m]))) = Len(polled[m]) + 1
  BY <1>1, MediumTypes DEF CameraInv
<1>3. /\ ring' \in [Media -> Seq(Nat)] /\ Len(ring'[m]) = Len(ring[m]) - 1
      /\ polled' \in [Media -> Seq(Nat)] /\ Len(polled'[m]) = Len(polled[m]) + 1
      /\ \A k \in Media \ {m} : ring'[k] = ring[k] /\ polled'[k] = polled[k]
  BY <1>1, <1>2 DEF CameraInv, TypeOK
<1>4. TypeOK'
  BY <1>1, <1>3 DEF CameraInv, TypeOK
<1>5. RingBounded'
  <2>1. Len(ring'[m]) <= Capacity[m]
    BY <1>3, MediumTypes DEF CameraInv, RingBounded
  <2> QED
    BY <1>3, <2>1 DEF CameraInv, RingBounded
<1>6. LocksHeld' /\ \A k \in Media : Evicting(k)' = Evicting(k)
  BY <1>1 DEF CameraInv, LocksHeld, Evicting
<1>7. \A e \in Emitters : Medium[e] = m => push[e] \notin {"evicting", "appending"}
  BY <1>1, PhoneCameraAssumption DEF CameraInv, LocksHeld
<1>8. FoundStillTrue'
  BY <1>1, <1>3, <1>7, PhoneCameraAssumption DEF CameraInv, FoundStillTrue, Full
<1>9. ASSUME NEW k \in Media
      PROVE  told'[k] + (IF Evicting(k)' THEN 1 ELSE 0)
               = Len(polled'[k]) + Len(ring'[k]) + dropped'[k]
  <2> DEFINE t == told[k]   p == Len(polled[k])   r == Len(ring[k])   d == dropped[k]
             t2 == told'[k] p2 == Len(polled'[k]) r2 == Len(ring'[k]) d2 == dropped'[k]
             x == IF Evicting(k) THEN 1 ELSE 0
             x2 == IF Evicting(k)' THEN 1 ELSE 0
  <2>1. /\ t \in Nat /\ p \in Nat /\ r \in Nat /\ d \in Nat /\ x \in {0, 1} /\ x2 \in {0, 1}
        /\ t + x = p + r + d
    BY MediumTypes DEF CameraInv, PushesAccounted
  <2>2. t2 = t /\ d2 = d /\ x2 = x
    BY <1>1, <1>6
  <2>3. CASE k = m
    <3>1. r2 = r - 1 /\ p2 = p + 1
      BY <1>3, <2>3
    <3> HIDE DEF t, p, r, d, t2, p2, r2, d2, x, x2
    <3>2. t2 + x2 = p2 + r2 + d2
      BY <2>1, <2>2, <3>1
    <3> QED
      BY <3>2 DEF t2, p2, r2, d2, x2
  <2>4. CASE k # m
    BY <1>3, <2>1, <2>2, <2>4
  <2> QED
    BY <2>3, <2>4
<1>10. PushesAccounted'
  BY <1>9 DEF PushesAccounted
<1> QED
  BY <1>4, <1>5, <1>6, <1>8, <1>10 DEF CameraInv

\* Reading the statistics disturbs nothing.
LEMMA ReaderInv ==
  ASSUME CameraInv, ReaderStep
  PROVE  CameraInv'
<1>1. PICK k \in Media : ReadQueued(k) \/ ReadDropped(k)
  BY DEF ReaderStep
<1>2. UNCHANGED <<available, seq, push, num, holder, dropped, told, ring, polled>>
  BY <1>1 DEF ReadQueued, ReadDropped, emitterVars
<1>3. reading' \in 0..4
  BY <1>1 DEF ReadQueued, ReadDropped, CameraInv, TypeOK
<1>4. stats' \in [queued : [Media -> Nat], dropped : [Media -> Nat]]
  <2>1. stats \in [queued : [Media -> Nat], dropped : [Media -> Nat]]
    BY DEF CameraInv, TypeOK
  <2>2. Len(ring[k]) \in Nat /\ DropsOf(k) \in Nat
    BY MediumTypes DEF CameraInv, DropsOf
  <2>3. CASE ReadQueued(k)
    BY <2>1, <2>2, <2>3 DEF ReadQueued
  <2>4. CASE ReadDropped(k)
    BY <2>1, <2>2, <2>4 DEF ReadDropped
  <2> QED
    BY <1>1, <2>3, <2>4
<1>5. TypeOK'
  BY <1>2, <1>3, <1>4 DEF CameraInv, TypeOK
<1>6. RingBounded' /\ PushesAccounted' /\ LocksHeld' /\ FoundStillTrue'
  BY <1>2 DEF CameraInv, RingBounded, PushesAccounted, LocksHeld, FoundStillTrue,
              Evicting, Full
<1> QED
  BY <1>5, <1>6 DEF CameraInv

LEMMA StepInv ==
  ASSUME CameraInv, [Next]_vars
  PROVE  CameraInv'
<1>1. CASE EmitterStep
  BY <1>1, NumberInv, BeginPushInv, EndPushInv DEF EmitterStep
<1>2. CASE \E k \in Media : Poll(k)
  BY <1>2, PollInv
<1>3. CASE ReaderStep
  BY <1>3, ReaderInv
<1>4. CASE UNCHANGED vars
  BY <1>4 DEF vars, CameraInv, TypeOK, RingBounded, PushesAccounted, LocksHeld,
              FoundStillTrue, Evicting, Full
<1> QED
  BY <1>1, <1>2, <1>3, <1>4 DEF Next

\* The inductive invariant holds in every reachable state.
THEOREM CameraInvariant == Spec => []CameraInv
<1>1. Init => CameraInv
  BY InitInv
<1>2. CameraInv /\ [Next]_vars => CameraInv'
  BY StepInv
<1> QED
  BY <1>1, <1>2, PTL DEF Spec

\* No push reported to the worklet is lost without being counted.
THEOREM NoPushUncounted == Spec => []PushesAccounted
<1>1. CameraInv => PushesAccounted
  BY DEF CameraInv
<1> QED
  BY <1>1, CameraInvariant, PTL

\* The rings stay within their capacities.
THEOREM RingsStayBounded == Spec => []RingBounded
<1>1. CameraInv => RingBounded
  BY DEF CameraInv
<1> QED
  BY <1>1, CameraInvariant, PTL

-----------------------------------------------------------------------------
(* What the readers get. *)

\* The threads that have numbered a frame of k and do not hold its lock yet.
Waiting(k) == {e \in Emitters : Medium[e] = k /\ push[e] = "numbered"}
Held(k) == IF holder[k] = None THEN 0 ELSE 1

\* Every number handed out is of a finished push or of one under way.
Used(k) == /\ IsFiniteSet(Waiting(k))
           /\ told[k] + Cardinality(Waiting(k)) + Held(k) <= seq[k]
           /\ available => told[k] + Cardinality(Waiting(k)) + Held(k) = seq[k]
NumbersUsed == \A k \in Media : Used(k)

\* A thread that pushes alone pushes the number after the last.
NextPushed ==
  \A e \in Emitters : push[e] # "idle" =>
    available /\ (OneEmitter(Medium[e]) => num[e] = told[Medium[e]] + 1)

\* What was polled is older than what is in the ring, and in order.
PolledOlder ==
  \A k \in Media : OneEmitter(k) =>
    \A i \in 1..Len(polled[k]) :
      /\ polled[k][i] <= told[k] - Len(ring[k])
      /\ \A j \in 1..Len(polled[k]) : i < j => polled[k][i] < polled[k][j]

\* What stats() has read so far; a drop it counts later belongs to a number
\* handed out since.
Read(k) ==
  /\ reading >= (IF k = "frames" THEN 1 ELSE 2) =>
       /\ stats.queued[k] <= Capacity[k]
       /\ stats.queued[k] + dropped[k] + Cardinality(Waiting(k)) <= seq[k]
  /\ reading >= (IF k = "frames" THEN 3 ELSE 4) => stats.dropped[k] <= dropped[k]
StatsRead == \A k \in Media : Read(k)

ReadersInv == NumbersUsed /\ NextPushed /\ NewestKept /\ PolledOlder /\ StatsRead

LEMMA InitReaders ==
  ASSUME Init
  PROVE  ReadersInv
<1> USE PhoneCameraAssumption DEF Init
<1>1. \A k \in Media : Waiting(k) = {} /\ Held(k) = 0
  BY DEF Waiting, Held
<1>2. NumbersUsed
  <2>1. \A k \in Media : told[k] = 0 /\ seq[k] = 0
    BY DEF Media
  <2>2. \A k \in Media : IsFiniteSet(Waiting(k)) /\ Cardinality(Waiting(k)) = 0
    BY <1>1, FS_EmptySet
  <2> HIDE DEF Init
  <2> QED
    BY <1>1, <2>1, <2>2 DEF NumbersUsed, Used
<1>3. NextPushed /\ NewestKept /\ PolledOlder
  BY DEF NextPushed, NewestKept, PolledOlder
<1>4. StatsRead
  BY DEF StatsRead, Read, Media
<1> QED
  BY <1>2, <1>3, <1>4 DEF ReadersInv

LEMMA NumberReaders ==
  ASSUME CameraInv, ReadersInv, NEW e \in Emitters, Number(e)
  PROVE  ReadersInv'
<1> DEFINE m == Medium[e]
<1>1. m \in Media /\ \A k \in Media : seq[k] \in Nat /\ told[k] \in Nat /\ dropped[k] \in Nat
  BY PhoneCameraAssumption DEF CameraInv, TypeOK
<1>2. /\ seq' = [seq EXCEPT ![m] = seq[m] + 1] /\ num' = [num EXCEPT ![e] = seq[m] + 1]
      /\ push[e] = "idle" /\ push' = [push EXCEPT ![e] = IF available THEN "numbered" ELSE "idle"]
      /\ UNCHANGED <<available, holder, ring, dropped, told, polled, reading, stats>>
  BY DEF Number, NextNumber, readerVars
<1>3. /\ seq'[m] = seq[m] + 1 /\ num'[e] = seq[m] + 1
      /\ push'[e] = IF available THEN "numbered" ELSE "idle"
      /\ \A k \in Media \ {m} : seq'[k] = seq[k]
      /\ \A f \in Emitters \ {e} : num'[f] = num[f] /\ push'[f] = push[f]
  BY <1>1, <1>2 DEF CameraInv, TypeOK
<1>4. NewestKept' /\ PolledOlder' /\ \A k \in Media : Held(k)' = Held(k)
  BY <1>2 DEF ReadersInv, NewestKept, PolledOlder, Held
<1>5. \A k \in Media : IsFiniteSet(Waiting(k)) /\ Cardinality(Waiting(k)) \in Nat /\ Held(k) \in {0, 1}
  BY FS_CardinalityType DEF ReadersInv, NumbersUsed, Used, Held
<1>6. CASE available
  <2>1. /\ Waiting(m)' = Waiting(m) \cup {e} /\ e \notin Waiting(m)
        /\ \A k \in Media \ {m} : Waiting(k)' = Waiting(k)
    BY <1>2, <1>3, <1>6 DEF Waiting
  <2>2. IsFiniteSet(Waiting(m)') /\ Cardinality(Waiting(m)') = Cardinality(Waiting(m)) + 1
    BY <1>1, <1>5, <2>1, FS_AddElement
  <2>3. NumbersUsed'
    <3>1. Used(m)'
      BY <1>1, <1>2, <1>3, <1>4, <1>5, <2>2 DEF ReadersInv, NumbersUsed, Used
    <3>2. \A k \in Media \ {m} : Used(k)'
      BY <1>2, <1>3, <1>4, <2>1 DEF ReadersInv, NumbersUsed, Used
    <3> QED
      BY <3>1, <3>2 DEF NumbersUsed
  <2>4. OneEmitter(m) => seq[m] = told[m]
    <3>1. SUFFICES ASSUME OneEmitter(m)
                   PROVE  seq[m] = told[m]
      OBVIOUS
    <3>2. Waiting(m) = {}
      BY <1>2, <3>1 DEF Waiting, OneEmitter
    <3>3. holder[m] = None
      <4>1. holder[m] \in Emitters \cup {None}
        BY <1>1 DEF CameraInv, TypeOK
      <4>2. holder[m] \in Emitters => Medium[holder[m]] = m /\ push[holder[m]] # "idle"
        BY <1>1, PhoneCameraAssumption DEF CameraInv, LocksHeld
      <4> QED
        BY <1>2, <3>1, <4>1, <4>2 DEF OneEmitter
    <3> QED
      BY <1>1, <1>6, <3>2, <3>3, FS_EmptySet DEF ReadersInv, NumbersUsed, Used, Held
  <2>5. NextPushed'
    BY <1>2, <1>3, <1>6, <2>4 DEF ReadersInv, NextPushed
  <2>6. StatsRead'
    <3>1. \A k \in Media : stats.queued[k] \in Nat
      BY DEF CameraInv, TypeOK
    <3>2. Read(m)'
      BY <1>1, <1>2, <1>3, <1>5, <2>2, <3>1 DEF ReadersInv, StatsRead, Read
    <3>3. \A k \in Media \ {m} : Read(k)'
      BY <1>2, <1>3, <2>1 DEF ReadersInv, StatsRead, Read
    <3> QED
      BY <3>2, <3>3 DEF StatsRead
  <2> QED
    BY <1>4, <2>3, <2>5, <2>6 DEF ReadersInv
<1>7. CASE ~available
  <2>1. \A k \in Media : Waiting(k)' = Waiting(k)
    BY <1>2, <1>3, <1>7 DEF Waiting
  <2>2. NumbersUsed'
    BY <1>1, <1>2, <1>3, <1>4, <1>5, <1>7, <2>1 DEF ReadersInv, NumbersUsed, Used
  <2>3. NextPushed'
    BY <1>2, <1>3, <1>7 DEF ReadersInv, NextPushed
  <2>4. StatsRead'
    <3>1. \A k \in Media : stats.queued[k] \in Nat
      BY DEF CameraInv, TypeOK
    <3> QED
      BY <1>1, <1>2, <1>3, <1>5, <2>1, <3>1 DEF ReadersInv, StatsRead, Read
  <2> QED
    BY <1>4, <2>2, <2>3, <2>4 DEF ReadersInv
<1> QED
  BY <1>6, <1>7

LEMMA BeginPushReaders ==
  ASSUME CameraInv, ReadersInv, NEW e \in Emitters, BeginPush(e)
  PROVE  ReadersInv'
<1> DEFINE m == Medium[e]
<1>1. m \in Media /\ \A k \in Media : /\ seq[k] \in Nat /\ told[k] \in Nat /\ dropped[k] \in Nat
                                        /\ stats.queued[k] \in Nat /\ stats.dropped[k] \in Nat
  BY PhoneCameraAssumption DEF CameraInv, TypeOK
<1>2. /\ push[e] = "numbered" /\ holder[m] = None
      /\ holder' = [holder EXCEPT ![m] = e]
      /\ dropped' = IF Full(m) THEN [dropped EXCEPT ![m] = @ + 1] ELSE dropped
      /\ push' = [push EXCEPT ![e] = IF Full(m) THEN "evicting" ELSE "appending"]
      /\ UNCHANGED <<available, seq, num, ring, told, polled, reading, stats>>
  BY DEF BeginPush, readerVars
<1>3. /\ dropped'[m] = dropped[m] \/ dropped'[m] = dropped[m] + 1
      /\ push'[e] \in {"evicting", "appending"} /\ holder'[m] = e /\ e # None
      /\ \A k \in Media \ {m} : dropped'[k] = dropped[k] /\ holder'[k] = holder[k]
      /\ \A f \in Emitters \ {e} : push'[f] = push[f]
  BY <1>1, <1>2, PhoneCameraAssumption DEF CameraInv, TypeOK
<1>4. /\ Held(m) = 0 /\ Held(m)' = 1 /\ \A k \in Media \ {m} : Held(k)' = Held(k)
  BY <1>2, <1>3 DEF Held
<1>5. \A k \in Media : IsFiniteSet(Waiting(k)) /\ Cardinality(Waiting(k)) \in Nat /\ Held(k) \in {0, 1}
  BY FS_CardinalityType DEF ReadersInv, NumbersUsed, Used, Held
<1>6. /\ Waiting(m)' = Waiting(m) \ {e} /\ e \in Waiting(m)
      /\ \A k \in Media \ {m} : Waiting(k)' = Waiting(k)
  BY <1>2, <1>3 DEF Waiting
<1>7. IsFiniteSet(Waiting(m)') /\ Cardinality(Waiting(m)') = Cardinality(Waiting(m)) - 1
  BY <1>1, <1>5, <1>6, FS_RemoveElement
<1>8. NumbersUsed'
  <2>1. Used(m)'
    BY <1>1, <1>2, <1>4, <1>5, <1>7 DEF ReadersInv, NumbersUsed, Used
  <2>2. \A k \in Media \ {m} : Used(k)'
    BY <1>2, <1>4, <1>6 DEF ReadersInv, NumbersUsed, Used
  <2> QED
    BY <2>1, <2>2 DEF NumbersUsed
<1>9. NextPushed'
  BY <1>2, <1>3 DEF ReadersInv, NextPushed
<1>10. NewestKept' /\ PolledOlder'
  BY <1>2 DEF ReadersInv, NewestKept, PolledOlder
<1>11. StatsRead'
  <2>1. Read(m)'
    BY <1>1, <1>2, <1>3, <1>5, <1>7 DEF ReadersInv, StatsRead, Read
  <2>2. \A k \in Media \ {m} : Read(k)'
    BY <1>2, <1>3, <1>6 DEF ReadersInv, StatsRead, Read
  <2> QED
    BY <2>1, <2>2 DEF StatsRead
<1> QED
  BY <1>8, <1>9, <1>10, <1>11 DEF ReadersInv

LEMMA EndPushReaders ==
  ASSUME CameraInv, ReadersInv, NEW e \in Emitters, EndPush(e)
  PROVE  ReadersInv'
<1> DEFINE m == Medium[e]
           room == IF push[e] = "evicting" THEN Evict(ring[m]) ELSE ring[m]
<1>1. /\ m \in Media /\ holder[m] = e /\ e # None
      /\ told[m] \in Nat /\ seq[m] \in Nat /\ num[e] \in Nat
      /\ ring[m] \in Seq(Nat) /\ polled[m] \in Seq(Nat)
  BY PhoneCameraAssumption DEF CameraInv, TypeOK, LocksHeld, EndPush
<1>2. /\ push[e] \in {"evicting", "appending"}
      /\ ring' = [ring EXCEPT ![m] = Append(room, num[e])]
      /\ holder' = [holder EXCEPT ![m] = None]
      /\ told' = [told EXCEPT ![m] = @ + 1]
      /\ push' = [push EXCEPT ![e] = "idle"]
      /\ UNCHANGED <<available, seq, num, dropped, polled, reading, stats>>
  BY DEF EndPush, readerVars
<1>3. /\ ring'[m] = Append(room, num[e]) /\ told'[m] = told[m] + 1 /\ holder'[m] = None
      /\ push'[e] = "idle"
      /\ \A k \in Media \ {m} : ring'[k] = ring[k] /\ told'[k] = told[k] /\ holder'[k] = holder[k]
      /\ \A f \in Emitters \ {e} : push'[f] = push[f]
  BY <1>1, <1>2 DEF CameraInv, TypeOK
<1>4. \A k \in Media : Waiting(k)' = Waiting(k)
  BY <1>2, <1>3 DEF Waiting
<1>5. /\ Held(m) = 1 /\ Held(m)' = 0 /\ \A k \in Media \ {m} : Held(k)' = Held(k)
  BY <1>1, <1>3 DEF Held
<1>6. NumbersUsed'
  <2>1. Cardinality(Waiting(m)) \in Nat
    BY <1>1, FS_CardinalityType DEF ReadersInv, NumbersUsed, Used
  <2>2. Used(m)'
    BY <1>1, <1>2, <1>3, <1>4, <1>5, <2>1 DEF ReadersInv, NumbersUsed, Used
  <2>3. \A k \in Media \ {m} : Used(k)'
    BY <1>2, <1>3, <1>4, <1>5 DEF ReadersInv, NumbersUsed, Used
  <2> QED
    BY <2>2, <2>3 DEF NumbersUsed
<1>7. StatsRead'
  BY <1>2, <1>4 DEF ReadersInv, StatsRead, Read
<1>8. NextPushed'
  <2> SUFFICES ASSUME NEW f \in Emitters, push'[f] # "idle"
               PROVE  available /\ (OneEmitter(Medium[f]) => num[f] = told'[Medium[f]] + 1)
    BY <1>2 DEF NextPushed
  <2>1. f # e /\ push[f] # "idle"
    BY <1>3
  <2>2. OneEmitter(Medium[f]) => Medium[f] # m
    BY <2>1 DEF OneEmitter
  <2> QED
    BY <1>3, <2>1, <2>2, PhoneCameraAssumption DEF ReadersInv, NextPushed
<1>9. /\ room \in Seq(Nat) /\ Len(room) \in Nat /\ Len(room) <= Len(ring[m])
      /\ OneEmitter(m) => \A i \in 1..Len(room) : room[i] = told[m] - Len(room) + i
  <2>1. OneEmitter(m) => \A i \in 1..Len(ring[m]) : ring[m][i] = told[m] - Len(ring[m]) + i
    BY <1>1 DEF ReadersInv, NewestKept
  <2>2. CASE push[e] = "appending"
    BY <1>1, <2>1, <2>2
  <2>3. CASE push[e] = "evicting"
    <3>1. ring[m] # <<>>
      BY <1>1, <2>3, PhoneCameraAssumption DEF CameraInv, FoundStillTrue, Full
    <3>2. /\ room \in Seq(Nat) /\ Len(room) = Len(ring[m]) - 1
          /\ \A i \in 1..Len(room) : room[i] = ring[m][i + 1]
      BY <1>1, <2>3, <3>1 DEF Evict
    <3> HIDE DEF room
    <3>3. Len(ring[m]) \in Nat /\ Len(room) \in Nat
      BY <1>1, <3>2
    <3>4. ASSUME OneEmitter(m), NEW i \in 1..Len(room)
          PROVE  room[i] = told[m] - Len(room) + i
      <4>1. i + 1 \in 1..Len(ring[m])
        BY <3>2, <3>3
      <4>2. ring[m][i + 1] = told[m] - Len(ring[m]) + (i + 1)
        BY <2>1, <3>4, <4>1
      <4>3. i \in Nat /\ room[i] = ring[m][i + 1]
        BY <3>2, <3>3
      <4>4. PICK t, l, n \in Nat : t = told[m] /\ l = Len(ring[m]) /\ n = Len(room) /\ n = l - 1
        BY <1>1, <3>2, <3>3
      <4>5. t - l + (i + 1) = t - n + i
        BY <4>3, <4>4
      <4> QED
        BY <4>2, <4>3, <4>4, <4>5
    <3>5. Len(room) <= Len(ring[m])
      BY <3>2, <3>3
    <3> QED
      BY <3>2, <3>3, <3>4, <3>5
  <2> QED
    BY <1>2, <2>2, <2>3
<1> HIDE DEF room
<1>10. /\ Len(ring'[m]) = Len(room) + 1 /\ ring'[m][Len(room) + 1] = num[e]
       /\ \A i \in 1..Len(room) : ring'[m][i] = room[i]
  BY <1>1, <1>3, <1>9
<1>11. OneEmitter(m) => num[e] = told[m] + 1
  BY <1>2 DEF ReadersInv, NextPushed
<1>12. NewestKept'
  <2>1. ASSUME OneEmitter(m), NEW i \in 1..Len(ring'[m])
        PROVE  ring'[m][i] = told'[m] - Len(ring'[m]) + i
    <3>1. CASE i = Len(room) + 1
      BY <1>1, <1>3, <1>9, <1>10, <1>11, <2>1, <3>1
    <3>2. CASE i \in 1..Len(room)
      BY <1>1, <1>3, <1>9, <1>10, <2>1, <3>2
    <3> QED
      BY <1>9, <1>10, <2>1, <3>1, <3>2
  <2> QED
    BY <1>3, <2>1 DEF ReadersInv, NewestKept
<1>13. PolledOlder'
  <2>1. ASSUME OneEmitter(m), NEW i \in 1..Len(polled[m])
        PROVE  polled[m][i] <= told'[m] - Len(ring'[m])
    <3>1. polled[m][i] <= told[m] - Len(ring[m]) /\ polled[m][i] \in Nat /\ Len(ring[m]) \in Nat
      BY <1>1, <2>1 DEF ReadersInv, PolledOlder
    <3>2. \A t, l, n, r \in Nat : n <= l /\ r <= t - l => r <= (t + 1) - (n + 1)
      OBVIOUS
    <3>3. polled[m][i] <= (told[m] + 1) - (Len(room) + 1)
      BY <1>1, <1>9, <3>1, <3>2
    <3> QED
      BY <1>3, <1>10, <3>3, Zenon
  <2> QED
    BY <1>2, <1>3, <2>1 DEF ReadersInv, PolledOlder
<1> QED
  BY <1>6, <1>7, <1>8, <1>12, <1>13 DEF ReadersInv

LEMMA PollReaders ==
  ASSUME CameraInv, ReadersInv, NEW m \in Media, Poll(m)
  PROVE  ReadersInv'
<1>1. /\ ring[m] # <<>>
      /\ polled' = [polled EXCEPT ![m] = Append(@, Head(ring[m]))]
      /\ ring' = [ring EXCEPT ![m] = Tail(@)]
      /\ UNCHANGED <<available, seq, push, num, holder, dropped, told, reading, stats>>
  BY DEF Poll, emitterVars, readerVars
<1>2. NumbersUsed' /\ NextPushed' /\ StatsRead'
  BY <1>1 DEF ReadersInv, NumbersUsed, Used, NextPushed, StatsRead, Read, Waiting, Held
<1>3. ring[m] \in Seq(Nat) /\ polled[m] \in Seq(Nat) /\ told[m] \in Nat
  BY DEF CameraInv, TypeOK
<1>4. /\ ring'[m] = Tail(ring[m]) /\ polled'[m] = Append(polled[m], Head(ring[m]))
      /\ \A k \in Media \ {m} : ring'[k] = ring[k] /\ polled'[k] = polled[k]
  BY <1>1 DEF CameraInv, TypeOK
<1>5. /\ Len(ring[m]) \in Nat \ {0} /\ Len(ring'[m]) = Len(ring[m]) - 1 /\ Len(ring'[m]) \in Nat
      /\ \A i \in 1..Len(ring'[m]) : ring'[m][i] = ring[m][i + 1]
      /\ Head(ring[m]) = ring[m][1] /\ Head(ring[m]) \in Nat
  <2>1. \A r \in Seq(Nat) : r # <<>> =>
          /\ Len(r) \in Nat \ {0} /\ Len(Tail(r)) = Len(r) - 1 /\ Len(Tail(r)) \in Nat
          /\ \A i \in 1..Len(Tail(r)) : Tail(r)[i] = r[i + 1]
          /\ Head(r) = r[1] /\ Head(r) \in Nat
    OBVIOUS
  <2> QED
    BY <1>1, <1>3, <1>4, <2>1, Zenon
<1>6. /\ Len(polled[m]) \in Nat /\ Len(polled'[m]) = Len(polled[m]) + 1
      /\ polled'[m][Len(polled[m]) + 1] = Head(ring[m])
      /\ \A i \in 1..Len(polled[m]) : polled'[m][i] = polled[m][i] /\ polled[m][i] \in Nat
  <2>1. PICK p \in Seq(Nat), n \in Nat : p = polled[m] /\ n = Head(ring[m])
    BY <1>3, <1>5
  <2>2. /\ Len(p) \in Nat /\ Len(Append(p, n)) = Len(p) + 1 /\ Append(p, n)[Len(p) + 1] = n
        /\ \A i \in 1..Len(p) : Append(p, n)[i] = p[i] /\ p[i] \in Nat
    OBVIOUS
  <2>3. polled'[m] = Append(p, n)
    BY <1>4, <2>1
  <2> QED
    BY <2>1, <2>2, <2>3, Zenon
<1>7. OneEmitter(m) => \A i \in 1..Len(ring[m]) : ring[m][i] = told[m] - Len(ring[m]) + i
  BY DEF ReadersInv, NewestKept
<1>8. NewestKept'
  <2>1. ASSUME OneEmitter(m), NEW i \in 1..Len(ring'[m])
        PROVE  ring'[m][i] = told[m] - Len(ring'[m]) + i
    <3>1. i + 1 \in 1..Len(ring[m])
      BY <1>5, <2>1
    <3>2. ring[m][i + 1] = told[m] - Len(ring[m]) + (i + 1)
      BY <1>7, <2>1, <3>1
    <3>3. ring'[m][i] = ring[m][i + 1]
      BY <1>5, <2>1
    <3>4. i \in Nat
      BY <1>5, <2>1
    <3>5. PICK t, l, n \in Nat : t = told[m] /\ l = Len(ring[m]) /\ n = Len(ring'[m]) /\ n = l - 1
      BY <1>3, <1>5
    <3>6. t - l + (i + 1) = t - n + i
      BY <3>5, <3>4
    <3> QED
      BY <3>2, <3>3, <3>5, <3>6
  <2> QED
    BY <1>1, <1>4, <2>1 DEF ReadersInv, NewestKept
<1>9. PolledOlder'
  <2>1. ASSUME OneEmitter(m)
        PROVE  Head(ring[m]) = told[m] - Len(ring'[m])
    <3>1. 1 \in 1..Len(ring[m])
      BY <1>5
    <3>2. ring[m][1] = told[m] - Len(ring[m]) + 1
      BY <1>7, <2>1, <3>1
    <3> QED
      BY <1>3, <1>5, <3>2
  <2>2. ASSUME OneEmitter(m), NEW i \in 1..Len(polled[m])
        PROVE  /\ polled[m][i] < Head(ring[m])
               /\ \A j \in 1..Len(polled[m]) : i < j => polled[m][i] < polled[m][j]
    <3>1. /\ polled[m][i] <= told[m] - Len(ring[m])
          /\ \A j \in 1..Len(polled[m]) : i < j => polled[m][i] < polled[m][j]
      BY <2>2 DEF ReadersInv, PolledOlder
    <3>2. Head(ring[m]) = told[m] - Len(ring[m]) + 1
      BY <1>3, <1>5, <2>1, <2>2
    <3>3. polled[m][i] \in Nat
      BY <1>6, <2>2
    <3>4. \A t, l, r \in Nat : r <= t - l => r < t - l + 1
      OBVIOUS
    <3>5. polled[m][i] < told[m] - Len(ring[m]) + 1
      BY <1>3, <1>5, <3>1, <3>3, <3>4
    <3> QED
      BY <3>1, <3>2, <3>5, Zenon
  <2>3. ASSUME OneEmitter(m), NEW i \in 1..Len(polled'[m])
        PROVE  /\ polled'[m][i] <= told[m] - Len(ring'[m])
               /\ \A j \in 1..Len(polled'[m]) : i < j => polled'[m][i] < polled'[m][j]
    <3>1. \A j \in 1..Len(polled'[m]) : j \in 1..Len(polled[m]) \/ j = Len(polled[m]) + 1
      BY <1>6
    <3>2. CASE i \in 1..Len(polled[m])
      <4>1. polled'[m][i] < Head(ring[m]) /\ polled'[m][i] \in Nat
        BY <1>6, <2>2, <2>3, <3>2
      <4>2. polled'[m][i] <= told[m] - Len(ring'[m])
        BY <1>5, <2>1, <2>3, <4>1
      <4>3. ASSUME NEW j \in 1..Len(polled'[m]), i < j
            PROVE  polled'[m][i] < polled'[m][j]
        BY <1>6, <2>2, <2>3, <3>1, <3>2, <4>1, <4>3
      <4> QED
        BY <4>2, <4>3
    <3>3. CASE i = Len(polled[m]) + 1
      <4>1. polled'[m][i] = Head(ring[m])
        BY <1>6, <3>3
      <4>2. \A j \in 1..Len(polled'[m]) : ~(i < j)
        BY <1>6, <3>3
      <4> QED
        BY <1>5, <2>1, <2>3, <4>1, <4>2
    <3> QED
      BY <2>3, <3>1, <3>2, <3>3
  <2>4. \A k \in Media \ {m} : ring'[k] = ring[k] /\ polled'[k] = polled[k] /\ told'[k] = told[k]
    BY <1>1, <1>4
  <2> QED
    BY <1>1, <2>3, <2>4 DEF ReadersInv, PolledOlder
<1> QED
  BY <1>2, <1>8, <1>9 DEF ReadersInv

\* A ring and its drops never count more than the finished pushes and the one
\* that holds the lock.
LEMMA RingWithinPushes ==
  ASSUME CameraInv, ReadersInv, NEW k \in Media
  PROVE  Len(ring[k]) + dropped[k] + Cardinality(Waiting(k)) <= seq[k]
<1> DEFINE x == IF Evicting(k) THEN 1 ELSE 0
           p == Len(polled[k])
           c == Cardinality(Waiting(k))
           h == Held(k)
           l == Len(ring[k])
<1>1. told[k] + x = p + l + dropped[k]
  BY DEF CameraInv, PushesAccounted
<1>2. told[k] + c + h <= seq[k]
  BY DEF ReadersInv, NumbersUsed, Used
<1>3. /\ told[k] \in Nat /\ dropped[k] \in Nat /\ seq[k] \in Nat /\ l \in Nat /\ p \in Nat
  BY MediumTypes DEF CameraInv
<1>4. c \in Nat
  BY FS_CardinalityType DEF ReadersInv, NumbersUsed, Used
<1>5. h \in {0, 1} /\ x \in {0, 1} /\ x <= h
  BY EvictingHolds, PhoneCameraAssumption DEF Held, Evicting
<1> HIDE DEF x, p, c, h, l
<1>6. l + dropped[k] + c <= seq[k]
  BY <1>1, <1>2, <1>3, <1>4, <1>5
<1> QED
  BY <1>6 DEF l, c

LEMMA ReaderReaders ==
  ASSUME CameraInv, ReadersInv, ReaderStep
  PROVE  ReadersInv'
<1>1. PICK k \in Media : ReadQueued(k) \/ ReadDropped(k)
  BY DEF ReaderStep
<1>2. UNCHANGED <<available, seq, push, num, holder, dropped, told, ring, polled>>
  BY <1>1 DEF ReadQueued, ReadDropped, emitterVars
<1>3. NumbersUsed' /\ NextPushed' /\ NewestKept' /\ PolledOlder'
  BY <1>2 DEF ReadersInv, NumbersUsed, Used, NextPushed, NewestKept, PolledOlder, Waiting, Held
<1>4. stats \in [queued : [Media -> Nat], dropped : [Media -> Nat]] /\ reading \in 0..4
  BY DEF CameraInv, TypeOK
<1>5. \A j \in Media : Cardinality(Waiting(j))' = Cardinality(Waiting(j))
  BY <1>2 DEF Waiting
<1>6. CASE ReadQueued(k)
  <2>1. /\ reading = (IF k = "frames" THEN 0 ELSE 1) /\ reading' = reading + 1
        /\ stats' = [stats EXCEPT !.queued[k] = Len(ring[k])]
    BY <1>6 DEF ReadQueued
  <2>2. /\ stats'.dropped = stats.dropped /\ stats'.queued[k] = Len(ring[k])
        /\ \A j \in Media \ {k} : stats'.queued[j] = stats.queued[j]
    BY <1>4, <2>1
  <2>3. Len(ring[k]) <= Capacity[k] /\ Len(ring[k]) + dropped[k] + Cardinality(Waiting(k)) <= seq[k]
    BY RingWithinPushes DEF CameraInv, RingBounded
  <2>4. Read(k)'
    BY <1>2, <1>5, <2>1, <2>2, <2>3 DEF Read, Media
  <2>5. \A j \in Media \ {k} : Read(j)'
    BY <1>2, <1>5, <2>1, <2>2 DEF ReadersInv, StatsRead, Read, Media
  <2> QED
    BY <1>3, <2>4, <2>5 DEF ReadersInv, StatsRead
<1>7. CASE ReadDropped(k)
  <2>1. /\ reading = (IF k = "frames" THEN 2 ELSE 3) /\ reading' = reading + 1
        /\ stats' = [stats EXCEPT !.dropped[k] = dropped[k]]
    BY <1>7 DEF ReadDropped, DropsOf
  <2>2. /\ stats'.queued = stats.queued /\ stats'.dropped[k] = dropped[k] /\ dropped[k] \in Nat
        /\ \A j \in Media \ {k} : stats'.dropped[j] = stats.dropped[j]
    BY <1>4, <2>1 DEF CameraInv, TypeOK
  <2>3. Read(k)'
    BY <1>2, <1>5, <2>1, <2>2 DEF ReadersInv, StatsRead, Read, Media
  <2>4. \A j \in Media \ {k} : Read(j)'
    BY <1>2, <1>5, <2>1, <2>2 DEF ReadersInv, StatsRead, Read, Media
  <2> QED
    BY <1>3, <2>3, <2>4 DEF ReadersInv, StatsRead
<1> QED
  BY <1>1, <1>6, <1>7

LEMMA StepReaders ==
  ASSUME CameraInv, ReadersInv, [Next]_vars
  PROVE  ReadersInv'
<1>1. CASE EmitterStep
  BY <1>1, NumberReaders, BeginPushReaders, EndPushReaders DEF EmitterStep
<1>2. CASE \E k \in Media : Poll(k)
  BY <1>2, PollReaders
<1>3. CASE ReaderStep
  BY <1>3, ReaderReaders
<1>4. CASE UNCHANGED vars
  BY <1>4 DEF vars, ReadersInv, NumbersUsed, Used, NextPushed, NewestKept, PolledOlder,
              StatsRead, Read, Waiting, Held
<1> QED
  BY <1>1, <1>2, <1>3, <1>4 DEF Next

\* What was polled and then what is queued: one increasing sequence.
LEMMA InOrder ==
  ASSUME CameraInv, ReadersInv
  PROVE  PolledInOrder
<1>1. SUFFICES ASSUME NEW k \in Media, OneEmitter(k),
                      NEW i \in 1..Len(polled[k] \o ring[k]),
                      NEW j \in 1..Len(polled[k] \o ring[k]), i < j
               PROVE  (polled[k] \o ring[k])[i] < (polled[k] \o ring[k])[j]
  BY DEF PolledInOrder
<1> DEFINE p == polled[k]
           r == ring[k]
           t == told[k]
<1>2. p \in Seq(Nat) /\ r \in Seq(Nat) /\ t \in Nat /\ Len(p) \in Nat /\ Len(r) \in Nat
  BY MediumTypes DEF CameraInv
<1>3. /\ \A n \in 1..Len(r) : r[n] = t - Len(r) + n
      /\ \A n \in 1..Len(p) : /\ p[n] <= t - Len(r)
                              /\ \A o \in 1..Len(p) : n < o => p[n] < p[o]
  BY <1>1 DEF ReadersInv, NewestKept, PolledOlder
<1> HIDE DEF p, r, t
<1>4. /\ Len(p \o r) = Len(p) + Len(r)
      /\ \A n \in 1..Len(p \o r) : (p \o r)[n] = IF n <= Len(p) THEN p[n] ELSE r[n - Len(p)]
  BY <1>2
<1>5. i \in Nat \ {0} /\ j \in Nat \ {0} /\ i <= Len(p) + Len(r) /\ j <= Len(p) + Len(r)
  <2>1. i \in 1..Len(p \o r) /\ j \in 1..Len(p \o r)
    BY DEF p, r
  <2> QED
    BY <1>2, <1>4, <2>1
<1>6. /\ (p \o r)[i] = IF i <= Len(p) THEN p[i] ELSE r[i - Len(p)]
      /\ (p \o r)[j] = IF j <= Len(p) THEN p[j] ELSE r[j - Len(p)]
  BY <1>1, <1>4 DEF p, r
<1>7. \A n \in 1..Len(p) : p[n] \in Nat
  BY <1>2
<1> SUFFICES (p \o r)[i] < (p \o r)[j]
  BY DEF p, r
<1>8. CASE j <= Len(p)
  BY <1>1, <1>2, <1>3, <1>5, <1>6, <1>8
<1>9. CASE i <= Len(p) /\ ~(j <= Len(p))
  <2>1. i \in 1..Len(p) /\ j - Len(p) \in 1..Len(r)
    BY <1>2, <1>5, <1>9
  <2>2. /\ p[i] \in Nat /\ p[i] <= t - Len(r)
        /\ r[j - Len(p)] = t - Len(r) + (j - Len(p))
    BY <1>3, <1>7, <2>1
  <2>3. p[i] < t - Len(r) + (j - Len(p))
    BY <1>2, <1>5, <1>9, <2>2
  <2> QED
    BY <1>6, <1>9, <2>2, <2>3
<1>10. CASE ~(i <= Len(p))
  <2>1. i - Len(p) \in 1..Len(r) /\ j - Len(p) \in 1..Len(r) /\ ~(j <= Len(p))
    BY <1>1, <1>2, <1>5, <1>10
  <2>2. /\ r[i - Len(p)] = t - Len(r) + (i - Len(p))
        /\ r[j - Len(p)] = t - Len(r) + (j - Len(p))
    BY <1>3, <2>1
  <2>3. t - Len(r) + (i - Len(p)) < t - Len(r) + (j - Len(p))
    BY <1>1, <1>2, <1>5
  <2> QED
    BY <1>6, <1>10, <2>1, <2>2, <2>3
<1> QED
  BY <1>8, <1>9, <1>10

LEMMA InvReaders ==
  ASSUME CameraInv, ReadersInv
  PROVE  ReadersRight
<1>1. ASSUME reading = 4, NEW k \in Media
      PROVE  stats.queued[k] <= Capacity[k] /\ stats.queued[k] + stats.dropped[k] <= seq[k]
  <2>1. /\ stats.queued[k] <= Capacity[k]
        /\ stats.queued[k] + dropped[k] + Cardinality(Waiting(k)) <= seq[k]
        /\ stats.dropped[k] <= dropped[k]
    BY <1>1 DEF ReadersInv, StatsRead, Read
  <2>2. /\ Cardinality(Waiting(k)) \in Nat /\ dropped[k] \in Nat /\ seq[k] \in Nat
        /\ stats.queued[k] \in Nat /\ stats.dropped[k] \in Nat
    BY FS_CardinalityType DEF ReadersInv, NumbersUsed, Used, CameraInv, TypeOK
  <2> QED
    BY <2>1, <2>2
<1> QED
  BY <1>1, InOrder DEF ReadersInv, ReadersRight, StatsNotOverstated

\* What the readers get is right for every number of threads and any capacities:
\* a ring with one emitter is polled in order and misses only its oldest frames,
\* and a completed stats() counts nothing that was not pushed (poll_frame, stats).
THEOREM ReadersStayRight == Spec => []ReadersRight
<1>1. Init => ReadersInv
  BY InitReaders
<1>2. CameraInv /\ ReadersInv /\ [Next]_vars => ReadersInv'
  BY StepReaders
<1>3. CameraInv /\ ReadersInv => ReadersRight
  BY InvReaders
<1> QED
  BY <1>1, <1>2, <1>3, CameraInvariant, PTL DEF Spec
-----------------------------------------------------------------------------
(* The screen.                                                               *)

Messages == [kind : {"recording-finalized", "error"}, take : Nat]
RecordingStates == [status : Statuses, uri : Nat, started : BOOLEAN, permissionGranted : BOOLEAN]

Typed ==
  /\ state \in RecordingStates /\ inbox \in Seq(Messages)
  /\ takes \in Nat /\ cam \in Nat /\ done \in Nat
  /\ allowed \subseteq Devices /\ alone \in BOOLEAN /\ stopped \in BOOLEAN

\* The permission a screen remembers was granted, and is needed from ready on.
Permitted ==
  /\ state.permissionGranted => allowed = Devices
  /\ state.status \in {"ready", "recording", "stopping", "idle-with-recording"} => state.permissionGranted

\* The takes come to the screen in their order: first what it shows, then what it
\* was told of, what is on its way, what the camera records, what comes later.
Ordered ==
  /\ state.uri <= done /\ done <= takes /\ cam <= takes /\ (cam # 0 => done < cam)
  /\ \A i \in 1..Len(inbox) : inbox[i].take <= takes /\ (cam # 0 => inbox[i].take < cam)
  /\ \A i \in 1..Len(inbox) : inbox[i].kind = "recording-finalized" => done < inbox[i].take
  /\ \A i, j \in 1..Len(inbox) :
       i < j /\ inbox[i].kind = "recording-finalized" /\ inbox[j].kind = "recording-finalized" =>
         inbox[i].take < inbox[j].take

\* Where the screen and the camera are, as long as only the user ends takes.
AtRest == state.status \notin {"recording", "stopping"} /\ cam = 0 /\ inbox = <<>>
Recording == state.status = "recording" /\ cam # 0 /\ ~stopped /\ inbox = <<>>
Ending == state.status = "stopping" /\ cam # 0 /\ inbox = <<>>
Ended == state.status = "stopping" /\ cam = 0 /\ Len(inbox) = 1

Together == ~alone => state.uri = done /\ (AtRest \/ Recording \/ Ending \/ Ended)

ScreenInv == Typed /\ Permitted /\ Ordered /\ Together

\* What the reducer makes of each event, where it expects it and elsewhere.
LEMMA Requested ==
  ASSUME NEW s \in RecordingStates, NEW take
  PROVE  LET r == Reduce(s, "request-permission", take) IN
         /\ r \in RecordingStates /\ r.uri = s.uri
         /\ s.status \in {"unknown", "permission-denied"} =>
              r.status = "permission-pending" /\ r.permissionGranted = s.permissionGranted
         /\ s.status \notin {"unknown", "permission-denied"} => r = s
<1>1. CASE s.status \in {"unknown", "permission-denied"}
  <2>1. Reduce(s, "request-permission", take) = [s EXCEPT !.status = "permission-pending"]
    BY <1>1 DEF Reduce, From, After
  <2> QED
    BY <1>1, <2>1 DEF RecordingStates, Statuses
<1>2. CASE s.status \notin {"unknown", "permission-denied"}
  BY <1>2 DEF Reduce, From
<1> QED
  BY <1>1, <1>2

LEMMA Granting ==
  ASSUME NEW s \in RecordingStates, NEW take
  PROVE  LET r == Reduce(s, "permission-granted", take) IN
         /\ r \in RecordingStates /\ r.uri = s.uri
         /\ s.status \in {"permission-pending"} =>
              r.status = "ready" /\ r.permissionGranted = TRUE
         /\ s.status \notin {"permission-pending"} => r = s
<1>1. CASE s.status \in {"permission-pending"}
  <2>1. Reduce(s, "permission-granted", take) = [s EXCEPT !.status = "ready", !.permissionGranted = TRUE]
    BY <1>1 DEF Reduce, From, After
  <2> QED
    BY <1>1, <2>1 DEF RecordingStates, Statuses
<1>2. CASE s.status \notin {"permission-pending"}
  BY <1>2 DEF Reduce, From
<1> QED
  BY <1>1, <1>2

LEMMA Denying ==
  ASSUME NEW s \in RecordingStates, NEW take
  PROVE  LET r == Reduce(s, "permission-denied", take) IN
         /\ r \in RecordingStates /\ r.uri = s.uri
         /\ s.status \in {"permission-pending"} =>
              r.status = "permission-denied" /\ r.permissionGranted = FALSE
         /\ s.status \notin {"permission-pending"} => r = s
<1>1. CASE s.status \in {"permission-pending"}
  <2>1. Reduce(s, "permission-denied", take) = [s EXCEPT !.status = "permission-denied", !.permissionGranted = FALSE]
    BY <1>1 DEF Reduce, From, After
  <2> QED
    BY <1>1, <2>1 DEF RecordingStates, Statuses
<1>2. CASE s.status \notin {"permission-pending"}
  BY <1>2 DEF Reduce, From
<1> QED
  BY <1>1, <1>2

LEMMA Starting ==
  ASSUME NEW s \in RecordingStates, NEW take
  PROVE  LET r == Reduce(s, "start-recording", take) IN
         /\ r \in RecordingStates /\ r.uri = s.uri
         /\ s.status \in {"ready", "idle-with-recording"} =>
              r.status = "recording" /\ r.permissionGranted = s.permissionGranted
         /\ s.status \notin {"ready", "idle-with-recording"} => r = s
<1>1. CASE s.status \in {"ready", "idle-with-recording"}
  <2>1. Reduce(s, "start-recording", take) = [s EXCEPT !.status = "recording"]
    BY <1>1 DEF Reduce, From, After
  <2> QED
    BY <1>1, <2>1 DEF RecordingStates, Statuses
<1>2. CASE s.status \notin {"ready", "idle-with-recording"}
  BY <1>2 DEF Reduce, From
<1> QED
  BY <1>1, <1>2

LEMMA Stopping ==
  ASSUME NEW s \in RecordingStates, NEW take
  PROVE  LET r == Reduce(s, "stop-recording", take) IN
         /\ r \in RecordingStates /\ r.uri = s.uri
         /\ s.status \in {"recording"} =>
              r.status = "stopping" /\ r.permissionGranted = s.permissionGranted
         /\ s.status \notin {"recording"} => r = s
<1>1. CASE s.status \in {"recording"}
  <2>1. Reduce(s, "stop-recording", take) = [s EXCEPT !.status = "stopping"]
    BY <1>1 DEF Reduce, From, After
  <2> QED
    BY <1>1, <2>1 DEF RecordingStates, Statuses
<1>2. CASE s.status \notin {"recording"}
  BY <1>2 DEF Reduce, From
<1> QED
  BY <1>1, <1>2

LEMMA Failing ==
  ASSUME NEW s \in RecordingStates, NEW take
  PROVE  LET r == Reduce(s, "error", take) IN
         /\ r \in RecordingStates /\ r.uri = s.uri
         /\ s.status \in {"permission-pending", "recording", "stopping"} =>
              r.status = "error" /\ r.permissionGranted = s.permissionGranted
         /\ s.status \notin {"permission-pending", "recording", "stopping"} => r = s
<1>1. CASE s.status \in {"permission-pending", "recording", "stopping"}
  <2>1. Reduce(s, "error", take) = [s EXCEPT !.status = "error", !.started = FALSE]
    BY <1>1 DEF Reduce, From, After
  <2> QED
    BY <1>1, <2>1 DEF RecordingStates, Statuses
<1>2. CASE s.status \notin {"permission-pending", "recording", "stopping"}
  BY <1>2 DEF Reduce, From
<1> QED
  BY <1>1, <1>2

LEMMA Begun ==
  ASSUME NEW s \in RecordingStates, NEW take
  PROVE  LET r == Reduce(s, "recording-started", take) IN
         /\ r \in RecordingStates /\ r.uri = s.uri /\ r.status = s.status
         /\ r.permissionGranted = s.permissionGranted
<1>1. CASE s.status = "recording"
  <2>1. Reduce(s, "recording-started", take) = [s EXCEPT !.started = TRUE]
    BY <1>1 DEF Reduce, From, After
  <2> QED
    BY <2>1 DEF RecordingStates
<1>2. CASE s.status # "recording"
  BY <1>2 DEF Reduce, From
<1> QED
  BY <1>1, <1>2

LEMMA Finalizing ==
  ASSUME NEW s \in RecordingStates, NEW take \in Nat
  PROVE  LET r == Reduce(s, "recording-finalized", take) IN
         /\ r \in RecordingStates
         /\ s.status = "stopping" =>
              r.status = "idle-with-recording" /\ r.uri = take /\ r.permissionGranted = s.permissionGranted
         /\ s.status # "stopping" => r = s
<1>1. CASE s.status = "stopping"
  <2>1. Reduce(s, "recording-finalized", take)
         = [s EXCEPT !.status = "idle-with-recording", !.uri = take, !.started = FALSE]
    BY <1>1 DEF Reduce, From, After
  <2> QED
    BY <1>1, <2>1 DEF RecordingStates, Statuses
<1>2. CASE s.status # "stopping"
  BY <1>2 DEF Reduce, From
<1> QED
  BY <1>1, <1>2

LEMMA Resetting ==
  ASSUME NEW s \in RecordingStates, NEW take
  PROVE  LET r == Reduce(s, "reset", take) IN
         /\ r \in RecordingStates /\ r.uri = s.uri /\ r.permissionGranted = s.permissionGranted
         /\ r.status = (IF s.permissionGranted THEN "ready" ELSE "unknown")
<1>1. Reduce(s, "reset", take) = [s EXCEPT !.status = Rested(s), !.started = FALSE]
  BY DEF Reduce, From, After, RecordingStates
<1>2. Rested(s) \in Statuses /\ Rested(s) = (IF s.permissionGranted THEN "ready" ELSE "unknown")
  BY DEF Rested, Statuses
<1> QED
  BY <1>1, <1>2 DEF RecordingStates

\* What is on its way is a callback of some take.
LEMMA Arriving ==
  ASSUME Typed
  PROVE  \A i \in 1..Len(inbox) : inbox[i] \in Messages /\ inbox[i].take \in Nat
<1>1. \A i \in 1..Len(inbox) : inbox[i] \in Messages
  BY DEF Typed
<1>2. \A m \in Messages : m.take \in Nat
  BY DEF Messages
<1> QED
  BY <1>1, <1>2

LEMMA ScreenInitInv ==
  ASSUME ScreenInit
  PROVE  ScreenInv
<1>1. state \in RecordingStates /\ state.uri = 0 /\ state.status = "unknown" /\ ~state.permissionGranted
  BY DEF ScreenInit, InitialState, RecordingStates, Statuses
<1>2. /\ inbox = <<>> /\ inbox \in Seq(Messages) /\ Len(inbox) = 0
      /\ cam = 0 /\ takes = 0 /\ done = 0 /\ alone = FALSE /\ stopped = FALSE /\ allowed \subseteq Devices
  BY DEF ScreenInit
<1>3. Typed /\ Permitted
  BY <1>1, <1>2 DEF Typed, Permitted
<1>4. Ordered /\ Together
  BY <1>1, <1>2 DEF Ordered, Together, AtRest
<1> QED
  BY <1>3, <1>4 DEF ScreenInv

\* A step of the screen alone, which neither enters nor leaves a take.
LEMMA ScreenStep ==
  ASSUME ScreenInv, UNCHANGED <<camera, inbox, visit>>, allowed \subseteq allowed', allowed' \subseteq Devices,
         state' \in RecordingStates, state'.uri = state.uri,
         state' = state \/ {state.status, state'.status} \cap {"recording", "stopping"} = {},
         Permitted'
  PROVE  ScreenInv'
<1> USE DEF camera, visit
<1>1. Typed' /\ Ordered'
  BY DEF ScreenInv, Typed, Ordered
<1>2. Together'
  BY DEF ScreenInv, Together, AtRest, Recording, Ending, Ended
<1> QED
  BY <1>1, <1>2 DEF ScreenInv

LEMMA RequestPermissionsInv ==
  ASSUME ScreenInv, RequestPermissions
  PROVE  ScreenInv'
<1>1. /\ state \in RecordingStates /\ state' = Reduce(state, "request-permission", 0)
      /\ state.status \in {"unknown", "permission-denied"} /\ UNCHANGED <<allowed, camera, inbox, visit>>
      /\ allowed \subseteq Devices
  BY DEF RequestPermissions, Dispatch, ScreenInv, Typed
<1>2. /\ state' \in RecordingStates /\ state'.uri = state.uri /\ state'.status = "permission-pending"
      /\ state'.permissionGranted = state.permissionGranted
  BY <1>1, Requested
<1>3. Permitted'
  BY <1>1, <1>2 DEF ScreenInv, Permitted
<1> QED
  BY <1>1, <1>2, <1>3, ScreenStep

LEMMA GrantInv ==
  ASSUME ScreenInv, Granted, state' = Reduce(state, "permission-granted", 0),
         UNCHANGED <<allowed, camera, inbox, visit>>
  PROVE  ScreenInv'
<1>1. state \in RecordingStates /\ allowed = Devices
  BY DEF Granted, ScreenInv, Typed
<1>2. /\ state' \in RecordingStates /\ state'.uri = state.uri
      /\ state.status = "permission-pending" => state'.status = "ready" /\ state'.permissionGranted
      /\ state.status # "permission-pending" => state' = state
  BY <1>1, Granting
<1>3. Permitted'
  BY <1>1, <1>2 DEF ScreenInv, Permitted
<1> QED
  BY <1>1, <1>2, <1>3, ScreenStep

LEMMA DenyInv ==
  ASSUME ScreenInv, state' = Reduce(state, "permission-denied", 0),
         UNCHANGED <<allowed, camera, inbox, visit>>
  PROVE  ScreenInv'
<1>1. state \in RecordingStates /\ allowed \subseteq Devices
  BY DEF ScreenInv, Typed
<1>2. /\ state' \in RecordingStates /\ state'.uri = state.uri
      /\ state.status = "permission-pending" => state'.status = "permission-denied" /\ ~state'.permissionGranted
      /\ state.status # "permission-pending" => state' = state
  BY <1>1, Denying
<1>3. Permitted'
  BY <1>1, <1>2 DEF ScreenInv, Permitted
<1> QED
  BY <1>1, <1>2, <1>3, ScreenStep

LEMMA ResetInv ==
  ASSUME ScreenInv, Reset
  PROVE  ScreenInv'
<1>1. /\ state \in RecordingStates /\ state' = Reduce(state, "reset", 0) /\ state.status = "error"
      /\ UNCHANGED <<allowed, camera, inbox, visit>> /\ allowed \subseteq Devices
  BY DEF Reset, Dispatch, ScreenInv, Typed
<1>2. /\ state' \in RecordingStates /\ state'.uri = state.uri
      /\ state'.permissionGranted = state.permissionGranted
      /\ state'.status = (IF state.permissionGranted THEN "ready" ELSE "unknown")
  BY <1>1, Resetting
<1>3. Permitted'
  BY <1>1, <1>2 DEF ScreenInv, Permitted
<1> QED
  BY <1>1, <1>2, <1>3, ScreenStep

\* A refusal of the camera joins the callbacks: it is no file.
LEMMA Refused ==
  ASSUME ScreenInv, UNCHANGED <<cam, takes, done>>, state'.uri = state.uri,
         NEW m \in Messages, m.kind = "error", m.take = 0, inbox' = Append(inbox, m)
  PROVE  Ordered'
<1>1. /\ inbox \in Seq(Messages) /\ Len(inbox) \in Nat /\ Len(inbox') = Len(inbox) + 1
      /\ inbox'[Len(inbox')] = m /\ cam \in Nat /\ takes \in Nat
      /\ \A i \in 1..Len(inbox') : i # Len(inbox') => i \in 1..Len(inbox) /\ inbox'[i] = inbox[i]
  BY DEF ScreenInv, Typed
<1>2. \A i \in 1..Len(inbox') : inbox'[i].take <= takes' /\ (cam' # 0 => inbox'[i].take < cam')
  BY <1>1 DEF ScreenInv, Ordered
<1>3. \A i \in 1..Len(inbox') : inbox'[i].kind = "recording-finalized" =>
         i \in 1..Len(inbox) /\ inbox'[i] = inbox[i]
  BY <1>1
<1>4. \A i \in 1..Len(inbox') : inbox'[i].kind = "recording-finalized" => done' < inbox'[i].take
  BY <1>3 DEF ScreenInv, Ordered
<1>5. \A i, j \in 1..Len(inbox') :
        i < j /\ inbox'[i].kind = "recording-finalized" /\ inbox'[j].kind = "recording-finalized" =>
          inbox'[i].take < inbox'[j].take
  BY <1>3 DEF ScreenInv, Ordered
<1> QED
  BY <1>2, <1>4, <1>5 DEF ScreenInv, Ordered

\* The screen starts, where it may.
LEMMA Started ==
  ASSUME ScreenInv, state.status \in {"ready", "idle-with-recording"},
         state' = Reduce(Reduce(state, "start-recording", 0), "recording-started", 0),
         UNCHANGED allowed
  PROVE  /\ state' \in RecordingStates /\ state'.uri = state.uri /\ state'.status = "recording"
         /\ Permitted'
<1>1. PICK first : first = Reduce(state, "start-recording", 0)
  OBVIOUS
<1>2. /\ first \in RecordingStates /\ first.uri = state.uri /\ first.status = "recording"
      /\ first.permissionGranted = state.permissionGranted
  BY <1>1, Starting DEF ScreenInv, Typed
<1>3. /\ state' \in RecordingStates /\ state'.uri = first.uri /\ state'.status = first.status
      /\ state'.permissionGranted = first.permissionGranted
  BY <1>1, <1>2, Begun
<1>4. Permitted'
  BY <1>2, <1>3 DEF ScreenInv, Permitted
<1> QED
  BY <1>2, <1>3, <1>4

LEMMA StartInv ==
  ASSUME ScreenInv, StartRecording
  PROVE  ScreenInv'
<1>1. /\ state.status \in {"ready", "idle-with-recording"} /\ state \in RecordingStates
      /\ UNCHANGED <<allowed, visit>> /\ allowed \subseteq Devices
  BY DEF StartRecording, ScreenInv, Typed
<1>2. CASE ~device
  <2>1. state' = Reduce(state, "error", 0) /\ UNCHANGED <<camera, inbox>>
    BY <1>2 DEF StartRecording, Dispatch
  <2>2. state' = state
    BY <1>1, <2>1, Failing
  <2>3. Permitted'
    BY <1>1, <2>2 DEF ScreenInv, Permitted
  <2> QED
    BY <1>1, <2>1, <2>2, <2>3, ScreenStep
<1>3. CASE device /\ cam = 0
  <2>1. /\ state' = Reduce(Reduce(state, "start-recording", 0), "recording-started", 0)
        /\ takes' = takes + 1 /\ cam' = takes + 1 /\ stopped' = FALSE /\ inbox' = inbox
    BY <1>3 DEF StartRecording
  <2>2. state' \in RecordingStates /\ state'.uri = state.uri /\ state'.status = "recording" /\ Permitted'
    BY <1>1, <2>1, Started
  <2>3. Typed'
    <3>1. takes \in Nat
      BY DEF ScreenInv, Typed
    <3>2. takes' \in Nat /\ cam' \in Nat
      BY <2>1, <3>1
    <3>3. stopped' \in BOOLEAN
      BY <2>1
    <3> QED
      BY <1>1, <2>1, <2>2, <3>2, <3>3 DEF ScreenInv, Typed, visit
  <2>4. Ordered'
    <3>1. \A i \in 1..Len(inbox) : inbox[i].take \in Nat
      BY Arriving DEF ScreenInv
    <3> QED
      BY <1>1, <1>3, <2>1, <2>2, <3>1 DEF ScreenInv, Typed, Ordered, visit
  <2>5. Together'
    BY <1>1, <1>3, <2>1, <2>2 DEF ScreenInv, Typed, Together, AtRest, Recording, Ending, Ended, visit
  <2> QED
    BY <2>2, <2>3, <2>4, <2>5 DEF ScreenInv
<1>4. CASE device /\ cam # 0
  <2> DEFINE m == [kind |-> "error", take |-> 0]
  <2>1. /\ state' = Reduce(Reduce(state, "start-recording", 0), "recording-started", 0)
        /\ inbox' = Append(inbox, m) /\ UNCHANGED camera
    BY <1>4 DEF StartRecording
  <2>2. state' \in RecordingStates /\ state'.uri = state.uri /\ state'.status = "recording" /\ Permitted'
    BY <1>1, <2>1, Started
  <2>3. m \in Messages /\ m.kind = "error" /\ m.take = 0
    BY DEF Messages
  <2> HIDE DEF m
  <2>4. Typed'
    BY <1>1, <2>1, <2>2, <2>3 DEF ScreenInv, Typed, visit, camera
  <2>5. Ordered'
    BY <1>1, <2>1, <2>2, <2>3, Refused DEF visit, camera
  <2>6. Together'
    BY <1>1, <1>4, <2>1, <2>2 DEF ScreenInv, Together, AtRest, Recording, Ending, Ended, visit
  <2> QED
    BY <2>2, <2>4, <2>5, <2>6 DEF ScreenInv
<1> QED
  BY <1>2, <1>3, <1>4

LEMMA StopInv ==
  ASSUME ScreenInv, StopRecording
  PROVE  ScreenInv'
<1>1. /\ state.status = "recording" /\ state \in RecordingStates /\ state' = Reduce(state, "stop-recording", 0)
      /\ UNCHANGED <<allowed, cam, takes, visit>>
  BY DEF StopRecording, Dispatch, ScreenInv, Typed
<1>2. /\ state' \in RecordingStates /\ state'.uri = state.uri /\ state'.status = "stopping"
      /\ state'.permissionGranted = state.permissionGranted
  BY <1>1, Stopping
<1>3. Permitted'
  BY <1>1, <1>2 DEF ScreenInv, Permitted
<1>4. CASE cam # 0
  <2>1. stopped' = TRUE /\ inbox' = inbox
    BY <1>4 DEF StopRecording
  <2>2. Typed' /\ Ordered'
    BY <1>1, <1>2, <2>1 DEF ScreenInv, Typed, Ordered, visit
  <2>3. Together'
    BY <1>1, <1>2, <1>4, <2>1 DEF ScreenInv, Together, AtRest, Recording, Ending, Ended, visit
  <2> QED
    BY <1>3, <2>2, <2>3 DEF ScreenInv
<1>5. CASE cam = 0
  <2> DEFINE m == [kind |-> "error", take |-> 0]
  <2>1. inbox' = Append(inbox, m) /\ UNCHANGED stopped
    BY <1>5 DEF StopRecording
  <2>2. m \in Messages /\ m.kind = "error" /\ m.take = 0
    BY DEF Messages
  <2> HIDE DEF m
  <2>3. Typed'
    BY <1>1, <1>2, <2>1, <2>2 DEF ScreenInv, Typed, visit
  <2>4. Ordered'
    BY <1>1, <1>2, <2>1, <2>2, Refused DEF visit
  <2>5. Together'
    BY <1>1, <1>2, <1>5 DEF ScreenInv, Together, AtRest, Recording, Ending, Ended, visit
  <2> QED
    BY <1>3, <2>3, <2>4, <2>5 DEF ScreenInv
<1> QED
  BY <1>4, <1>5

LEMMA TakeEndsInv ==
  ASSUME ScreenInv, TakeEnds
  PROVE  ScreenInv'
<1>1. PICK kind \in {"recording-finalized", "error"} : inbox' = Append(inbox, [kind |-> kind, take |-> cam])
  BY DEF TakeEnds
<1>2. /\ cam # 0 /\ cam' = 0 /\ stopped' = FALSE /\ alone' = (alone \/ ~stopped)
      /\ UNCHANGED <<state, allowed, takes, done>>
  BY DEF TakeEnds
<1> DEFINE m == [kind |-> kind, take |-> cam]
<1>3. m \in Messages /\ m.take = cam
  BY DEF Messages, ScreenInv, Typed
<1>4. inbox' = Append(inbox, m)
  BY <1>1
<1> HIDE DEF m
<1>5. Typed' /\ Permitted'
  <2>1. alone' \in BOOLEAN /\ stopped' \in BOOLEAN
    BY <1>2
  <2>2. inbox' \in Seq(Messages)
    BY <1>3, <1>4 DEF ScreenInv, Typed
  <2> QED
    BY <1>2, <2>1, <2>2 DEF ScreenInv, Typed, Permitted
<1>6. Ordered'
  BY <1>2, <1>3, <1>4 DEF ScreenInv, Typed, Ordered, Messages
<1>7. Together'
  <2>1. inbox = <<>> => Len(inbox') = 1
    BY <1>3, <1>4
  <2> QED
    BY <1>2, <2>1 DEF ScreenInv, Together, AtRest, Recording, Ending, Ended
<1> QED
  BY <1>5, <1>6, <1>7 DEF ScreenInv

LEMMA CallbackInv ==
  ASSUME ScreenInv, Callback
  PROVE  ScreenInv' /\ state'.uri >= state.uri
<1>1. PICK m \in Messages : m = Head(inbox)
  BY DEF Callback, ScreenInv, Typed
<1>2. /\ inbox # <<>> /\ state' = Reduce(state, m.kind, m.take) /\ inbox' = Tail(inbox)
      /\ done' = (IF m.kind = "recording-finalized" THEN m.take ELSE done)
      /\ UNCHANGED <<allowed, cam, stopped, takes, alone>> /\ state \in RecordingStates
  BY <1>1 DEF Callback, camera, ScreenInv, Typed
<1>3. m.take \in Nat /\ m.kind \in {"recording-finalized", "error"}
  BY DEF Messages
<1>4. /\ inbox' \in Seq(Messages) /\ Len(inbox') = Len(inbox) - 1 /\ Len(inbox) \in Nat \ {0} /\ m = inbox[1]
      /\ \A i \in 1..Len(inbox') : i + 1 \in 1..Len(inbox) /\ inbox'[i] = inbox[i + 1]
  BY <1>1, <1>2 DEF ScreenInv, Typed
<1>5. /\ m.take <= takes /\ (cam # 0 => m.take < cam)
      /\ m.kind = "recording-finalized" => done < m.take
  BY <1>4 DEF ScreenInv, Ordered
<1>6. /\ state' \in RecordingStates /\ state'.uri >= state.uri /\ state'.uri <= done'
      /\ m.kind = "recording-finalized" /\ state.status = "stopping" =>
           /\ state'.status = "idle-with-recording" /\ state'.uri = m.take
           /\ state'.permissionGranted = state.permissionGranted
      /\ m.kind = "error" /\ state.status \in {"permission-pending", "recording", "stopping"} =>
           /\ state'.status = "error" /\ state'.uri = state.uri
           /\ state'.permissionGranted = state.permissionGranted
      /\ \/ state' = state
         \/ m.kind = "error" /\ state.status \in {"permission-pending", "recording", "stopping"}
         \/ m.kind = "recording-finalized" /\ state.status = "stopping"
  <2>1. state.uri \in Nat /\ done \in Nat /\ state.uri <= done
    BY <1>2 DEF ScreenInv, Typed, Ordered, RecordingStates
  <2>2. CASE m.kind = "recording-finalized"
    <3>1. /\ state' \in RecordingStates
          /\ state.status = "stopping" =>
               /\ state'.status = "idle-with-recording" /\ state'.uri = m.take
               /\ state'.permissionGranted = state.permissionGranted
          /\ state.status # "stopping" => state' = state
      BY <1>2, <1>3, <2>2, Finalizing
    <3>2. done' = m.take /\ done < m.take
      BY <1>2, <1>5, <2>2
    <3>3. state'.uri = m.take \/ state'.uri = state.uri
      BY <3>1
    <3>4. state'.uri >= state.uri /\ state'.uri <= done'
      BY <1>3, <2>1, <3>2, <3>3
    <3> QED
      BY <2>2, <3>1, <3>4
  <2>3. CASE m.kind = "error"
    <3>1. /\ state' \in RecordingStates /\ state'.uri = state.uri
          /\ state.status \in {"permission-pending", "recording", "stopping"} =>
               state'.status = "error" /\ state'.permissionGranted = state.permissionGranted
          /\ state.status \notin {"permission-pending", "recording", "stopping"} => state' = state
      BY <1>2, <2>3, Failing
    <3>2. done' = done
      BY <1>2, <2>3
    <3> QED
      BY <2>1, <2>3, <3>1, <3>2
  <2> QED
    BY <1>3, <2>2, <2>3
<1>7. Typed'
  BY <1>2, <1>3, <1>4, <1>6 DEF ScreenInv, Typed
<1>8. Permitted'
  BY <1>2, <1>3, <1>6 DEF ScreenInv, Permitted
<1>9. Ordered'
  <2>1. \A i \in 1..Len(inbox) : inbox[i].take \in Nat
    BY Arriving DEF ScreenInv
  <2>2. state'.uri <= done' /\ done' <= takes' /\ cam' <= takes' /\ (cam' # 0 => done' < cam')
    BY <1>2, <1>3, <1>5, <1>6 DEF ScreenInv, Ordered
  <2>3. \A i \in 1..Len(inbox') : inbox'[i].take <= takes' /\ (cam' # 0 => inbox'[i].take < cam')
    BY <1>2, <1>4 DEF ScreenInv, Ordered
  <2>4. \A i \in 1..Len(inbox') : inbox'[i].kind = "recording-finalized" => done' < inbox'[i].take
    <3>1. SUFFICES ASSUME NEW i \in 1..Len(inbox'), inbox'[i].kind = "recording-finalized"
                   PROVE  done' < inbox'[i].take
      OBVIOUS
    <3>2. PICK j \in 1..Len(inbox) : j = i + 1 /\ 1 < j /\ inbox'[i] = inbox[j]
      BY <1>4
    <3>3. done < inbox[j].take
      BY <3>1, <3>2 DEF ScreenInv, Ordered
    <3>4. m.kind = "recording-finalized" => m.take < inbox[j].take
      BY <1>4, <3>1, <3>2 DEF ScreenInv, Ordered
    <3> QED
      BY <1>2, <3>2, <3>3, <3>4
  <2>5. \A i, j \in 1..Len(inbox') :
          i < j /\ inbox'[i].kind = "recording-finalized" /\ inbox'[j].kind = "recording-finalized" =>
            inbox'[i].take < inbox'[j].take
    BY <1>4 DEF ScreenInv, Ordered
  <2> QED
    BY <2>2, <2>3, <2>4, <2>5 DEF Ordered
<1>10. Together'
  <2>1. SUFFICES ASSUME ~alone PROVE state'.uri = done' /\ AtRest'
    BY <1>2 DEF Together
  <2>2. state.status = "stopping" /\ cam = 0 /\ Len(inbox) = 1 /\ state.uri = done
    BY <1>2, <2>1 DEF ScreenInv, Together, AtRest, Recording, Ending, Ended
  <2>3. inbox' = <<>>
    BY <1>4, <2>2
  <2> QED
    BY <1>2, <1>3, <1>6, <2>2, <2>3 DEF AtRest
<1> QED
  BY <1>6, <1>7, <1>8, <1>9, <1>10 DEF ScreenInv

LEMMA LeaveInv ==
  ASSUME ScreenInv, Leave
  PROVE  ScreenInv'
<1>1. /\ state' \in RecordingStates /\ state'.uri = 0 /\ state'.status = "unknown" /\ ~state'.permissionGranted
  BY DEF Leave, InitialState, RecordingStates, Statuses
<1>2. /\ inbox' = <<>> /\ inbox' \in Seq(Messages) /\ Len(inbox') = 0
      /\ allowed' \subseteq Devices
      /\ cam' = 0 /\ takes' = takes /\ takes \in Nat /\ done' = 0 /\ alone' = FALSE /\ stopped' = FALSE
  BY DEF Leave, ScreenInv, Typed
<1>3. Typed' /\ Permitted'
  BY <1>1, <1>2 DEF Typed, Permitted
<1>4. Ordered' /\ Together'
  BY <1>1, <1>2 DEF Ordered, Together, AtRest
<1> QED
  BY <1>3, <1>4 DEF ScreenInv

LEMMA PermissionsResolvedInv ==
  ASSUME ScreenInv, PermissionsResolved
  PROVE  ScreenInv'
<1>1. UNCHANGED <<allowed, camera, inbox, visit>>
  BY DEF PermissionsResolved
<1>2. CASE Granted
  <2>1. state' = Reduce(state, "permission-granted", 0)
    BY <1>2 DEF PermissionsResolved, Dispatch
  <2> QED
    BY <1>1, <1>2, <2>1, GrantInv
<1>3. CASE ~Granted
  <2>1. state' = Reduce(state, "permission-denied", 0)
    BY <1>3 DEF PermissionsResolved, Dispatch
  <2> QED
    BY <1>1, <2>1, DenyInv
<1> QED
  BY <1>2, <1>3

LEMMA PermissionEffectInv ==
  ASSUME ScreenInv, PermissionEffect
  PROVE  ScreenInv'
<1>1. Granted /\ state' = Reduce(state, "permission-granted", 0) /\ UNCHANGED <<allowed, camera, inbox, visit>>
  BY DEF PermissionEffect, Dispatch
<1> QED
  BY <1>1, GrantInv

\* The settings only add to what was granted.
LEMMA AnswerInv ==
  ASSUME ScreenInv, Answer
  PROVE  ScreenInv'
<1>1. PICK d \in Devices \ allowed : allowed' = allowed \cup {d}
  BY DEF Answer
<1>2. UNCHANGED <<state, camera, inbox, visit>> /\ state \in RecordingStates /\ allowed \subseteq Devices
  BY DEF Answer, ScreenInv, Typed
<1>3. allowed \subseteq allowed' /\ allowed' \subseteq Devices /\ allowed # Devices
  BY <1>1, <1>2
<1>4. Permitted'
  BY <1>2, <1>3 DEF ScreenInv, Permitted
<1> QED
  BY <1>2, <1>3, <1>4, ScreenStep

\* A rejection tells the screen nothing.
LEMMA PermissionsRejectedInv ==
  ASSUME ScreenInv, PermissionsRejected
  PROVE  ScreenInv'
<1>1. UNCHANGED <<state, allowed, camera, inbox, done, alone>>
  BY DEF PermissionsRejected
<1> QED
  BY <1>1 DEF ScreenInv, Typed, Permitted, Ordered, Together, AtRest, Recording, Ending, Ended, camera

LEMMA ScreenStepInv ==
  ASSUME ScreenInv, [ScreenNext]_screenVars
  PROVE  ScreenInv'
<1>1. CASE UNCHANGED screenVars
  <2>1. UNCHANGED <<state, allowed, camera, inbox, visit>>
    BY <1>1 DEF screenVars, camera, visit
  <2> QED
    BY <2>1 DEF ScreenInv, Typed, Permitted, Ordered, Together, AtRest, Recording, Ending, Ended, camera, visit
<1>2. CASE ScreenNext
  BY <1>2, RequestPermissionsInv, PermissionEffectInv, AnswerInv, PermissionsResolvedInv,
     PermissionsRejectedInv, StartInv, StopInv,
     ResetInv, TakeEndsInv, CallbackInv, LeaveInv DEF ScreenNext
<1> QED
  BY <1>1, <1>2

\* Typed, what the screen remembers of the permission, the order of the takes and
\* where the screen and the camera are, in every reachable state.
THEOREM ScreenInvariant == ScreenSpec => []ScreenInv
<1>1. ScreenInit => ScreenInv
  BY ScreenInitInv
<1>2. ScreenInv /\ [ScreenNext]_screenVars => ScreenInv'
  BY ScreenStepInv
<1> QED
  BY <1>1, <1>2, PTL DEF ScreenSpec

\* CapturePhoneScreen is right of the permission, and of the camera as long as
\* only the user ends takes: phoneRecordingState.ts' reducer is the source of truth.
THEOREM ScreenStaysRight == ScreenSpec => []ScreenRight
<1>1. ScreenInv => ScreenRight
  <2>1. ScreenInv => PermissionHeld
    BY DEF ScreenInv, Permitted, PermissionHeld
  <2>2. ScreenInv => FollowsCamera
    BY DEF ScreenInv, Together, AtRest, Recording, Ending, Ended, FollowsCamera, LatestShown, ScreenKnows
  <2> QED
    BY <2>1, <2>2 DEF ScreenRight
<1> QED
  BY <1>1, ScreenInvariant, PTL

\* The recording on show is never replaced by an older one while the user stays:
\* only a callback of a newer take changes lastRecordingUri.
THEOREM NeverBack == ScreenSpec => NeverOlder
<1>1. ScreenInv /\ [ScreenNext]_screenVars => [state'.uri >= state.uri \/ state' = InitialState]_screenVars
  <2>1. SUFFICES ASSUME ScreenInv, ScreenNext
                 PROVE  state'.uri >= state.uri \/ state' = InitialState
    OBVIOUS
  <2>2. state \in RecordingStates /\ state.uri \in Nat
    BY <2>1 DEF ScreenInv, Typed, RecordingStates
  <2>3. state'.uri = state.uri => state'.uri >= state.uri
    BY <2>2
  <2>4. CASE RequestPermissions
    BY <2>2, <2>3, <2>4, Requested DEF RequestPermissions, Dispatch
  <2>5. CASE PermissionEffect \/ PermissionsResolved
    <3>1. state' = Reduce(state, "permission-granted", 0) \/ state' = Reduce(state, "permission-denied", 0)
      BY <2>5 DEF PermissionEffect, PermissionsResolved, Dispatch
    <3>2. Reduce(state, "permission-granted", 0).uri = state.uri
      BY <2>2, Granting
    <3>3. Reduce(state, "permission-denied", 0).uri = state.uri
      BY <2>2, Denying
    <3> QED
      BY <2>3, <3>1, <3>2, <3>3
  <2>6. CASE Answer \/ TakeEnds \/ PermissionsRejected
    BY <2>3, <2>6 DEF Answer, TakeEnds, PermissionsRejected
  <2>7. CASE StartRecording
    <3>1. state' = Reduce(state, "error", 0) \/
          state' = Reduce(Reduce(state, "start-recording", 0), "recording-started", 0)
      BY <2>7 DEF StartRecording, Dispatch
    <3>2. PICK first : first = Reduce(state, "start-recording", 0)
      OBVIOUS
    <3>3. first \in RecordingStates /\ first.uri = state.uri
      BY <2>2, <3>2, Starting
    <3>4. state' = Reduce(state, "error", 0) => state'.uri = state.uri
      BY <2>2, Failing
    <3>5. state' = Reduce(first, "recording-started", 0) => state'.uri = first.uri
      BY <3>3, Begun
    <3> QED
      BY <2>3, <3>1, <3>2, <3>3, <3>4, <3>5
  <2>8. CASE StopRecording
    BY <2>2, <2>3, <2>8, Stopping DEF StopRecording, Dispatch
  <2>9. CASE Callback
    BY <2>1, <2>9, CallbackInv
  <2>10. CASE Leave
    BY <2>10 DEF Leave
  <2>11. CASE Reset
    BY <2>2, <2>3, <2>11, Resetting DEF Reset, Dispatch
  <2> QED
    BY <2>1, <2>4, <2>5, <2>6, <2>7, <2>8, <2>9, <2>10, <2>11 DEF ScreenNext
<1> QED
  BY <1>1, ScreenInvariant, PTL DEF ScreenSpec, NeverOlder
=============================================================================
