---------------------------- MODULE PhoneCamera ----------------------------
(***************************************************************************)
(* PhoneCamera and the native bridge that feeds it: emitter threads (the   *)
(* camera's worklet, an audio callback) push frame handles and audio       *)
(* chunks into two bounded rings that drop their oldest entry on overflow, *)
(* the ML consumer polls them, and a metrics thread reads stats().         *)
(*                                                                         *)
(* A frame is its monotonic_seq and a chunk the rank of its timestamp: the *)
(* other fields are carried along untouched.  Each ring has its mutex; the *)
(* drop counters are atomics that stats() and the bridge read without it,  *)
(* so a push is three steps: number the frame, take the lock and count a   *)
(* drop, change the ring and unlock.  A poll is one step.                  *)
(***************************************************************************)
EXTENDS Naturals, Sequences

CONSTANTS
  Emitters,   \* threads that push
  Medium,     \* Medium[e]: what emitter e pushes, "frames" or "audio"
  Capacity,   \* Capacity[k]: frame_capacity and audio_capacity
  MaxPushes,  \* a bound on the pushes of each medium, for model checking
  None        \* no thread

Media == {"frames", "audio"}

ASSUME PhoneCameraAssumption ==
  /\ Medium \in [Emitters -> Media]
  /\ Capacity \in [Media -> Nat \ {0}]   \* new() asserts both
  /\ MaxPushes \in Nat
  /\ None \notin Emitters

VARIABLES
  available, \* the native library was loaded and _new returned a handle
  seq,       \* seq[k]: the last sequence number handed out
  push,      \* push[e]: where emitter e stands in a push
  num,       \* num[e]: the number of the frame it is pushing
  holder,    \* holder[k]: who holds the mutex of ring k, or None
  ring,      \* ring[k]: the VecDeque, oldest first
  dropped,   \* dropped[k]: dropped_frames and dropped_audio
  told,      \* told[k]: pushes the bridge reported as handed to Rust
  polled,    \* polled[k]: what the consumer has been given, in order
  reading,   \* the fields of a stats() call read so far, -1 when none runs
  stats      \* the PhoneCameraStats it is building or has returned

vars == <<available, seq, push, num, holder, ring, dropped, told, polled,
          reading, stats>>
emitterVars == <<available, seq, push, num, holder, dropped, told>>
readerVars == <<reading, stats>>

-----------------------------------------------------------------------------
(* Faults: plausible mistakes, each the mutated form of the definition its   *)
(* comment names.                                                           *)

\* Poll: pop_back instead of pop_front.
PollNewest(k) ==
  /\ holder[k] = None /\ ring[k] # <<>>
  /\ polled' = [polled EXCEPT ![k] = Append(@, ring[k][Len(ring[k])])]
  /\ ring' = [ring EXCEPT ![k] = SubSeq(@, 1, Len(@) - 1)]
  /\ UNCHANGED <<emitterVars, readerVars>>

\* BeginPush: the length is checked, the lock released and taken again later.
BeginPushUnlocked(e) ==
  LET k == Medium[e]
      full == Len(ring[k]) >= Capacity[k]
  IN  /\ push[e] = "numbered" /\ holder[k] = None
      /\ dropped' = IF full THEN [dropped EXCEPT ![k] = @ + 1] ELSE dropped
      /\ push' = [push EXCEPT ![e] = IF full THEN "evicting" ELSE "appending"]
      /\ UNCHANGED <<available, seq, num, holder, ring, told, polled, readerVars>>
-----------------------------------------------------------------------------
Init ==
  /\ available \in BOOLEAN
  /\ seq = [k \in Media |-> 0]
  /\ push = [e \in Emitters |-> "idle"]
  /\ num = [e \in Emitters |-> 0]
  /\ holder = [k \in Media |-> None]
  /\ ring = [k \in Media |-> <<>>]
  /\ dropped = [k \in Media |-> 0]
  /\ told = [k \in Media |-> 0]
  /\ polled = [k \in Media |-> <<>>]
  /\ reading = 0
  /\ stats = [queued |-> [k \in Media |-> 0], dropped |-> [k \in Media |-> 0]]
-----------------------------------------------------------------------------
(* An emitter: callback() of the frame processor plugin.                   *)

NextNumber(k) == seq[k] + 1

\* nextMonotonicSeq(); without the bridge the callback pushes nothing.
Number(e) ==
  LET k == Medium[e]
  IN  /\ push[e] = "idle" /\ seq[k] < MaxPushes
      /\ seq' = [seq EXCEPT ![k] = NextNumber(k)]
      /\ num' = [num EXCEPT ![e] = NextNumber(k)]
      /\ push' = [push EXCEPT ![e] = IF available THEN "numbered" ELSE "idle"]
      /\ UNCHANGED <<available, holder, ring, dropped, told, polled, readerVars>>

Full(k) == Len(ring[k]) >= Capacity[k]

\* Lock the ring; a full one costs its oldest entry, which is counted first.
BeginPush(e) ==
  LET k == Medium[e]
  IN  /\ push[e] = "numbered" /\ holder[k] = None
      /\ holder' = [holder EXCEPT ![k] = e]
      /\ dropped' = IF Full(k) THEN [dropped EXCEPT ![k] = @ + 1] ELSE dropped
      /\ push' = [push EXCEPT ![e] = IF Full(k) THEN "evicting" ELSE "appending"]
      /\ UNCHANGED <<available, seq, num, ring, told, polled, readerVars>>

Evict(r) == Tail(r)

\* Evict, append and unlock; the bridge reports success.
EndPush(e) ==
  LET k == Medium[e]
      room == IF push[e] = "evicting" THEN Evict(ring[k]) ELSE ring[k]
  IN  /\ push[e] \in {"evicting", "appending"}
      /\ ring' = [ring EXCEPT ![k] = Append(room, num[e])]
      /\ holder' = [holder EXCEPT ![k] = None]
      /\ told' = [told EXCEPT ![k] = @ + 1]
      /\ push' = [push EXCEPT ![e] = "idle"]
      /\ UNCHANGED <<available, seq, num, dropped, polled, readerVars>>
-----------------------------------------------------------------------------
(* The consumer and the metrics thread.                                    *)

Poll(k) ==
  /\ holder[k] = None /\ ring[k] # <<>>
  /\ polled' = [polled EXCEPT ![k] = Append(@, Head(ring[k]))]
  /\ ring' = [ring EXCEPT ![k] = Tail(@)]
  /\ UNCHANGED <<emitterVars, readerVars>>

DropsOf(k) == dropped[k]

\* stats() reads the four fields one after the other.
ReadQueued(k) ==
  /\ reading = (IF k = "frames" THEN 0 ELSE 1)
  /\ holder[k] = None
  /\ stats' = [stats EXCEPT !.queued[k] = Len(ring[k])]
  /\ reading' = reading + 1
  /\ UNCHANGED <<emitterVars, ring, polled>>

ReadDropped(k) ==
  /\ reading = (IF k = "frames" THEN 2 ELSE 3)
  /\ stats' = [stats EXCEPT !.dropped[k] = DropsOf(k)]
  /\ reading' = reading + 1
  /\ UNCHANGED <<emitterVars, ring, polled>>

EmitterStep == \E e \in Emitters : Number(e) \/ BeginPush(e) \/ EndPush(e)
ReaderStep == \E k \in Media : ReadQueued(k) \/ ReadDropped(k)

Next == EmitterStep \/ (\E k \in Media : Poll(k)) \/ ReaderStep

Spec == Init /\ [][Next]_vars
-----------------------------------------------------------------------------
TypeOK ==
  /\ available \in BOOLEAN
  /\ seq \in [Media -> Nat]
  /\ push \in [Emitters -> {"idle", "numbered", "evicting", "appending"}]
  /\ num \in [Emitters -> Nat]
  /\ holder \in [Media -> Emitters \cup {None}]
  /\ ring \in [Media -> Seq(Nat)]
  /\ dropped \in [Media -> Nat]
  /\ told \in [Media -> Nat]
  /\ polled \in [Media -> Seq(Nat)]
  /\ reading \in 0..4
  /\ stats \in [queued : [Media -> Nat], dropped : [Media -> Nat]]

\* A ring is never longer than its capacity, however many threads push.
RingBounded == \A k \in Media : Len(ring[k]) <= Capacity[k]

\* Who has counted its drop and has not made room yet.
Evicting(k) == \E e \in Emitters : Medium[e] = k /\ push[e] = "evicting"

\* Every push reported to the worklet is polled, still queued or counted as
\* dropped, whatever the interleaving of pushes, polls and reads.
PushesAccounted ==
  \A k \in Media :
    told[k] + (IF Evicting(k) THEN 1 ELSE 0)
      = Len(polled[k]) + Len(ring[k]) + dropped[k]

\* The locks do exclude: a thread inside a push of k holds the lock of k.
LocksHeld ==
  /\ \A e \in Emitters : push[e] \in {"evicting", "appending"}
                           <=> holder[Medium[e]] = e
  /\ \A k \in Media : holder[k] # None => Medium[holder[k]] = k
\* What such a thread found under the lock is still so when it uses it.
FoundStillTrue ==
  \A e \in Emitters :
    /\ push[e] = "evicting" => Full(Medium[e])
    /\ push[e] = "appending" => ~Full(Medium[e])

\* The conjunction that is inductive.
CameraInv == TypeOK /\ RingBounded /\ PushesAccounted /\ LocksHeld /\ FoundStillTrue

\* One thread pushes k, as the worklet of the phone-frame-sink plugin does.
OneEmitter(k) == \A e, d \in Emitters : Medium[e] = k /\ Medium[d] = k => e = d

\* From a single thread the consumer sees strictly increasing numbers.
PolledInOrder ==
  \A k \in Media : OneEmitter(k) =>
    LET all == polled[k] \o ring[k]
    IN  \A i, j \in 1..Len(all) : i < j => all[i] < all[j]

\* ... and the ring holds the newest pushes without a gap: only the oldest are
\* dropped, so dropped[k] is what the consumer misses and nothing else.
NewestKept ==
  \A k \in Media : OneEmitter(k) =>
    \A i \in 1..Len(ring[k]) : ring[k][i] = told[k] - Len(ring[k]) + i

\* A completed stats() never counts more frames than were ever pushed.
StatsNotOverstated ==
  reading = 4 => \A k \in Media :
    /\ stats.queued[k] <= Capacity[k]
    /\ stats.queued[k] + stats.dropped[k] <= seq[k]

\* What the readers of a ring get is right: the order of the pushes, with none
\* missing that was not counted, and counts of what was really pushed
\* (poll_frame, stats).
ReadersRight == PolledInOrder /\ NewestKept /\ StatsNotOverstated
=============================================================================
