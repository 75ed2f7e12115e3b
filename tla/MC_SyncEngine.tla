--------------------------- MODULE MC_SyncEngine ---------------------------
(* One row created here, a server id for it and one of another device.     *)
EXTENDS SyncEngine

CONSTANTS l1, s1, s2, s3, x

MCLids == {l1}
MCSids == {s1, s2}
MCSidsThree == {s1, s2, s3}  \* s3 for a row pushed a second time
MCForeignSids == {s2}
MCColsOne == {x}
MCPhases == {"apply", "collect", "push", "ack"}
MCSessions == [k \in Keys |-> "sessions"]
MCShots == [k \in Keys |-> IF k = s2 THEN "shots" ELSE "sessions"]
=============================================================================
