--------------------------- MODULE MC_PhoneCamera ---------------------------
(* Two threads push frames, one thread pushes audio.                       *)
EXTENDS PhoneCamera

CONSTANTS worklet, second, mic

MCEmitters == {worklet, second, mic}
MCMedium == [e \in Emitters |-> IF e = mic THEN "audio" ELSE "frames"]
MCCapacity == [k \in Media |-> IF k = "frames" THEN 1 ELSE 2]
=============================================================================
