------------------------- MODULE MC_PhoneRecording -------------------------
(* Three takes: one that goes wrong, one it disturbs, one that recovers.   *)
EXTENDS PhoneRecording
=============================================================================
