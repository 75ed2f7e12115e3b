--------------------------- MODULE MC_PostSession ---------------------------
(* A worker and a workflow for two shots, with a fault, the ten attempts of *)
(* _DEFAULT_RETRY and an operator who starts the worker ten times at most.  *)
(* A call that was given up runs on, so that handlers of one worker overlap *)
(* as those of two would.                                                   *)
EXTENDS PostSession
=============================================================================
