------------------------- MODULE MC_ConnectionState -------------------------
(* One caller, two kinds of error, one receiver.                   *)
EXTENDS ConnectionState

CONSTANTS a, rx, timeout, bonded

MCOne == {a}
MCSubscribers == {rx}
MCKinds == {timeout, bonded}
=============================================================================
