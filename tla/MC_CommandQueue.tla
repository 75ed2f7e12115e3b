-------------------------- MODULE MC_CommandQueue --------------------------
(* Three callers, one of them retrying.  Over two slots the order of the     *)
(* buffer shows, and a third sender is blocked until the worker takes the    *)
(* first command.                                                            *)
EXTENDS CommandQueue

CONSTANTS c1, c2, c3

MCCommands == {c1, c2, c3}
MCRetried == {c1}
=============================================================================
