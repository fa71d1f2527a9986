------------------------- MODULE MCPropertyDispatch -------------------------
(***************************************************************************)
(* PropertyDispatch for TLC: three payloads and two workers, so that a     *)
(* worker takes a second record while the other is still busy.             *)
(***************************************************************************)
EXTENDS PropertyDispatch

MCN == 3
MCConcurrency == 2
=============================================================================
