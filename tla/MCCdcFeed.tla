----------------------------- MODULE MCCdcFeed ------------------------------
(***************************************************************************)
(* CdcFeed for TLC: five events on four messages, one of them with two     *)
(* events, one of another record and one of another model.                 *)
(***************************************************************************)
EXTENDS CdcFeed, TLC

CONSTANTS m1, m2, m3, m4

MCEvents == 1..5
MCMessageOf == 1 :> m1 @@ 2 :> m2 @@ 3 :> m3 @@ 4 :> m3 @@ 5 :> m4
=============================================================================
