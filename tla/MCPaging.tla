------------------------------ MODULE MCPaging ------------------------------
(***************************************************************************)
(* Paging for TLC: four records and pages of up to two; and five events on *)
(* four messages, one of them with two events, one of another record and   *)
(* one of another model.                                                   *)
(***************************************************************************)
EXTENDS Paging, TLC

CONSTANTS none, m1, m2, m3, m4

MCIds == 1..4
MCBatchSizes == 0..2
MCLimits == {none} \cup 0..3

MCEvents == 1..5
MCMessageOf == 1 :> m1 @@ 2 :> m2 @@ 3 :> m3 @@ 4 :> m3 @@ 5 :> m4
=============================================================================
