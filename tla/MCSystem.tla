------------------------------ MODULE MCSystem ------------------------------
(***************************************************************************)
(* The client and the components beside it, for TLC: a behaviour is one of *)
(* the client's session or ambient context, or of one of Components.       *)
(***************************************************************************)
EXTENDS MCComponents, MCClient

SystemInit ==
  /\ BothInit
  /\ \/ /\ component = "client"
        /\ v1 = Nil /\ v2 = Nil /\ v3 = Nil /\ v4 = Nil
        /\ v5 = Nil /\ v6 = Nil /\ v7 = Nil /\ v8 = Nil
     \/ part = "session" /\ ComponentsInit

SystemNext ==
  \/ component = "client" /\ BothNext /\ UNCHANGED componentsVars
  \/ ComponentsNext /\ UNCHANGED bothVars

SystemSpec == SystemInit /\ [][SystemNext]_<<bothVars, componentsVars>>
=============================================================================
