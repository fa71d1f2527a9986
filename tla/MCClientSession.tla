-------------------------- MODULE MCClientSession ---------------------------
(***************************************************************************)
(* ClientSession for TLC: a scoped write, a plain deletion and a plain     *)
(* read, two logins and two users.                                         *)
(***************************************************************************)
EXTENDS ClientSession, TLC

CONSTANTS write, unlink, read

MCLevel == (write :> "WRITE") @@ (unlink :> "DELETE") @@ (read :> "READ")
=============================================================================
