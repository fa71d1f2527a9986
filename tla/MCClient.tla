------------------------------ MODULE MCClient ------------------------------
(***************************************************************************)
(* Client for TLC: a scoped write, a plain deletion and a plain read, two  *)
(* logins and two users; and two tasks and two scope objects that set the  *)
(* same key.                                                               *)
(***************************************************************************)
EXTENDS Client, TLC

CONSTANTS write, unlink, read

MCLevel == (write :> "WRITE") @@ (unlink :> "DELETE") @@ (read :> "READ")

MCLayer ==
  "french" :> ("lang" :> "fr" @@ "company" :> "1") @@ "german" :> ("lang" :> "de")

MCExplicits == {"lang" :> "en", <<>>}
=============================================================================
