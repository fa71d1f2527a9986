--------------------------- MODULE PropertyBatch ----------------------------
(***************************************************************************)
(* What a batch of property writes promises its caller, whatever the       *)
(* number of workers and the order in which they run (types.py             *)
(* PropertyReceipt and PropertyBatchCancelledError).                       *)
(*                                                                         *)
(* A write is `unsent`, then `open` once it may reach the server, then     *)
(* `applied` or `rejected` for good.  A verdict on it is given once and is *)
(* never wrong: acknowledged means applied, failed means that it is not    *)
(* and will not be.  A batch that is closed has judged every write, or has *)
(* been cancelled and released the writes it never sent.                   *)
(***************************************************************************)
EXTENDS Naturals

CONSTANT Writes

VARIABLES fate, verdict, phase, released

vars == <<fate, verdict, phase, released>>

Fates    == {"unsent", "open", "applied", "rejected"}
Verdicts == {"acknowledged", "failed", "unknown"}

Init ==
  /\ fate = [w \in Writes |-> "unsent"]
  /\ verdict = [w \in Writes |-> "none"]
  /\ phase = "running"
  /\ released = {}

\* A verdict that nothing that happens later can make wrong.
Truthful(v, f) ==
  /\ v = "acknowledged" => f = "applied"
  /\ v = "failed" => f \in {"unsent", "rejected"}

\* A write is sent at most once, and never after a verdict on it or after
\* the batch was cancelled.
Send(w) ==
  /\ phase = "running"
  /\ fate[w] = "unsent"
  /\ verdict[w] = "none"
  /\ fate' = [fate EXCEPT ![w] = "open"]
  /\ UNCHANGED <<verdict, phase, released>>

Decide(w, f) ==
  /\ fate[w] = "open"
  /\ f \in {"applied", "rejected"}
  /\ fate' = [fate EXCEPT ![w] = f]
  /\ UNCHANGED <<verdict, phase, released>>

\* Verdicts are added for some writes and never revised.
Judged ==
  /\ verdict' \in [Writes -> Verdicts \cup {"none"}]
  /\ \A w \in Writes : verdict'[w] # verdict[w] =>
       /\ verdict[w] = "none"
       /\ Truthful(verdict'[w], fate[w])

Judge ==
  /\ phase \in {"running", "cancelled"}
  /\ Judged
  /\ UNCHANGED <<fate, phase, released>>

Cancel ==
  /\ phase = "running"
  /\ phase' = "cancelled"
  /\ UNCHANGED <<fate, verdict, released>>

Complete ==
  /\ phase = "running"
  /\ \A w \in Writes : verdict[w] # "none"
  /\ phase' = "closed"
  /\ UNCHANGED <<fate, verdict, released>>

\* A cancelled batch closes with a verdict on every write it cannot release.
Release ==
  /\ phase = "cancelled"
  /\ Judged
  /\ released' = {w \in Writes : verdict'[w] = "none"}
  /\ \A w \in released' : fate[w] = "unsent"
  /\ phase' = "closed"
  /\ UNCHANGED fate

\* The caller may also be left without a report.
Abandon ==
  /\ phase # "closed"
  /\ phase' = "closed"
  /\ UNCHANGED <<fate, verdict, released>>

Next ==
  \/ \E w \in Writes : Send(w)
  \/ \E w \in Writes, f \in {"applied", "rejected"} : Decide(w, f)
  \/ Judge
  \/ Cancel
  \/ Complete
  \/ Release
  \/ Abandon

Spec == Init /\ [][Next]_vars
=============================================================================
