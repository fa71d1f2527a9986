-------------------------- MODULE MCPropertyPatch ---------------------------
(***************************************************************************)
(* PropertyPatch for TLC: two properties whose definitions are a text or a *)
(* selection with one or two options, two parents, two records.            *)
(***************************************************************************)
EXTENDS PropertyPatch, TLC

CONSTANTS r1, r2, p1, p2, home, other, one, two

MCKinds == {"char", "selA", "selAB"}
MCTypeOf(k) == IF k = "char" THEN "char" ELSE "selection"
MCValues == {"unset", "a", "b"}
MCAccepts(k) == IF k = "selA" THEN {"unset", "a"} ELSE MCValues
MCBound == p1 :> "selAB"
MCMappedOptions == p1 :> {"a"}

Clear == p2 :> "unset"
SetB  == p1 :> "b"
Empty == [p \in {} |-> "unset"]

BindingInputs ==
  (one :> {(r1 :> SetB) @@ (r2 :> Empty)}) @@
  (two :> {(r1 :> SetB) @@ (r2 :> Empty), r1 :> Clear})

DirectInputs ==
  (one :> {r1 :> Clear, r1 :> Empty}) @@
  (two :> {(r1 :> SetB) @@ (r2 :> SetB), r1 :> Empty})

TwiceBoundInputs ==
  (one :> {r1 :> SetB}) @@ (two :> {r2 :> Clear})

SingleInputs ==
  (one :> {r1 :> Clear, r1 :> SetB, r1 :> Empty}) @@ (two :> {r1 :> Clear})

MCInitialServers ==
  {[defs   |-> (home :> (p1 :> "selAB" @@ p2 :> "char"))
                 @@ (other :> (p1 :> Absent @@ p2 :> "char")),
    parent |-> [r \in {r1, r2} |-> home],
    stored |-> [r \in {r1, r2} |-> (p1 :> "a" @@ p2 :> "b")]]}

MCPrograms ==
  {[style |-> (one :> "bound") @@ (two :> "retained"), inputs |-> BindingInputs,
    maxEdits |-> 2],
   [style |-> (one :> "direct") @@ (two :> "batch"), inputs |-> DirectInputs,
    maxEdits |-> 1],
   [style |-> (one :> "bound") @@ (two :> "bound"), inputs |-> TwiceBoundInputs,
    maxEdits |-> 2],
   [style |-> (one :> "single") @@ (two :> "bound"), inputs |-> SingleInputs,
    maxEdits |-> 1]}
=============================================================================
