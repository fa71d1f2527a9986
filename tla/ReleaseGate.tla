---------------------------- MODULE ReleaseGate ----------------------------
(***************************************************************************)
(* The candidate checks and the promotion gate (scripts/check.py,          *)
(* scripts/gate.py): offline, package and odoo18 proofs of one source      *)
(* tree, whose results a promotion collects.  They read the working tree   *)
(* and the artifact directory at several moments, while developers edit    *)
(* and commit, wheels are rebuilt or exchanged, and checks are killed.     *)
(***************************************************************************)
CONSTANTS
  Trees,      \* contents of the source tree; a commit is named after its content
  Good,       \* the trees whose code passes its tests
  Together,   \* the sets of checks that may be under way at once
  None

\* MANDATORY; odoo19, optional, is the same as odoo18.
Modes == {"offline", "package", "odoo18"}

VARIABLES
  head, tree,  \* the commit checked out, and the working tree
  wheels,      \* the tree the wheels in the artifact directory were built from
  manifest,    \* its manifest: the source identity and the wheels it names
  proc,        \* each check that runs: where it is, its identity at the start,
               \* and what it tested
  result,      \* result.json of each mode
  unseen       \* a check passed although the tree, or the wheels, were others during
               \* it than at its ends

vars == <<head, tree, wheels, manifest, proc, result, unseen>>

\* source_identity
Identity == [sha |-> head, tree |-> tree]
Dirty(source) == source.sha # source.tree

Idle == [pc |-> "idle", before |-> [sha |-> None, tree |-> None], changed |-> FALSE]
NoResult == [passed |-> FALSE, source |-> [sha |-> None, tree |-> None], manifest |-> None]

Init ==
  /\ head \in Trees /\ tree = head
  /\ wheels = None
  /\ manifest = None
  /\ proc = [m \in Modes |-> Idle]
  /\ result = [m \in Modes |-> NoResult]
  /\ unseen = FALSE

-----------------------------------------------------------------------------

\* The wheels that are there are those of the manifest.
Listed == manifest # None /\ manifest.wheels = wheels

\* verify_manifest
Verified == Listed /\ manifest.source = Identity

Running == {m \in Modes : proc[m].pc # "idle"}

\* main up to its mode: the source identity is taken first.
Begin(m) ==
  /\ proc[m].pc = "idle"
  /\ Running \cup {m} \in Together
  /\ proc' = [proc EXCEPT ![m] = [pc |-> "begun", before |-> Identity, changed |-> FALSE]]
  /\ UNCHANGED <<head, tree, wheels, manifest, result, unseen>>

To(m, pc) == proc' = [proc EXCEPT ![m] = IF pc = "idle" THEN Idle ELSE [@ EXCEPT !.pc = pc]]

\* The finally clause after an exception.  Which source a failed check had is
\* of no interest.
Failed(m) ==
  /\ To(m, "idle")
  /\ result' = [result EXCEPT ![m] = NoResult]

\* offline: the linters, type checks and unit tests of the working tree.
Offline ==
  /\ proc["offline"].pc = "begun"
  /\ IF tree \in Good THEN To("offline", "tested") /\ UNCHANGED result ELSE Failed("offline")
  /\ UNCHANGED <<head, tree, wheels, manifest, unseen>>

\* package: the destination must be empty; the wheels are built.
Build ==
  /\ proc["package"].pc = "begun"
  /\ IF wheels = None /\ manifest = None
     THEN wheels' = tree /\ To("package", "built") /\ UNCHANGED result
     ELSE Failed("package") /\ UNCHANGED wheels
  /\ UNCHANGED <<head, tree, manifest, unseen>>

WriteManifest ==
  /\ proc["package"].pc = "built"
  /\ manifest' = [source |-> Identity, wheels |-> wheels]
  /\ To("package", "verify")
  /\ UNCHANGED <<head, tree, wheels, result, unseen>>

\* verify_manifest, with which consumer begins.
Verify(m) ==
  /\ \/ m = "package" /\ proc[m].pc = "verify"
     \/ m = "odoo18" /\ proc[m].pc = "begun"
  /\ IF Verified THEN To(m, "verified") /\ UNCHANGED result ELSE Failed(m)
  /\ UNCHANGED <<head, tree, wheels, manifest, unseen>>

\* The rest of consumer, which installs the wheels that are there, by hashes it
\* takes from them, and the tests of what it installed: after package the public
\* API, in odoo18 the integration suites, which fail for wheels of a bad tree and
\* are refused when empty or skipped.
Consume(m) ==
  /\ proc[m].pc = "verified"
  /\ IF wheels # None /\ (m = "odoo18" => wheels \in Good)
     THEN /\ proc' = [proc EXCEPT ![m].pc = "tested",
                                 ![m].changed = @ \/ ~Listed]
          /\ UNCHANGED result
     ELSE Failed(m)
  /\ UNCHANGED <<head, tree, wheels, manifest, unseen>>

\* Mutant: the source is not looked at again.
UnchangedSourceNever(m) == TRUE

UnchangedSource(m) == proc[m].before = Identity

\* The end of main: the source must be what it was, and the manifest that is
\* there now is recorded.  A proof of a dirty tree stands here for a failed one:
\* promote refuses either.
Conclude(m) ==
  /\ proc[m].pc = "tested"
  /\ IF UnchangedSource(m) /\ (m # "offline" => manifest # None)
     THEN /\ To(m, "idle")
          /\ result' = [result EXCEPT ![m] =
               IF Dirty(proc[m].before) THEN NoResult
               ELSE [passed |-> TRUE, source |-> proc[m].before,
                     manifest |-> IF m = "offline" THEN None ELSE manifest]]
          /\ unseen' = (unseen \/ (proc[m].changed /\ proc[m].before = Identity))
     ELSE Failed(m) /\ UNCHANGED unseen
  /\ UNCHANGED <<head, tree, wheels, manifest>>

\* A check is killed: an earlier result stays where it is.
Killed(m) ==
  /\ proc[m].pc # "idle"
  /\ To(m, "idle")
  /\ UNCHANGED <<head, tree, wheels, manifest, result, unseen>>

\* promote: a clean checkout of the candidate, the manifest verified, and for
\* every mandatory mode a result that passed, is of this source and of these
\* wheels.
Promoted ==
  /\ Verified
  /\ ~Dirty(Identity)
  /\ \A m \in Modes :
       /\ result[m].passed
       /\ result[m].source = manifest.source
       /\ m # "offline" => result[m].manifest = manifest

-----------------------------------------------------------------------------

\* Developers edit the tree, commit it, or check out a commit.
Edit(h, t) ==
  /\ h \in {head, tree, t}
  /\ <<h, t>> # <<head, tree>>
  /\ head' = h /\ tree' = t
  /\ proc' = [m \in Modes |->
       IF proc[m].pc = "idle" THEN proc[m] ELSE [proc[m] EXCEPT !.changed = TRUE]]
  /\ UNCHANGED <<wheels, manifest, result, unseen>>

\* The artifact directory is emptied, or another wheel put into it.
Exchange(w) ==
  /\ w \in Trees \cup {None}
  /\ wheels' = w
  /\ manifest' = IF w = None THEN None ELSE manifest
  /\ UNCHANGED <<head, tree, proc, result, unseen>>

\* Once that has gone unnoticed, which the property excepts, a run is not followed
\* further.
Next ==
  /\ ~unseen
  /\ \/ \E m \in Modes : Begin(m) \/ Verify(m) \/ Consume(m) \/ Conclude(m) \/ Killed(m)
     \/ Offline \/ Build \/ WriteManifest
     \/ \E h, t \in Trees : Edit(h, t)
     \/ \E w \in Trees \cup {None} : Exchange(w)

Spec == Init /\ [][Next]_vars

-----------------------------------------------------------------------------

TypeOK ==
  /\ head \in Trees /\ tree \in Trees /\ wheels \in Trees \cup {None}
  /\ manifest = None \/ (manifest.wheels \in Trees \cup {None} /\ manifest.source.tree \in Trees)
  /\ \A m \in Modes : proc[m].pc \in {"idle", "begun", "built", "verify", "verified", "tested"}

\* "Fail-closed CI aggregation and immutable main-line candidate promotion"
\* (gate.py:6): what would be promoted is a clean commit whose tree passes its
\* tests, and wheels built from such a tree, whatever was edited, rebuilt,
\* exchanged and killed between and during the checks.  A tree, or a wheel,
\* exchanged during a check and restored before anybody looks again goes
\* unnoticed and is excepted.
PromotedProven == Promoted /\ ~unseen => head \in Good /\ wheels \in Good

-----------------------------------------------------------------------------
(***************************************************************************)
(* The inductive invariant.                                                *)
(***************************************************************************)

\* odoo18 needs package (test.yml:82), so that they are not under way together: a
\* manifest of other wheels might be written before the result is recorded.
GateConstants ==
  /\ Good \subseteq Trees /\ None \notin Trees
  /\ \A ms \in Together : "package" \notin ms \/ "odoo18" \notin ms

Shape ==
  /\ result \in [Modes -> [passed : BOOLEAN,
                           source : [sha : Trees \cup {None}, tree : Trees \cup {None}],
                           manifest : {None} \cup
                             [source : [sha : Trees, tree : Trees], wheels : Trees \cup {None}]]]
  /\ manifest \in {None} \cup [source : [sha : Trees, tree : Trees], wheels : Trees \cup {None}]
  /\ proc \in [Modes -> [pc : {"idle", "begun", "built", "verify", "verified", "tested"},
                         before : [sha : Trees \cup {None}, tree : Trees \cup {None}],
                         changed : BOOLEAN]]
  /\ unseen \in BOOLEAN
  /\ proc["offline"].pc \in {"idle", "begun", "tested"}
  /\ proc["package"].pc = "idle" \/ proc["odoo18"].pc = "idle"

\* A check whose tree and wheels nobody touched has tested what it will record.
Tested ==
  \A m \in Running : ~proc[m].changed =>
    /\ proc[m].before = Identity
    /\ m = "offline" /\ proc[m].pc = "tested" => tree \in Good
    /\ m = "odoo18" /\ proc[m].pc = "tested" => manifest = None \/ manifest.wheels \in Good

\* What passed is good: the tree of offline, the wheels the manifest of odoo18 names.
Proven ==
  ~unseen =>
    /\ result["offline"].passed => result["offline"].source.tree \in Good
    /\ result["odoo18"].passed =>
         result["odoo18"].manifest # None /\ result["odoo18"].manifest.wheels \in Good

IInv == TypeOK /\ Shape /\ Tested /\ Proven
=============================================================================
