----------------------------- MODULE RefResolve -----------------------------
(***************************************************************************)
(* client.read(ref) and client.read([ref, ...]) (client.py): references to *)
(* records of several models are resolved with one read per model, one     *)
(* after the other, and put back in the order they were asked for.         *)
(* Records go away meanwhile, and a read may fail.                         *)
(***************************************************************************)
EXTENDS Naturals, Sequences, SequencesExt

CONSTANTS
  Classes,   \* typed models
  Ids,       \* record ids; those of different models are the same numbers
  Untyped,   \* a target that is no typed Odoo model (None, Ref[object])
  MaxRefs    \* bound on the references of a call

Records == Classes \X Ids
Refs    == (Classes \cup {Untyped}) \X Ids

VARIABLES
  existing,  \* the records in Odoo that the user may read
  refs,      \* the argument
  pc,
  reads,     \* the models still to be read
  fetched,   \* the records the reads answered
  asked,     \* the models read so far, one entry per RPC
  result

vars == <<existing, refs, pc, reads, fetched, asked, result>>

Init ==
  /\ existing = Records
  /\ refs \in BoundedSeq(Refs, MaxRefs)
  /\ pc = "called"
  /\ reads = {}
  /\ fetched = [k \in {} |-> Untyped]
  /\ asked = <<>>
  /\ result = <<>>

\* Mutant: records are told apart by their ids alone.
KeyById(r) == r[2]

\* The key of fetched.
Key(r) == r

\* The ids asked of a model.
IdsOf(c) == {refs[i][2] : i \in {j \in DOMAIN refs : refs[j][1] = c}}

\* The models referred to.
Targets == {refs[i][1] : i \in DOMAIN refs}

\* c has its first reference before the other models of the set.
IsFirst(c, cs) ==
  \E i \in DOMAIN refs : refs[i][1] = c /\ \A j \in 1..i : refs[j][1] \in cs => refs[j][1] = c

\* read() up to its first RPC: an untyped target is refused before any.
Group ==
  /\ pc = "called"
  /\ IF \E i \in DOMAIN refs : refs[i][1] = Untyped
     THEN pc' = "invalid" /\ UNCHANGED reads
     ELSE /\ pc' = "reading"
          /\ reads' = Targets
  /\ UNCHANGED <<existing, refs, fetched, asked, result>>

\* What Odoo answers for a model: it leaves out the ids it does not find.
Answer(c) == ({c} \X IdsOf(c)) \cap existing

\* One read per model, in the order of their first references.
ReadGroup ==
  /\ pc = "reading"
  /\ \E c \in reads :
       /\ IsFirst(c, reads)
       /\ reads' = reads \ {c}
       /\ asked' = Append(asked, c)
       /\ fetched' = [k \in DOMAIN fetched \cup {Key(r) : r \in Answer(c)} |->
            IF \E r \in Answer(c) : Key(r) = k
            THEN CHOOSE r \in Answer(c) : Key(r) = k
            ELSE fetched[k]]
  /\ UNCHANGED <<existing, refs, pc, result>>

ReadFails ==
  /\ pc = "reading"
  /\ reads # {}
  /\ pc' = "failed"
  /\ UNCHANGED <<existing, refs, reads, fetched, asked, result>>

\* Stitched in the order of the references; one without a record is an
\* OdooMissingError.
Stitch ==
  /\ pc = "reading"
  /\ reads = {}
  /\ IF \E i \in DOMAIN refs : Key(refs[i]) \notin DOMAIN fetched
     THEN pc' = "missing" /\ UNCHANGED result
     ELSE /\ pc' = "done"
          /\ result' = [i \in DOMAIN refs |-> fetched[Key(refs[i])]]
  /\ UNCHANGED <<existing, refs, reads, fetched, asked>>

Delete(r) ==
  /\ pc \in {"called", "reading"}
  /\ existing' = existing \ {r}
  /\ UNCHANGED <<refs, pc, reads, fetched, asked, result>>

Next == Group \/ ReadGroup \/ ReadFails \/ Stitch \/ \E r \in existing : Delete(r)

Spec == Init /\ [][Next]_vars

-----------------------------------------------------------------------------

TypeOK ==
  /\ existing \subseteq Records
  /\ pc \in {"called", "reading", "invalid", "failed", "missing", "done"}
  /\ asked \in Seq(Classes)

\* Whatever is deleted between the reads: a call that returns has, for every
\* reference in its place, the very record of that model and id; one that
\* reports a missing record is right; and no model is read twice
\* (client.py:295-322).
RefsResolved ==
  /\ pc = "done" => result = refs
  /\ pc = "missing" => \E i \in DOMAIN refs : refs[i] \notin existing
  /\ \A i, j \in DOMAIN asked : asked[i] = asked[j] => i = j

-----------------------------------------------------------------------------
(***************************************************************************)
(* The inductive invariant.                                                *)
(***************************************************************************)

RefConstants == Untyped \notin Classes /\ MaxRefs \in Nat

\* What has been fetched is under its own key; a record that still exists is among
\* it once its model has been read, and no model is read that has been.
Collected ==
  /\ refs \in Seq(Refs)
  /\ reads \subseteq Classes
  /\ pc # "called" => \A k \in DOMAIN fetched : fetched[k] = k
  /\ pc = "called" => DOMAIN fetched = {} /\ asked = <<>>
  /\ pc = "reading" => \A i \in DOMAIN refs :
       refs[i] \in existing => refs[i][1] \in reads \/ refs[i] \in DOMAIN fetched
  /\ \A c \in reads : \A i \in DOMAIN asked : asked[i] # c

IInv == TypeOK /\ Collected /\ RefsResolved
=============================================================================
