--------------------------- MODULE PropertyPatch ----------------------------
(***************************************************************************)
(* Read-merge-write of Odoo properties (services/properties/binding.py,    *)
(* functions.py, scope.py): a client operation reads the definitions and   *)
(* the rows, merges its sparse patch into each row's values, and writes    *)
(* the complete value sets back, while other users edit definitions and    *)
(* values, move and delete records, and the caller reuses its own mapping. *)
(*                                                                         *)
(* An operation has one of the styles of the API:                          *)
(*   "bound"     PropertyBinding.patch_each, which refreshes first         *)
(*   "retained"  the same with refresh=False                               *)
(*   "direct"    functions.patch, one record, definitions read after it    *)
(*   "single"    functions.update_safely, which copies its mapping late    *)
(*   "batch"     functions.update_safely_batch                             *)
(* The styles "bound" and "retained" share one binding.  The writes are    *)
(* those of dispatch(), taken here at its contract, PropertyBatch: each    *)
(* payload is sent at most once, in any order, and applied or rejected.    *)
(***************************************************************************)
EXTENDS Naturals

CONSTANTS
  Ops, Records, Props, Parents, Values,
  Kinds,            \* what a definition may say of a property
  TypeOf(_),        \* the type (and comodel) of a kind
  Accepts(_),       \* the values the codec accepts for a kind
  Unset,            \* the value of a cleared property
  Absent,           \* the definition of a property that is not defined
  None,             \* no parent, no reply, no snapshot yet
  Gone,             \* the parent field of a record that cannot be read
  Home,             \* the parent the binding was discovered under
  Bound,            \* the kind each aliased property had when it was bound
  MappedOptions,    \* the option values each alias maps
  Programs,         \* what the callers do: a style for each operation, and the
                    \* patches it may be passed, by record; with a bound
                    \* on the edits of other users meanwhile
  InitialServers    \* the server's contents to start from

Styles      == {"bound", "retained", "direct", "single", "batch"}
Legacy      == {"single", "batch"}
Definitions == [Props -> Kinds \cup {Absent}]
Undefined   == [p \in Props |-> Absent]

\* A mapping from records to sparse values.
IsInput(i) ==
  /\ DOMAIN i \subseteq Records
  /\ \A r \in DOMAIN i : /\ DOMAIN i[r] \subseteq Props
                         /\ \A p \in DOMAIN i[r] : i[r][p] \in Values

\* Two of the functions take one record, the legacy batch one patch for all.
Takes(s, i) ==
  /\ s \in {"direct", "single"} => \E r \in Records : DOMAIN i = {r}
  /\ s = "batch" => \A q, r \in DOMAIN i : i[q] = i[r]

ASSUME PatchAssumption ==
  /\ \A c \in Programs : /\ c.style \in [Ops -> Styles]
                         /\ \A o \in Ops : \A i \in c.inputs[o] : IsInput(i) /\ Takes(c.style[o], i)
                         /\ c.maxEdits \in Nat
  /\ Home \in Parents /\ None \notin Parents /\ Gone \notin Parents \cup {None}
  /\ Absent \notin Kinds
  /\ Unset \in Values
  /\ \A k \in Kinds : Accepts(k) \subseteq Values /\ Unset \in Accepts(k)
  /\ DOMAIN Bound \subseteq Props

VARIABLES
  program,   \* which of the programs runs
  defs,      \* server: the definitions each parent record holds
  parent,    \* server: the parent of each record
  stored,    \* server: the stored values of each record
  version,   \* server: how often each record's values were written
  edits,     \* how many edits other users have made
  input,     \* the mapping the caller passed, which it may still change
  pc,        \* where each operation is
  asked,     \* the mapping as it was when the operation was called
  patches,   \* the operation's own copy of its input
  binding,   \* PropertyBinding._definitions
  snapshot,  \* the definitions each operation works with
  reply,     \* the read response on its way to each operation
  rows,      \* the rows each operation has read
  payloads,  \* what each operation will write
  fate       \* what became of each write: unsent, open, applied, rejected

server == <<defs, parent, stored, version>>
client == <<pc, asked, patches, binding, snapshot, reply, rows, payloads>>
vars   == <<program, server, edits, input, client, fate>>

Style    == program.style
Inputs   == program.inputs
MaxEdits == program.maxEdits

NoRows == [r \in {} |-> None]

Init ==
  /\ program \in Programs
  /\ \E s \in InitialServers :
       defs = s.defs /\ parent = s.parent /\ stored = s.stored /\ binding = s.defs[Home]
  /\ version = [r \in Records |-> 0]
  /\ edits = 0
  /\ \E i \in [Ops -> UNION {Inputs[o] : o \in Ops}] :
       input = i /\ \A o \in Ops : i[o] \in Inputs[o]
  /\ pc = [o \in Ops |-> "idle"]
  /\ asked = [o \in Ops |-> NoRows]
  /\ patches = [o \in Ops |-> NoRows]
  /\ snapshot = [o \in Ops |-> None]
  /\ reply = [o \in Ops |-> None]
  /\ rows = [o \in Ops |-> NoRows]
  /\ payloads = [o \in Ops |-> NoRows]
  /\ fate = [o \in Ops |-> [r \in Records |-> "unsent"]]

-----------------------------------------------------------------------------
(***************************************************************************)
(* The codec.                                                              *)
(***************************************************************************)

Defined(d) == {p \in Props : d[p] # Absent}

\* decode_values: the row lists exactly the properties of the snapshot, with
\* the same types, and every value is one the definition accepts.
Decodable(row, d) ==
  /\ Defined(row.meta) = Defined(d)
  /\ \A p \in Defined(d) :
       /\ TypeOf(row.meta[p]) = TypeOf(d[p])
       /\ row.values[p] \in Accepts(d[p])

\* patch_values: only known properties, only values they accept.
Acceptable(patch, d) ==
  \A p \in DOMAIN patch : p \in Defined(d) /\ patch[p] \in Accepts(d[p])

\* Mutant: only the patch is sent, as for an ordinary field.
MergeSparse(row, patch, d) == patch

\* decode_values, then update(), then encode_values.
Merge(row, patch, d) ==
  [p \in Defined(d) |-> IF p \in DOMAIN patch THEN patch[p] ELSE row.values[p]]

\* _legacy_merge validates against the metadata of the row itself; a name the
\* row does not have is an untyped scalar and passes.
LegacyMergeable(row, patch) ==
  \A p \in Defined(row.meta) :
    /\ row.values[p] \in Accepts(row.meta[p])
    /\ p \in DOMAIN patch => patch[p] \in Accepts(row.meta[p])

\* decode_values is skipped: what the row listed, with the patch over it.
LegacyMerge(row, patch) ==
  [p \in Defined(row.meta) \cup DOMAIN patch |->
     IF p \in DOMAIN patch THEN patch[p] ELSE row.values[p]]

-----------------------------------------------------------------------------
(***************************************************************************)
(* The operations.                                                         *)
(***************************************************************************)

\* An exception leaves the operation, and its local variables end with it.
\* Nothing was written: no payload existed yet.
Leave(o) ==
  /\ pc' = [pc EXCEPT ![o] = "failed"]
  /\ asked' = [asked EXCEPT ![o] = NoRows]
  /\ patches' = [patches EXCEPT ![o] = NoRows]
  /\ snapshot' = [snapshot EXCEPT ![o] = None]
  /\ reply' = [reply EXCEPT ![o] = None]
  /\ rows' = [rows EXCEPT ![o] = NoRows]
  /\ UNCHANGED payloads

\* Mutant: a failed operation drops the definitions of the binding.
FailForgetting(o) == Leave(o) /\ binding' = None

\* What the binding knows survives a failed operation.
Fail(o) == Leave(o) /\ UNCHANGED binding

\* Every patch is empty, and the dynamic API returns at once.
NothingToDo(o) == Style[o] \notin Legacy /\ \A r \in DOMAIN input[o] : DOMAIN input[o][r] = {}

\* The call, up to its first await.  The input is copied before anything can
\* suspend, except by update_safely, which knows only the record by now; a call
\* without any change to make returns at once, except that a legacy one rewrites
\* its records; with refresh=False the patches are validated against the
\* retained snapshot.
Call(o) ==
  /\ pc[o] = "idle"
  /\ \/ /\ NothingToDo(o)
        /\ pc' = [pc EXCEPT ![o] = "done"]
        /\ UNCHANGED <<asked, patches, snapshot, binding>>
     \/ /\ ~NothingToDo(o)
        /\ Style[o] = "retained" =>
             \A r \in DOMAIN input[o] : Acceptable(input[o][r], binding)
        /\ pc' = [pc EXCEPT ![o] = IF Style[o] = "bound" THEN "refreshing" ELSE "reading"]
        /\ asked' = [asked EXCEPT ![o] = input[o]]
        /\ patches' = [patches EXCEPT ![o] = input[o]]
        /\ snapshot' = [snapshot EXCEPT ![o] = IF Style[o] = "retained" THEN binding ELSE None]
        /\ UNCHANGED binding
     \/ /\ ~NothingToDo(o)
        /\ Style[o] = "retained"
        /\ \E r \in DOMAIN input[o] : ~Acceptable(input[o][r], binding)
        /\ Fail(o)
  /\ UNCHANGED <<reply, rows, payloads>>
  /\ UNCHANGED <<server, edits, input, fate>>

\* What a read returns of a record; `version` is not part of the answer, it
\* dates it for the properties.
RowOf(r) ==
  [parent  |-> parent[r],
   meta    |-> IF parent[r] \in Parents THEN defs[parent[r]] ELSE Undefined,
   values  |-> stored[r],
   version |-> version[r]]

\* The server answers the read the operation waits for; the answer is on its
\* way while other users and operations go on.
Serve(o) ==
  /\ reply[o] = None
  /\ \/ /\ pc[o] = "refreshing"
        /\ reply' = [reply EXCEPT ![o] = defs[Home]]
     \/ /\ pc[o] = "loading"
        /\ \E r \in DOMAIN rows[o] :
             reply' = [reply EXCEPT ![o] = defs[rows[o][r].parent]]
     \/ /\ pc[o] = "reading"
        /\ reply' = [reply EXCEPT ![o] =
                       [r \in {q \in DOMAIN patches[o] : parent[q] # Gone} |-> RowOf(r)]]
  /\ UNCHANGED <<server, edits, input, pc, asked, patches, binding, snapshot,
                 rows, payloads, fate>>

Waiting == {"refreshing", "reading", "loading"}

\* The read fails: a network error, a server error, a changed session.
ReadFails(o) ==
  /\ pc[o] \in Waiting
  /\ Fail(o)
  /\ UNCHANGED <<server, edits, input, fate>>

\* An aliased property was removed, changed its type or lost a mapped option.
Drifted(candidate) ==
  \E p \in DOMAIN Bound :
    \/ candidate[p] = Absent
    \/ TypeOf(candidate[p]) # TypeOf(Bound[p])
    \/ ~(MappedOptions[p] \subseteq Accepts(candidate[p]))

\* The snapshot is good, and so is every patch against it: on to the rows.
ReadNext(o) ==
  /\ pc' = [pc EXCEPT ![o] = "reading"]
  /\ snapshot' = [snapshot EXCEPT ![o] = reply[o]]
  /\ reply' = [reply EXCEPT ![o] = None]
  /\ UNCHANGED <<asked, patches, rows, payloads>>

\* Mutant: the binding takes the new definitions before it inspects them.
RefreshedEagerly(o) ==
  /\ pc[o] = "refreshing"
  /\ reply[o] # None
  /\ binding' = reply[o]
  /\ IF ~Drifted(reply[o]) /\ \A r \in DOMAIN patches[o] : Acceptable(patches[o][r], reply[o])
     THEN ReadNext(o) ELSE Leave(o)
  /\ UNCHANGED <<server, edits, input, fate>>

\* refresh() and what follows it: the candidate replaces the snapshot of the
\* binding only when no alias drifted; then the patches are validated.
Refreshed(o) ==
  /\ pc[o] = "refreshing"
  /\ reply[o] # None
  /\ binding' = IF Drifted(reply[o]) THEN binding ELSE reply[o]
  /\ IF ~Drifted(reply[o]) /\ \A r \in DOMAIN patches[o] : Acceptable(patches[o][r], reply[o])
     THEN ReadNext(o) ELSE Leave(o)
  /\ UNCHANGED <<server, edits, input, fate>>

\* All payloads are computed before the first write.
StartWrites(o, new) ==
  /\ pc' = [pc EXCEPT ![o] = "writing"]
  /\ payloads' = [payloads EXCEPT ![o] = new]
  /\ reply' = [reply EXCEPT ![o] = None]
  /\ UNCHANGED asked

\* Mutant: patch_each minds a missing record only if it would be written.
MissingWritten(o, got) ==
  {r \in DOMAIN patches[o] \ DOMAIN got : Style[o] \in Legacy \/ DOMAIN patches[o][r] # {}}

\* read_rows: the records of the call that the answer lacks.
Missing(o, got) == DOMAIN patches[o] \ DOMAIN got

\* patch_each writes only the records whose patch says something.
Changed(o) == {r \in DOMAIN patches[o] : DOMAIN patches[o][r] # {}}

\* Mutant: the copy is made late in every style.
TakenLate(o) == [r \in DOMAIN patches[o] |-> IF r \in DOMAIN input[o] THEN input[o][r]
                                                                    ELSE patches[o][r]]

\* The patches to merge: update_safely copies its mapping only now, as the caller
\* has left it, and the others did before they first suspended.
Taken(o) == IF Style[o] = "single" THEN input[o] ELSE patches[o]

\* read_rows raises for a missing record, parent_id_for for a moved one.
RowsRead(o) ==
  /\ pc[o] = "reading"
  /\ reply[o] # None
  /\ LET got     == reply[o]
         ids     == DOMAIN patches[o]
         missing == Missing(o, got)
     IN
     \/ /\ Style[o] \in {"bound", "retained"}
        /\ IF /\ missing = {}
              /\ \A r \in ids \cap DOMAIN got :
                   got[r].parent = Home /\ Decodable(got[r], snapshot[o])
           THEN /\ StartWrites(o, [r \in Changed(o) |->
                                     Merge(got[r], Taken(o)[r], snapshot[o])])
                /\ rows' = [rows EXCEPT ![o] = got]
                /\ UNCHANGED <<patches, binding, snapshot>>
           ELSE Fail(o)
     \/ /\ Style[o] = "direct"
        /\ IF missing = {} /\ \A r \in ids : got[r].parent \in Parents
           THEN /\ pc' = [pc EXCEPT ![o] = "loading"]
                /\ rows' = [rows EXCEPT ![o] = got]
                /\ reply' = [reply EXCEPT ![o] = None]
                /\ UNCHANGED <<asked, patches, binding, snapshot, payloads>>
           ELSE Fail(o)
     \/ /\ Style[o] \in Legacy
        /\ IF missing = {} /\ \A r \in ids : LegacyMergeable(got[r], Taken(o)[r])
           THEN /\ StartWrites(o, [r \in ids |-> LegacyMerge(got[r], Taken(o)[r])])
                /\ patches' = [patches EXCEPT ![o] = Taken(o)]
                /\ rows' = [rows EXCEPT ![o] = got]
                /\ UNCHANGED <<binding, snapshot>>
           ELSE Fail(o)
  /\ UNCHANGED <<server, edits, input, fate>>

\* functions.patch: the definitions of the parent the row named.
Loaded(o) ==
  /\ pc[o] = "loading"
  /\ reply[o] # None
  /\ LET ids == DOMAIN patches[o]
     IN IF \A r \in ids : /\ Decodable(rows[o][r], reply[o])
                          /\ Acceptable(patches[o][r], reply[o])
        THEN /\ StartWrites(o, [r \in ids |-> Merge(rows[o][r], patches[o][r], reply[o])])
             /\ snapshot' = [snapshot EXCEPT ![o] = reply[o]]
             /\ UNCHANGED <<patches, binding, rows>>
        ELSE Fail(o)
  /\ UNCHANGED <<server, edits, input, fate>>

\* The writes, at dispatch()'s contract.
Send(o, r) ==
  /\ pc[o] = "writing"
  /\ r \in DOMAIN payloads[o]
  /\ fate[o][r] = "unsent"
  /\ fate' = [fate EXCEPT ![o][r] = "open"]
  /\ UNCHANGED <<server, edits, input, client>>

\* Odoo replaces the whole set of property values of the record.
Apply(o, r) ==
  /\ fate[o][r] = "open"
  /\ parent[r] # Gone
  /\ fate' = [fate EXCEPT ![o][r] = "applied"]
  /\ stored' = [stored EXCEPT ![r] =
       [p \in Props |-> IF p \in DOMAIN payloads[o][r] THEN payloads[o][r][p] ELSE Unset]]
  /\ version' = [version EXCEPT ![r] = @ + 1]
  /\ UNCHANGED <<defs, parent, edits, input, client>>

Reject(o, r) ==
  /\ fate[o][r] = "open"
  /\ fate' = [fate EXCEPT ![o][r] = "rejected"]
  /\ UNCHANGED <<server, edits, input, client>>

\* dispatch() returns its receipts; a write may still be on its way then,
\* when its receipt is "unknown".  Records never sent end the operation too:
\* their receipt is "failed", or the batch was cancelled.
Finish(o) ==
  /\ pc[o] = "writing"
  /\ pc' = [pc EXCEPT ![o] = "done"]
  /\ UNCHANGED <<server, edits, input, asked, patches, binding, snapshot, reply,
                 rows, payloads, fate>>

-----------------------------------------------------------------------------
(***************************************************************************)
(* Everybody else.                                                         *)
(***************************************************************************)

\* The caller goes on using the mapping it passed; one change says it all, and
\* nothing is computed from a mapping any more once the writes go out.  The
\* record of update_safely is a number, which the caller cannot change.
CallerMutates(o, i) ==
  /\ pc[o] \in Waiting
  /\ input[o] = asked[o]
  /\ Style[o] = "single" => DOMAIN i = DOMAIN input[o]
  /\ i \in Inputs[o] \ {input[o]}
  /\ input' = [input EXCEPT ![o] = i]
  /\ UNCHANGED <<server, edits, client, fate>>

Edit ==
  /\ edits < MaxEdits
  /\ edits' = edits + 1
  /\ UNCHANGED <<input, client, fate>>

Redefine(h, p, k) ==
  /\ Edit
  /\ k # defs[h][p]
  /\ defs' = [defs EXCEPT ![h][p] = k]
  /\ UNCHANGED <<parent, stored, version>>

WriteElsewhere(r, p, v) ==
  /\ Edit
  /\ parent[r] # Gone
  /\ v # stored[r][p]
  /\ stored' = [stored EXCEPT ![r][p] = v]
  /\ version' = [version EXCEPT ![r] = @ + 1]
  /\ UNCHANGED <<defs, parent>>

\* Moved under another parent, taken out of any, or deleted.
Move(r, h) ==
  /\ Edit
  /\ parent[r] \notin {Gone, h}
  /\ parent' = [parent EXCEPT ![r] = h]
  /\ UNCHANGED <<defs, stored, version>>

-----------------------------------------------------------------------------

OpStep(o) ==
  \/ Call(o) \/ Serve(o) \/ ReadFails(o) \/ Refreshed(o) \/ RowsRead(o) \/ Loaded(o)
  \/ \E r \in Records : Send(o, r) \/ Apply(o, r) \/ Reject(o, r)
  \/ Finish(o)

Elsewhere ==
  \/ \E o \in Ops : \E i \in Inputs[o] : CallerMutates(o, i)
  \/ \E h \in Parents, p \in Props, k \in Kinds \cup {Absent} : Redefine(h, p, k)
  \/ \E r \in Records, p \in Props, v \in Values : WriteElsewhere(r, p, v)
  \/ \E r \in Records, h \in Parents \cup {None, Gone} : Move(r, h)

Next == ((\E o \in Ops : OpStep(o)) \/ Elsewhere) /\ UNCHANGED program

Spec == Init /\ [][Next]_vars

-----------------------------------------------------------------------------
(***************************************************************************)
(* Properties.                                                             *)
(***************************************************************************)

TypeOK ==
  /\ program \in Programs
  /\ defs \in [Parents -> Definitions]
  /\ parent \in [Records -> Parents \cup {None, Gone}]
  /\ stored \in [Records -> [Props -> Values]]
  /\ version \in [Records -> Nat]
  /\ edits \in 0..MaxEdits
  /\ DOMAIN input = Ops /\ \A o \in Ops : input[o] \in Inputs[o]
  /\ pc \in [Ops -> Waiting \cup {"idle", "writing", "done", "failed"}]
  /\ DOMAIN asked = Ops /\ \A o \in Ops : asked[o] \in Inputs[o] \cup {NoRows}
  /\ DOMAIN patches = Ops /\ \A o \in Ops : patches[o] \in Inputs[o] \cup {NoRows}
  /\ binding \in Definitions
  /\ snapshot \in [Ops -> Definitions \cup {None}]
  /\ fate \in [Ops -> [Records -> {"unsent", "open", "applied", "rejected"}]]
  /\ DOMAIN reply = Ops /\ DOMAIN rows = Ops /\ DOMAIN payloads = Ops
  /\ \A o \in Ops : DOMAIN rows[o] \subseteq Records /\ DOMAIN payloads[o] \subseteq Records

Wrote(o) == \E r \in Records : fate[o][r] # "unsent"

\* A batch is validated as a whole before any of it is written: once one write
\* has left, every record named in the call, also those whose patch is empty,
\* had been read in one answer, and for a binding each was under the bound
\* parent and listed exactly the properties of the snapshot, with their types
\* (properties.md, "Batches and outcomes").
PreflightComplete ==
  \A o \in Ops : Wrote(o) =>
    /\ DOMAIN rows[o] = DOMAIN patches[o]
    /\ Style[o] \in {"bound", "retained"} =>
         \A r \in DOMAIN patches[o] :
           rows[o][r].parent = Home /\ Decodable(rows[o][r], snapshot[o])
    /\ Style[o] = "direct" =>
         \A r \in DOMAIN patches[o] : Decodable(rows[o][r], snapshot[o])

\* The read-merge-write is right up to concurrent writers: when a write lands
\* on a record nobody else has written since the row was read, each property
\* the row listed has its patched value if the call named it, and is untouched
\* otherwise.  A write that does meet a concurrent one undoes it: the operation
\* is documented as non-atomic (functions.py:163, properties.md:202-204).
MergedAsRead ==
  [][\A o \in Ops : \A r \in Records :
       (fate[o][r] = "open" /\ fate'[o][r] = "applied"
          /\ version[r] = rows[o][r].version) =>
         \A p \in Defined(rows[o][r].meta) :
           stored'[r][p] = IF p \in DOMAIN patches[o][r]
                           THEN patches[o][r][p] ELSE stored[r][p]]_vars

\* The mappings a write of operation o may come from: the one it was called with
\* (binding.py:238), for update_safely also that mapping as the caller changed
\* it before the answer to the read was there (functions.py:165-166).
Sources(o) == {asked[o]} \cup (IF Style[o] = "single" THEN {input[o]} ELSE {})

\* What the caller does with its mapping after the call changes neither what
\* is written nor where, except that update_safely writes the mapping as it is
\* when the read returns: no write goes to a record outside the call, none, in
\* the dynamic API, to a record with an empty patch, and what is written is of
\* one mapping as a whole, also when the caller changed it meanwhile.
OnlyAsked ==
  \A o \in Ops : \A r \in Records : fate[o][r] # "unsent" =>
    /\ r \in DOMAIN asked[o]
    /\ Style[o] \notin Legacy => DOMAIN asked[o][r] # {}
    /\ \E i \in Sources(o) : \A p \in DOMAIN payloads[o][r] :
         payloads[o][r][p] = IF p \in DOMAIN i[r] THEN i[r][p] ELSE rows[o][r].values[p]

\* Whatever administrators do to the definitions, and however concurrent
\* refreshes overtake one another, the binding never holds a snapshot in which
\* an alias is gone, has another type or lacks a mapped option, and no write
\* is made under one (binding.py:106-118).
BindingSound ==
  /\ ~Drifted(binding)
  /\ \A o \in Ops : Style[o] \in {"bound", "retained"} /\ Wrote(o) => ~Drifted(snapshot[o])

-----------------------------------------------------------------------------
(***************************************************************************)
(* The inductive invariant.                                                *)
(***************************************************************************)

\* Under the definitions of its parent no alias of the binding is drifted when
\* it is made.
ASSUME ServersAssumption ==
  \A s \in InitialServers :
    /\ s.defs \in [Parents -> Definitions]
    /\ s.parent \in [Records -> Parents \cup {None, Gone}]
    /\ s.stored \in [Records -> [Props -> Values]]
    /\ ~Drifted(s.defs[Home])

\* A row as the server had it at a version of the record.
RowOnce(row, r) ==
  /\ row.meta \in Definitions /\ row.values \in [Props -> Values]
  /\ row.version \in Nat /\ row.version <= version[r]
  /\ row.version = version[r] => row.values = stored[r]

\* The answer on its way is one to what the operation waits for.
Answered(o) ==
  /\ pc[o] \notin Waiting => reply[o] = None
  /\ pc[o] \in {"refreshing", "loading"} => reply[o] \in Definitions \cup {None}
  /\ pc[o] = "reading" /\ reply[o] # None =>
       /\ DOMAIN reply[o] \subseteq DOMAIN patches[o]
       /\ \A r \in DOMAIN reply[o] : RowOnce(reply[o][r], r)

\* What an operation has established by the time it waits for a read.
Vetted(o) ==
  /\ pc[o] = "refreshing" => Style[o] = "bound"
  /\ pc[o] \in Waiting =>
       /\ patches[o] \in Inputs[o] /\ asked[o] = patches[o]
       /\ Style[o] = "single" => DOMAIN input[o] = DOMAIN patches[o]
       /\ Style[o] = "direct" => \A r \in DOMAIN patches[o] : DOMAIN patches[o][r] # {}
  /\ pc[o] = "reading" /\ Style[o] \in {"bound", "retained"} =>
       /\ snapshot[o] \in Definitions /\ ~Drifted(snapshot[o])
       /\ \A r \in DOMAIN patches[o] : Acceptable(patches[o][r], snapshot[o])
  /\ pc[o] = "loading" =>
       /\ Style[o] = "direct"
       /\ DOMAIN rows[o] = DOMAIN patches[o]
       /\ \A r \in DOMAIN rows[o] : RowOnce(rows[o][r], r) /\ rows[o][r].parent \in Parents

\* Each payload has the patched value of a property if there is one, and else the
\* value that was read.
Payload(o, r) ==
  /\ r \in DOMAIN patches[o]
  /\ Style[o] \notin Legacy => DOMAIN patches[o][r] # {}
  /\ DOMAIN payloads[o][r] = Defined(rows[o][r].meta) \cup DOMAIN patches[o][r]
  /\ \A p \in DOMAIN payloads[o][r] :
       payloads[o][r][p] = IF p \in DOMAIN patches[o][r] THEN patches[o][r][p]
                                                         ELSE rows[o][r].values[p]

\* Everything was read and vetted before the first write, and only payloads are
\* written.
Prepared(o) ==
  /\ patches[o] \in Inputs[o]
  /\ patches[o] \in Sources(o) /\ DOMAIN asked[o] = DOMAIN patches[o]
  /\ DOMAIN rows[o] = DOMAIN patches[o]
  /\ \A r \in DOMAIN rows[o] : RowOnce(rows[o][r], r)
  /\ Style[o] \notin Legacy =>
       \A r \in DOMAIN patches[o] : Decodable(rows[o][r], snapshot[o])
  /\ Style[o] \in {"bound", "retained"} =>
       /\ ~Drifted(snapshot[o])
       /\ \A r \in DOMAIN patches[o] : rows[o][r].parent = Home
  /\ \A r \in DOMAIN payloads[o] : Payload(o, r)

WritesPrepared(o) ==
  /\ pc[o] = "writing" \/ Wrote(o) => Prepared(o)
  /\ Wrote(o) => pc[o] \in {"writing", "done"}
  /\ \A r \in Records : fate[o][r] # "unsent" => r \in DOMAIN payloads[o]

OpInv(o) == Answered(o) /\ Vetted(o) /\ WritesPrepared(o)

IInv == TypeOK /\ ~Drifted(binding) /\ \A o \in Ops : OpInv(o)
=============================================================================
