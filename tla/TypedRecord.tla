---------------------------- MODULE TypedRecord ----------------------------
(***************************************************************************)
(* Typed records (client.py, _pydantic_transform.py): objects read from    *)
(* Odoo, whole or with fields=[...], or built by the caller, assigned to,  *)
(* copied, and written back.  A record object keeps the fields that are    *)
(* set and, in a set of its own, those the user set; both decide what a    *)
(* write sends.  Programs hold several objects of one record, and other    *)
(* users change it too.                                                    *)
(***************************************************************************)
EXTENDS Naturals, Functions

CONSTANTS
  Objs,         \* the Python objects
  Kind,         \* field -> "text", "datetime", "readonly" or "x2many", from its
                \* annotation and its json_schema_extra
  WireValues,   \* field -> the values Odoo may answer, False among the scalars'
  Projections,  \* the fields=[...] of projected reads
  Unset         \* Odoo's False

Fields == DOMAIN Kind

VARIABLES
  stored,    \* the record in Odoo
  obj,       \* each object: whether it has an id, the fields its class declares without
             \* json_schema_extra, the fields set with their values, its user set
  userSet,   \* _user_set_fields: the sets, named after the object they were made for
  given,     \* what the caller gave or assigned to each object
  readAs,    \* what Odoo answered when it was read
  copied,    \* objects that are copies or have been copied
  wire       \* the last write of each object

vars == <<stored, obj, userSet, given, readAs, copied, wire>>

Nothing == [f \in {} |-> Unset]
Absent  == [id |-> FALSE, plain |-> {}, data |-> Nothing, set |-> Unset]
Idle    == [state |-> "idle", payload |-> Nothing]

\* _odoo_wire_transforms: False is [] for a list, None for what is not a bool; a
\* text that is a date and time becomes a datetime, whether a blank or a "T" is
\* between them.  A many2one pair becomes a Ref, which stands for its id.
FromWire(f, v) ==
  CASE v = Unset /\ Kind[f] = "x2many"                 -> "[]"
    [] v = Unset /\ Kind[f] # "x2many"                 -> "None"
    [] v \in {"d t", "dTt"} /\ Kind[f] = "datetime"     -> "datetime"
    [] OTHER                                            -> v

\* What a caller may give for a field.
Given(f) == {FromWire(f, v) : v \in WireValues[f]}

\* Ref to id, None to False, isoformat() of a datetime.
ToWire(v) == CASE v = "None" -> Unset [] v = "datetime" -> "dTt" [] OTHER -> v

Init ==
  /\ stored \in {s \in [Fields -> UNION {WireValues[f] : f \in Fields}] :
                   \A f \in Fields : s[f] \in WireValues[f]}
  /\ obj = [o \in Objs |-> Absent]
  /\ userSet = [o \in Objs |-> {}]
  /\ given = [o \in Objs |-> Nothing]
  /\ readAs = [o \in Objs |-> Nothing]
  /\ copied = {}
  /\ wire = [o \in Objs |-> Idle]

-----------------------------------------------------------------------------

\* Model(...): model_post_init seeds the user set from the fields given.
Build(o, f, v, hasId) ==
  /\ obj[o] = Absent
  /\ obj' = [obj EXCEPT ![o] =
       [id |-> hasId, plain |-> {}, data |-> [g \in {f} |-> v], set |-> o]]
  /\ userSet' = [userSet EXCEPT ![o] = {f}]
  /\ given' = [given EXCEPT ![o] = [g \in {f} |-> v]]
  /\ UNCHANGED <<stored, readAs, copied, wire>>

\* Mutant: what was read counts as set by the user, as pydantic itself has it.
SeededAll(fields) == fields

\* model_post_init of a record that was read.
Seeded(fields) == {}

\* read and search_read of a typed model, with _validate_typed.  With fields the
\* object is of a derived class (derive_partial_model), which declares them anew,
\* without json_schema_extra; the id comes with either.
ReadTyped(o, fields, plain) ==
  /\ obj[o] = Absent
  /\ obj' = [obj EXCEPT ![o] =
       [id |-> TRUE, plain |-> plain,
        data |-> [f \in fields |-> FromWire(f, stored[f])], set |-> o]]
  /\ userSet' = [userSet EXCEPT ![o] = Seeded(fields)]
  /\ readAs' = [readAs EXCEPT ![o] = Restrict(stored, fields)]
  /\ UNCHANGED <<stored, given, copied, wire>>

SetField(data, f, v) == [g \in DOMAIN data \cup {f} |-> IF g = f THEN v ELSE data[g]]

\* __setattr__
Noted(s, f) == s \cup {f}

Assign(o, f, v) ==
  /\ obj[o] # Absent
  /\ obj' = [obj EXCEPT ![o].data = SetField(@, f, v)]
  /\ userSet' = [userSet EXCEPT ![obj[o].set] = Noted(@, f)]
  /\ given' = [given EXCEPT ![o] = SetField(@, f, v)]
  /\ UNCHANGED <<stored, readAs, copied, wire>>

\* model_copy(): the copy shares the user set, which lives in __dict__.
Copy(o, p) ==
  /\ obj[o] # Absent /\ obj[p] = Absent
  /\ obj' = [obj EXCEPT ![p] = obj[o]]
  /\ given' = [given EXCEPT ![p] = given[o]]
  /\ readAs' = [readAs EXCEPT ![p] = readAs[o]]
  /\ copied' = copied \cup {o, p}
  /\ UNCHANGED <<stored, userSet, wire>>

\* The json_schema_extra of a field of an object.
KindIn(o, f) == IF f \in obj[o].plain THEN "text" ELSE Kind[f]

Scalars(o) == {f \in DOMAIN obj[o].data : KindIn(o, f) \in {"text", "datetime"}}

\* An x2many field the user set makes _serialize_for_write raise.
UserX2many(o) ==
  {f \in DOMAIN obj[o].data : KindIn(o, f) = "x2many" /\ f \in userSet[obj[o].set]}

\* client.write (which needs an id) and client.create: the payload is taken
\* before the call suspends.
Write(o, method) ==
  /\ obj[o] # Absent
  /\ wire[o] = Idle
  /\ method = "write" => obj[o].id
  /\ wire' = [wire EXCEPT ![o] =
       IF UserX2many(o) # {}
       THEN [state |-> "refused", payload |-> Nothing]
       ELSE [state |-> method, payload |-> [f \in Scalars(o) |-> ToWire(obj[o].data[f])]]]
  /\ UNCHANGED <<stored, obj, userSet, given, readAs, copied>>

\* How Odoo stores a value it accepts; a list that is no list of commands changes
\* nothing.
Stored(f, v) ==
  CASE Kind[f] = "x2many"                -> stored[f]
    [] Kind[f] # "x2many" /\ v = "dTt"   -> "d t"
    [] OTHER                              -> v

\* The write ends: refused, lost, or applied; a create makes another record.
Ended(o) ==
  /\ wire[o] # Idle
  /\ wire' = [wire EXCEPT ![o] = Idle]
  /\ \/ UNCHANGED stored
     \/ /\ wire[o].state = "write"
        /\ stored' = [f \in Fields |->
             IF f \in DOMAIN wire[o].payload THEN Stored(f, wire[o].payload[f]) ELSE stored[f]]
  /\ UNCHANGED <<obj, userSet, given, readAs, copied>>

WriteElsewhere(f, v) ==
  /\ stored' = [stored EXCEPT ![f] = v]
  /\ UNCHANGED <<obj, userSet, given, readAs, copied, wire>>

Next ==
  \/ \E o \in Objs :
       \/ \E f \in Fields : \E v \in Given(f) :
            Assign(o, f, v) \/ \E hasId \in BOOLEAN : Build(o, f, v, hasId)
       \/ ReadTyped(o, Fields, {})
       \/ \E fields \in Projections : ReadTyped(o, fields, fields)
       \/ \E p \in Objs : Copy(o, p)
       \/ Write(o, "write") \/ Write(o, "create")
       \/ Ended(o)
  \/ \E f \in Fields : \E v \in WireValues[f] : WriteElsewhere(f, v)

Spec == Init /\ [][Next]_vars

-----------------------------------------------------------------------------
(***************************************************************************)
(* Properties.                                                             *)
(***************************************************************************)

TypeOK ==
  /\ \A f \in Fields : stored[f] \in WireValues[f]
  /\ \A o \in Objs : obj[o] # Absent =>
       /\ obj[o].set \in Objs
       /\ \A f \in DOMAIN obj[o].data : obj[o].data[f] \in Given(f)
  /\ userSet \in [Objs -> SUBSET Fields]
  /\ copied \in SUBSET Objs

\* A write that begins, of a whole record object, is refused exactly if the
\* caller gave an x2many; else it sends every value the caller gave last, and
\* beyond them only what Odoo answered when the object was read, as a value that
\* reads back as the same.
AsMeant(o) ==
  wire[o] = Idle /\ wire'[o] # Idle /\ obj[o].plain = {} =>
    /\ (wire'[o].state = "refused") <=> \E f \in DOMAIN given[o] : Kind[f] = "x2many"
    /\ wire'[o].state # "refused" =>
         LET payload == wire'[o].payload
         IN /\ \A f \in DOMAIN given[o] : Kind[f] \in {"text", "datetime"} =>
                 f \in DOMAIN payload /\ FromWire(f, payload[f]) = given[o][f]
            /\ \A f \in DOMAIN payload \ DOMAIN given[o] :
                 f \in DOMAIN readAs[o] /\ FromWire(f, payload[f]) = FromWire(f, readAs[o][f])

AllAsMeant == \A o \in Objs \ copied : AsMeant(o)

\* "x2many fields that the user wrote raise ... never a silent drop" and the
\* "canonical read, modify, write roundtrip" (_pydantic_transform.py:330-349),
\* for objects that are not copies, over any sequence of reads, assignments and
\* writes.
WritesAsMeant == [][AllAsMeant]_vars

\* "skip readonly/computed fields unconditionally" (_pydantic_transform.py:366):
\* no write sends a field Odoo computes.  Violated by records read with fields.
ReadonlyExcluded ==
  \A o \in Objs : \A f \in DOMAIN wire[o].payload : Kind[f] # "readonly"

-----------------------------------------------------------------------------
(***************************************************************************)
(* The inductive invariant.                                                *)
(***************************************************************************)

\* Odoo answers no name of a Python object, and dates with a blank.
TypedConstants ==
  /\ Kind \in [Fields -> {"text", "datetime", "readonly", "x2many"}]
  /\ DOMAIN WireValues = Fields
  /\ \A f \in Fields : WireValues[f] \cap {"None", "datetime", "dTt", "[]"} = {}
  /\ Projections \subseteq SUBSET Fields
  /\ Unset \notin Objs \cup {"None", "datetime", "d t", "dTt", "[]"}

Shape ==
  /\ DOMAIN stored = Fields
  /\ DOMAIN obj = Objs /\ DOMAIN given = Objs /\ DOMAIN readAs = Objs /\ DOMAIN wire = Objs
  /\ \A o \in Objs :
       /\ DOMAIN obj[o] = {"id", "plain", "data", "set"}
       /\ DOMAIN obj[o].data \subseteq Fields /\ DOMAIN given[o] \subseteq Fields
       /\ \A f \in DOMAIN readAs[o] : f \in Fields /\ readAs[o][f] \in WireValues[f]
       /\ wire[o].state = "write" => \A f \in DOMAIN wire[o].payload :
            f \in Fields /\ \E v \in Given(f) : wire[o].payload[f] = ToWire(v)

\* An object that is no copy and has none has its user set for itself, which names
\* what the caller gave; its values are those given, and for the rest those read.
OwnSets ==
  \A o \in Objs :
    /\ obj[o] = Absent => DOMAIN given[o] = {} /\ userSet[o] = {} /\ o \notin copied
    /\ obj[o] # Absent => obj[o].set = o \/ {o, obj[o].set} \subseteq copied
    /\ o \notin copied => userSet[o] = DOMAIN given[o]

Values ==
  \A o \in Objs \ copied : obj[o] # Absent =>
    /\ DOMAIN given[o] \subseteq DOMAIN obj[o].data
    /\ \A f \in DOMAIN obj[o].data :
         IF f \in DOMAIN given[o]
         THEN obj[o].data[f] = given[o][f]
         ELSE f \in DOMAIN readAs[o] /\ obj[o].data[f] = FromWire(f, readAs[o][f])

IInv == TypeOK /\ Shape /\ OwnSets /\ Values
=============================================================================
