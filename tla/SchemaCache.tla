---------------------------- MODULE SchemaCache ----------------------------
(***************************************************************************)
(* Introspector (introspector.py of godoo-introspection): get_schema and   *)
(* get_schemas answer from a cache of their own or ask Odoo, first for the *)
(* models, then for their fields, and then, if a field is a selection, for *)
(* the values, while other calls are in flight and the database changes    *)
(* its models.  The version of a model is that of its fields; its          *)
(* selection values are left out, but not the wait for them.               *)
(***************************************************************************)
EXTENDS Naturals, FiniteSets

CONSTANTS
  Calls,
  Models,
  MaxVersion   \* bound on changes of a model's fields

VARIABLES
  odoo,    \* each model's fields, as a version; 0 while there is no such model
  cache,   \* IntrospectionCache: model -> the version cached, 0 if none
  call     \* the calls: where they are, the names the cache did not answer, the models
           \* found, the versions of the fields read, the result; of a get_schema that
           \* bypasses the cache, the version the model had when it began

vars == <<odoo, cache, call>>

\* A schema without a single field.
Bare == MaxVersion + 1

Nobody == [m \in Models |-> 0]

Idle ==
  [pc |-> "idle", left |-> {}, found |-> {}, rows |-> Nobody, result |-> Nobody, began |-> 0]

Init ==
  /\ odoo \in [Models -> {0, 1}]
  /\ cache = Nobody
  /\ call = [c \in Calls |-> Idle]

Ready(c) == call[c].pc \in {"idle", "done"}

\* Mutant: get_schema asks for a refresh, get_schemas looks in the cache.
LookedUpAlways(names, bypass) == {m \in names : cache[m] # 0}

\* The names the cache answers.
LookedUp(names, bypass) == IF bypass THEN {} ELSE {m \in names : cache[m] # 0}

\* get_schemas, and get_schema for a single name: with every name in the cache
\* that is the result; else the names missing are asked for, and only they are
\* answered.
Begin(c, names, bypass) ==
  /\ Ready(c)
  /\ LET hits == LookedUp(names, bypass)
         began == IF bypass /\ Cardinality(names) = 1 THEN odoo[CHOOSE m \in names : TRUE] ELSE 0
     IN call' = [call EXCEPT ![c] =
          IF hits = names
          THEN [Idle EXCEPT !.pc = "done", !.began = began,
                            !.result = [m \in Models |-> IF m \in hits THEN cache[m] ELSE 0]]
          ELSE [Idle EXCEPT !.pc = "models", !.began = began, !.left = names \ hits]]
  /\ UNCHANGED <<odoo, cache>>

\* The answer from ir.model.
ModelsRead(c) ==
  /\ call[c].pc = "models"
  /\ call' = [call EXCEPT ![c].pc = "fields",
                          ![c].found = {m \in call[c].left : odoo[m] # 0}]
  /\ UNCHANGED <<odoo, cache>>

\* The answer from ir.model.fields.  "model" is not among _IR_FIELDS, so no row
\* says whose it is; the rows are those of the one name asked for, or nobody's.
FieldsRead(c) ==
  /\ call[c].pc = "fields"
  /\ LET alone == Cardinality(call[c].left) = 1
     IN call' = [call EXCEPT ![c].pc = "selections",
                             ![c].rows = [m \in Models |->
                                            IF alone /\ m \in call[c].found THEN odoo[m] ELSE 0]]
  /\ UNCHANGED <<odoo, cache>>

\* The fields of a model, if any row was its own.
Built(c, m) == IF call[c].rows[m] # 0 THEN call[c].rows[m] ELSE Bare

\* The rows are there, and so is the answer from ir.model.fields.selection where
\* they ask for it: the schemas are built, cached and returned, whatever other
\* calls have cached meanwhile.
Warm(c) ==
  /\ call[c].pc = "selections"
  /\ LET built == [m \in Models |-> IF m \in call[c].found THEN Built(c, m) ELSE 0]
     IN /\ cache' = [m \in Models |-> IF built[m] # 0 THEN built[m] ELSE cache[m]]
        /\ call' = [call EXCEPT ![c] = [Idle EXCEPT !.pc = "done", !.result = built,
                                                    !.began = call[c].began]]
  /\ UNCHANGED odoo

ReadFails(c) ==
  /\ call[c].pc \in {"models", "fields", "selections"}
  /\ call' = [call EXCEPT ![c] = Idle]
  /\ UNCHANGED <<odoo, cache>>

\* A module is installed, upgraded or uninstalled; a model that comes back has
\* the latest fields.
Alter(m, v) ==
  /\ v # odoo[m]
  /\ v \in IF odoo[m] = 0 THEN {MaxVersion} ELSE {0, odoo[m] + 1} \cap 0..MaxVersion
  /\ odoo' = [odoo EXCEPT ![m] = v]
  /\ UNCHANGED <<cache, call>>

\* invalidate and clear
Invalidate(names) ==
  /\ cache' = [m \in Models |-> IF m \in names THEN 0 ELSE cache[m]]
  /\ UNCHANGED <<odoo, call>>

Next ==
  \/ \E c \in Calls :
       \/ \E names \in (SUBSET Models) \ {{}}, bypass \in BOOLEAN : Begin(c, names, bypass)
       \/ ModelsRead(c) \/ FieldsRead(c) \/ Warm(c) \/ ReadFails(c)
  \/ \E m \in Models, v \in 0..MaxVersion : Alter(m, v)
  \/ \E names \in (SUBSET Models) \ {{}} : Invalidate(names)

Spec == Init /\ [][Next]_vars

-----------------------------------------------------------------------------

TypeOK ==
  /\ odoo \in [Models -> 0..MaxVersion]
  /\ cache \in [Models -> 0..Bare]
  /\ \A c \in Calls : call[c].result \in [Models -> 0..Bare]

\* The fields of one model, fetched with bypass_cache, are not older than the
\* call, whatever other calls put into the cache meanwhile.
Refreshed ==
  \A c \in Calls : \A m \in Models :
    call[c].pc = "done" /\ call[c].result[m] # 0 => call[c].result[m] >= call[c].began

\* "Batch schema fetch.  Issues one RPC for all requested models"
\* (introspector.py:154); every model of Odoo has fields, and so has the schema
\* returned for it.  Violated by a call for two models.
SchemasWhole == \A c \in Calls : \A m \in Models : call[c].result[m] # Bare

-----------------------------------------------------------------------------
(***************************************************************************)
(* The inductive invariant.                                                *)
(***************************************************************************)

SchemaConstants == IsFiniteSet(Models) /\ MaxVersion \in Nat \ {0}

\* The models a refresh is still to read are gone, or not older than it; and so
\* are the fields it has read.
Fresh ==
  \A c \in Calls :
    /\ call[c].pc \in {"models", "fields"} =>
         \A m \in call[c].left : odoo[m] = 0 \/ odoo[m] >= call[c].began
    /\ call[c].pc = "fields" => call[c].found \subseteq call[c].left
    /\ call[c].pc = "selections" =>
         \A m \in Models : call[c].rows[m] = 0 \/ call[c].rows[m] >= call[c].began

Shape ==
  call \in [Calls -> [pc : {"idle", "models", "fields", "selections", "done"},
                      left : SUBSET Models, found : SUBSET Models,
                      rows : [Models -> 0..MaxVersion], result : [Models -> 0..Bare],
                      began : 0..MaxVersion]]

IInv == TypeOK /\ Shape /\ Fresh /\ Refreshed
=============================================================================
