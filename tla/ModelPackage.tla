---------------------------- MODULE ModelPackage ----------------------------
(***************************************************************************)
(* CodeGenerator (codegen.py of godoo-introspection) and what Python makes *)
(* of its output: one module per model, with an import for every many2one  *)
(* relation to a model that is generated too, and an __init__.py importing *)
(* them all.  Generations into one directory follow one another, with      *)
(* other models and other relations, and may break off between two files.  *)
(***************************************************************************)
EXTENDS Naturals

CONSTANTS
  Models,    \* Odoo models, which name their files
  Unnamable, \* models whose name makes no Python class name
  Relations  \* what the many2one targets of the models may be

VARIABLES
  relations,  \* the many2one targets of each model in Odoo
  pc,
  schemas,    \* what is generated: model -> the many2one targets in its schema
  todo,       \* those whose file is still to be written
  files,      \* the modules in the directory: the modules each of them imports
  barrel,     \* the modules __init__.py imports
  complete    \* the last generation reached its end

vars == <<relations, pc, schemas, todo, files, barrel, complete>>

Init ==
  /\ relations \in Relations
  /\ pc = "idle"
  /\ schemas = [m \in {} |-> {}]
  /\ todo = {}
  /\ files = [m \in {} |-> {}]
  /\ barrel = {}
  /\ complete = FALSE

\* A CodeGenerator is made for introspected models: whole schemas, or such
\* without fields, as a call of get_schemas for several models has them and the
\* command line with it (SchemaCache).
Generate(models, whole) ==
  /\ pc = "idle"
  /\ pc' = "writing"
  /\ schemas' = [m \in models |-> IF whole THEN relations[m] ELSE {}]
  /\ todo' = models
  /\ complete' = FALSE
  /\ UNCHANGED <<relations, files, barrel>>

\* Mutant: a relation is imported whether its target is generated or not.
ImportsAll(m) == schemas[m]

\* A relation to a model outside of the set degrades to Ref[int].
Imports(m) == schemas[m] \cap DOMAIN schemas

\* One file of write(), in the order the schemas were given in: generate() raises
\* for a name that makes no class name.
WriteModule ==
  /\ pc = "writing"
  /\ \E m \in todo :
       IF m \in Unnamable
       THEN pc' = "idle" /\ UNCHANGED <<files, todo>>
       ELSE /\ files' = [x \in DOMAIN files \cup {m} |-> IF x = m THEN Imports(m) ELSE files[x]]
            /\ todo' = todo \ {m}
            /\ UNCHANGED pc
  /\ UNCHANGED <<relations, schemas, barrel, complete>>

WriteBarrel ==
  /\ pc = "writing"
  /\ todo = {}
  /\ pc' = "idle"
  /\ barrel' = DOMAIN schemas
  /\ complete' = TRUE
  /\ UNCHANGED <<relations, schemas, todo, files>>

\* The disk is full, the process is killed.
Interrupted ==
  /\ pc = "writing"
  /\ pc' = "idle"
  /\ UNCHANGED <<relations, schemas, todo, files, barrel, complete>>

\* A module is installed or upgraded.
Alter(r) ==
  /\ relations' = r
  /\ UNCHANGED <<pc, schemas, todo, files, barrel, complete>>

Next ==
  \/ \E models \in (SUBSET Models) \ {{}}, whole \in BOOLEAN : Generate(models, whole)
  \/ WriteModule \/ WriteBarrel \/ Interrupted
  \/ \E r \in Relations : Alter(r)

Spec == Init /\ [][Next]_vars

-----------------------------------------------------------------------------
(***************************************************************************)
(* import of the package: every module of the barrel is loaded, and first  *)
(* those it imports.  "from .x import X" fails when there is no x, and     *)
(* while x is itself being loaded, which has not got to its class then.    *)
(***************************************************************************)

\* With a module of S, all that it imports is in S.
Closed(S) == \A x \in S \cap DOMAIN files : files[x] \subseteq S

\* The modules that are loaded when m is.
Loaded(m) == {x \in Models : \A S \in SUBSET Models : m \in S /\ Closed(S) => x \in S}

\* A module that comes to import itself.
Circular(m) == m \in DOMAIN files /\ \E x \in files[m] : m \in Loaded(x)

Importable ==
  \A b \in barrel : \A m \in Loaded(b) : m \in DOMAIN files /\ ~Circular(m)

TypeOK ==
  /\ DOMAIN files \subseteq Models /\ barrel \subseteq Models
  /\ DOMAIN schemas \subseteq Models
  /\ pc \in {"idle", "writing"}

\* A package whose generation was completed can be imported, whatever earlier
\* generations left in its directory, and loads no module but those generated;
\* unless the relations among its models are circular.
PackageLoads ==
  pc = "idle" /\ complete =>
    /\ \A b \in barrel : Loaded(b) \subseteq DOMAIN schemas
    /\ Importable \/ \E m \in DOMAIN schemas : Circular(m)

\* "circular regular imports are safe at class-definition time" (codegen.py:88).
\* A model that refers to itself refutes it.
CircularSafe == pc = "idle" /\ complete => Importable

-----------------------------------------------------------------------------
(***************************************************************************)
(* The inductive invariant.                                                *)
(***************************************************************************)

PackageConstants == Relations \subseteq [Models -> SUBSET Models]

\* Every file imports models.
Shape ==
  /\ todo \subseteq DOMAIN schemas
  /\ \A m \in DOMAIN schemas : schemas[m] \subseteq Models
  /\ \A m \in DOMAIN files : files[m] \subseteq Models
  /\ relations \in [Models -> SUBSET Models]

\* What has been written of a generation imports models of that generation; the
\* barrel of a complete one names them all.
Written ==
  /\ pc = "writing" \/ complete =>
       \A m \in DOMAIN schemas \ todo : m \in DOMAIN files /\ files[m] = Imports(m)
  /\ pc = "writing" => ~complete
  /\ complete => todo = {} /\ barrel = DOMAIN schemas

IInv == TypeOK /\ Shape /\ Written
=============================================================================
