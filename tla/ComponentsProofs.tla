-------------------------- MODULE ComponentsProofs --------------------------
(***************************************************************************)
(* Proofs about the schema cache, generated packages and the release gate, *)
(* for any models, trees and bounds; and the theorems about each of the    *)
(* components, whichever of them a behaviour of Components is of.          *)
(***************************************************************************)
EXTENDS ServiceProofs, FiniteSetTheorems

-----------------------------------------------------------------------------
(***************************************************************************)
(* SchemaCache.                                                            *)
(***************************************************************************)

\* Its variables.
odoo == v1
schemaCache == v2
schemaCall == v3
USE DEF odoo, schemaCache, schemaCall

\* Sizes of sets are the same to SchemaCache.
LEMMA SameSizes ==
  \A S : Schemas!Cardinality(S) = Cardinality(S) /\ (Schemas!IsFiniteSet(S) <=> IsFiniteSet(S))
BY DEF Schemas!Cardinality, Cardinality, Schemas!IsFiniteSet, IsFiniteSet

\* It begins with its invariant: nothing is read, nothing is cached.
LEMMA SchemasInit ==
  ASSUME Schemas!SchemaConstants, Schemas!Init
  PROVE  Schemas!IInv
BY DEF Schemas!SchemaConstants, Schemas!Init, Schemas!Bare, Schemas!Nobody, Schemas!Idle,
   Schemas!IInv, Schemas!TypeOK, Schemas!Shape, Schemas!Fresh, Schemas!Refreshed

\* A refresh begins with the version its model has, and looks nothing up.
LEMMA SchemasBegin ==
  ASSUME Schemas!SchemaConstants, Schemas!IInv, NEW c \in SchemaCalls,
         NEW names \in (SUBSET SchemaModels) \ {{}},
         NEW bypass \in BOOLEAN, Schemas!Begin(c, names, bypass)
  PROVE  Schemas!IInv'
<1> DEFINE hits == Schemas!LookedUp(names, bypass)
           only == CHOOSE m \in names : TRUE
           began == IF bypass /\ Schemas!Cardinality(names) = 1 THEN odoo[only] ELSE 0
<1>0. only \in names /\ only \in SchemaModels
  OBVIOUS
<1>1. bypass /\ Schemas!Cardinality(names) = 1 => names = {only}
  BY <1>0, SameSizes, FS_Subset, FS_Singleton DEF Schemas!SchemaConstants
<1>n. odoo[only] \in 0..MaxSchemas
  BY <1>0 DEF Schemas!IInv, Schemas!TypeOK
<1> HIDE DEF only
<1>2. began \in 0..MaxSchemas
  BY <1>n DEF Schemas!SchemaConstants
<1>3. \A m \in names : odoo[m] >= began
  BY <1>1, <1>n DEF Schemas!IInv, Schemas!TypeOK, Schemas!SchemaConstants
<1>4. hits \subseteq names /\ (hits # {} => began = 0)
  BY DEF Schemas!LookedUp
<1> DEFINE looked == [Schemas!Idle EXCEPT !.pc = "done", !.began = began,
                        !.result = [m \in SchemaModels |-> IF m \in hits THEN schemaCache[m]
                                                           ELSE 0]]
           asking == [Schemas!Idle EXCEPT !.pc = "models", !.began = began, !.left = names \ hits]
<1>5. /\ UNCHANGED <<odoo, schemaCache>>
      /\ schemaCall' = [schemaCall EXCEPT ![c] = IF hits = names THEN looked ELSE asking]
  BY DEF Schemas!Begin, only
<1> HIDE DEF hits, began
<1>6. /\ looked.result \in [SchemaModels -> 0..Schemas!Bare]
      /\ asking.result \in [SchemaModels -> 0..Schemas!Bare]
  BY DEF Schemas!Idle, Schemas!Nobody, Schemas!IInv, Schemas!TypeOK, Schemas!Bare,
     Schemas!SchemaConstants
<1>u. /\ looked.rows = Schemas!Nobody
      /\ asking.rows = Schemas!Nobody
      /\ Schemas!Nobody \in [SchemaModels -> 0..MaxSchemas]
  BY DEF Schemas!Idle, Schemas!Nobody, Schemas!SchemaConstants
<1>p. looked.pc = "done" /\ looked.began = began /\ asking.pc = "models" /\ asking.began = began
      /\ asking.left \subseteq names
  BY DEF Schemas!Idle
<1> DEFINE R == [pc : {"idle", "models", "fields", "selections", "done"},
                 left : SUBSET SchemaModels,
                 found : SUBSET SchemaModels, rows : [SchemaModels -> 0..MaxSchemas],
                 result : [SchemaModels -> 0..Schemas!Bare], began : 0..MaxSchemas]
<1>r. looked \in R /\ asking \in R
  BY <1>2, <1>6, <1>u DEF Schemas!Idle
<1>s. schemaCall \in [SchemaCalls -> R]
  BY DEF Schemas!IInv, Schemas!Shape
<1> HIDE DEF looked, asking, R
<1>x. /\ schemaCall' \in [SchemaCalls -> R]
      /\ \A d \in SchemaCalls \ {c} : schemaCall'[d] = schemaCall[d]
      /\ schemaCall'[c] = IF hits = names THEN looked ELSE asking
  BY <1>5, <1>r, <1>s
<1>7. Schemas!TypeOK'
  BY <1>5, <1>6, <1>x DEF Schemas!IInv, Schemas!TypeOK
<1>7s. Schemas!Shape'
  BY <1>x DEF Schemas!Shape, R
<1>8. Schemas!Fresh'
  <2>1. ASSUME NEW m \in schemaCall'[c].left, schemaCall'[c].pc \in {"models", "fields"}
        PROVE  odoo[m] >= schemaCall'[c].began
    BY <1>3, <1>p, <1>x, <2>1
  <2>2. schemaCall'[c].pc # "fields" /\ schemaCall'[c].pc # "selections"
    BY <1>p, <1>x
  <2> QED
    BY <1>5, <1>x, <2>1, <2>2 DEF Schemas!IInv, Schemas!Fresh
<1>9. Schemas!Refreshed'
  <2>1. schemaCall'[c].pc = "done" => schemaCall'[c].began = 0
    BY <1>4, <1>p, <1>x
  <2>2. \A d \in SchemaCalls \ {c}, m \in SchemaModels :
          schemaCall'[d].pc = "done" /\ schemaCall'[d].result[m] # 0
            => schemaCall'[d].result[m] >= schemaCall'[d].began
    BY <1>x DEF Schemas!IInv, Schemas!Refreshed
  <2>3. \A m \in SchemaModels : schemaCall'[c].result[m] \in 0..Schemas!Bare
    BY <1>6, <1>x
  <2> QED
    BY <2>1, <2>2, <2>3 DEF Schemas!Refreshed, Schemas!Bare, Schemas!SchemaConstants
<1> QED
  BY <1>7, <1>7s, <1>8, <1>9 DEF Schemas!IInv

\* The models that are found are among those asked for.
LEMMA SchemasModelsRead ==
  ASSUME Schemas!SchemaConstants, Schemas!IInv, NEW c \in SchemaCalls, Schemas!ModelsRead(c)
  PROVE  Schemas!IInv'
<1> DEFINE r == [schemaCall[c] EXCEPT !.pc = "fields",
                 !.found = {m \in schemaCall[c].left : odoo[m] # 0}]
<1>0. /\ schemaCall[c] \in [pc : {"idle", "models", "fields", "selections", "done"},
                      left : SUBSET SchemaModels, found : SUBSET SchemaModels,
                      rows : [SchemaModels -> 0..MaxSchemas],
                      result : [SchemaModels -> 0..Schemas!Bare],
                      began : 0..MaxSchemas]
      /\ UNCHANGED <<odoo, schemaCache>> /\ schemaCall' = [schemaCall EXCEPT ![c] = r]
  BY DEF Schemas!IInv, Schemas!Shape, Schemas!ModelsRead
<1>r. /\ r \in [pc : {"idle", "models", "fields", "selections", "done"},
                left : SUBSET SchemaModels, found : SUBSET SchemaModels,
                rows : [SchemaModels -> 0..MaxSchemas], result : [SchemaModels -> 0..Schemas!Bare],
                began : 0..MaxSchemas]
      /\ r.result = schemaCall[c].result
  BY <1>0
<1> HIDE DEF r
<1>1. Schemas!TypeOK' /\ Schemas!Shape'
  BY <1>0, <1>r DEF Schemas!IInv, Schemas!TypeOK, Schemas!Shape
<1>2. Schemas!Fresh' /\ Schemas!Refreshed'
  BY DEF Schemas!IInv, Schemas!Shape, Schemas!Fresh, Schemas!Refreshed, Schemas!ModelsRead
<1> QED
  BY <1>1, <1>2 DEF Schemas!IInv

\* The fields read of a model that is refreshed are not older than the refresh.
LEMMA SchemasFieldsRead ==
  ASSUME Schemas!SchemaConstants, Schemas!IInv, NEW c \in SchemaCalls, Schemas!FieldsRead(c)
  PROVE  Schemas!IInv'
<1> DEFINE alone == Schemas!Cardinality(schemaCall[c].left) = 1
           read == [m \in SchemaModels |-> IF alone /\ m \in schemaCall[c].found THEN odoo[m]
                                           ELSE 0]
           r == [[schemaCall[c] EXCEPT !.pc = "selections"] EXCEPT !.rows = read]
<1>0. /\ schemaCall[c] \in [pc : {"idle", "models", "fields", "selections", "done"},
                      left : SUBSET SchemaModels, found : SUBSET SchemaModels,
                      rows : [SchemaModels -> 0..MaxSchemas],
                      result : [SchemaModels -> 0..Schemas!Bare],
                      began : 0..MaxSchemas]
      /\ UNCHANGED <<odoo, schemaCache>>
      /\ schemaCall' = [schemaCall EXCEPT ![c] = r]
      /\ schemaCall[c].pc = "fields"
  BY DEF Schemas!IInv, Schemas!Shape, Schemas!FieldsRead
<1> HIDE DEF alone
<1>1. read \in [SchemaModels -> 0..MaxSchemas]
  BY DEF Schemas!IInv, Schemas!TypeOK, Schemas!SchemaConstants
<1>2. \A m \in SchemaModels : read[m] = 0 \/ read[m] >= schemaCall[c].began
  BY <1>0 DEF Schemas!IInv, Schemas!Fresh
<1> HIDE DEF read
<1>r. /\ r \in [pc : {"idle", "models", "fields", "selections", "done"},
                left : SUBSET SchemaModels, found : SUBSET SchemaModels,
                rows : [SchemaModels -> 0..MaxSchemas], result : [SchemaModels -> 0..Schemas!Bare],
                began : 0..MaxSchemas]
      /\ r.result = schemaCall[c].result /\ r.pc = "selections" /\ r.rows = read
      /\ r.began = schemaCall[c].began
  BY <1>0, <1>1
<1> HIDE DEF r
<1>x. schemaCall'[c] = r /\ \A d \in SchemaCalls \ {c} : schemaCall'[d] = schemaCall[d]
  BY <1>0 DEF Schemas!IInv, Schemas!Shape
<1>3. Schemas!TypeOK' /\ Schemas!Shape'
  BY <1>0, <1>r DEF Schemas!IInv, Schemas!TypeOK, Schemas!Shape
<1>4. Schemas!Fresh'
  BY <1>0, <1>2, <1>r, <1>x DEF Schemas!IInv, Schemas!Fresh
<1>5. Schemas!Refreshed'
  BY <1>r, <1>x DEF Schemas!IInv, Schemas!Refreshed
<1> QED
  BY <1>3, <1>4, <1>5 DEF Schemas!IInv

\* What is built is as new as the fields that were read, or without fields.
LEMMA SchemasWarm ==
  ASSUME Schemas!SchemaConstants, Schemas!IInv, NEW c \in SchemaCalls, Schemas!Warm(c)
  PROVE  Schemas!IInv'
<1> DEFINE built == [m \in SchemaModels |-> IF m \in schemaCall[c].found THEN Schemas!Built(c, m)
                                            ELSE 0]
<1>0. /\ schemaCall[c].began \in 0..MaxSchemas
      /\ schemaCall[c].rows \in [SchemaModels -> 0..MaxSchemas]
      /\ schemaCall[c].pc = "selections"
  BY DEF Schemas!IInv, Schemas!Shape, Schemas!Warm
<1>1. \A m \in SchemaModels : Schemas!Built(c, m) \in 0..Schemas!Bare
                        /\ (Schemas!Built(c, m) = Schemas!Bare
                            \/ (schemaCall[c].rows[m] # 0
                                /\ Schemas!Built(c, m) = schemaCall[c].rows[m]))
  BY <1>0 DEF Schemas!Built, Schemas!Bare, Schemas!SchemaConstants
<1>2. built \in [SchemaModels -> 0..Schemas!Bare]
  BY <1>1 DEF Schemas!Bare, Schemas!SchemaConstants
<1>3. \A m \in SchemaModels : Schemas!Built(c, m) >= schemaCall[c].began
  BY <1>0, <1>1 DEF Schemas!IInv, Schemas!Fresh, Schemas!Bare, Schemas!SchemaConstants
<1>4. /\ UNCHANGED odoo /\ schemaCall' = [schemaCall EXCEPT ![c] = schemaCall'[c]]
      /\ \A d \in SchemaCalls \ {c} : schemaCall'[d] = schemaCall[d]
      /\ schemaCall'[c] = [pc |-> "done", left |-> {}, found |-> {}, rows |-> Schemas!Nobody,
                     result |-> built, began |-> schemaCall[c].began]
      /\ schemaCache' = [m \in SchemaModels |-> IF built[m] # 0 THEN built[m] ELSE schemaCache[m]]
  BY DEF Schemas!Warm, Schemas!Idle, Schemas!IInv, Schemas!Shape
<1>5. \A m \in SchemaModels : built[m] # 0 => built[m] >= schemaCall[c].began
  BY <1>3
<1>n. Schemas!Nobody \in [SchemaModels -> 0..MaxSchemas]
  BY DEF Schemas!Nobody, Schemas!SchemaConstants
<1> HIDE DEF built
<1>6. Schemas!TypeOK'
  BY <1>2, <1>4 DEF Schemas!IInv, Schemas!TypeOK
<1>6s. Schemas!Shape'
  <2>1. schemaCall'[c] \in [pc : {"idle", "models", "fields", "selections", "done"},
                      left : SUBSET SchemaModels, found : SUBSET SchemaModels,
                      rows : [SchemaModels -> 0..MaxSchemas],
                      result : [SchemaModels -> 0..Schemas!Bare],
                      began : 0..MaxSchemas]
    BY <1>0, <1>2, <1>4, <1>n
  <2> QED
    BY <1>4, <2>1 DEF Schemas!IInv, Schemas!Shape
<1>7. Schemas!Fresh' /\ Schemas!Refreshed'
  BY <1>4, <1>5 DEF Schemas!IInv, Schemas!Fresh, Schemas!Refreshed
<1> QED
  BY <1>6, <1>6s, <1>7 DEF Schemas!IInv

\* A model that changes does not get older.
LEMMA SchemasAlter ==
  ASSUME Schemas!SchemaConstants, Schemas!IInv, NEW m \in SchemaModels, NEW v \in 0..MaxSchemas,
         Schemas!Alter(m, v)
  PROVE  Schemas!IInv'
<1>0. v = 0 \/ v = MaxSchemas \/ (v >= odoo[m] /\ odoo[m] # 0)
  <2>1. CASE odoo[m] = 0
    BY <2>1 DEF Schemas!Alter
  <2>2. CASE odoo[m] # 0
    <3>1. v \in {0, odoo[m] + 1} /\ odoo[m] \in Nat
      BY <2>2 DEF Schemas!Alter, Schemas!IInv, Schemas!TypeOK, Schemas!SchemaConstants
    <3> QED
      BY <2>2, <3>1
  <2> QED
    BY <2>1, <2>2
<1>1. /\ odoo' \in [SchemaModels -> 0..MaxSchemas] /\ UNCHANGED <<schemaCache, schemaCall>>
      /\ \A n \in SchemaModels : \/ odoo'[n] = 0 \/ odoo'[n] = MaxSchemas
                            \/ (odoo'[n] >= odoo[n] /\ odoo[n] # 0)
  <2>1. odoo' = [odoo EXCEPT ![m] = v] /\ UNCHANGED <<schemaCache, schemaCall>>
    BY DEF Schemas!Alter
  <2>2. odoo \in [SchemaModels -> 0..MaxSchemas] /\ MaxSchemas \in Nat
    BY DEF Schemas!IInv, Schemas!TypeOK, Schemas!SchemaConstants
  <2> QED
    BY <1>0, <2>1, <2>2
<1>2. Schemas!TypeOK' /\ Schemas!Shape' /\ Schemas!Refreshed'
  BY <1>1 DEF Schemas!IInv, Schemas!TypeOK, Schemas!Shape, Schemas!Refreshed
<1>r. \A c \in SchemaCalls : schemaCall[c].pc = "selections" =>
        \A n \in SchemaModels :
          schemaCall[c].rows[n] = 0 \/ schemaCall[c].rows[n] >= schemaCall[c].began
  BY DEF Schemas!IInv, Schemas!Fresh
<1>3. Schemas!Fresh'
  <2> SUFFICES ASSUME NEW c \in SchemaCalls, schemaCall[c].pc \in {"models", "fields"},
                      NEW n \in schemaCall[c].left
               PROVE  odoo'[n] = 0 \/ odoo'[n] >= schemaCall[c].began
    BY <1>1, <1>r DEF Schemas!IInv, Schemas!Fresh
  <2>1. n \in SchemaModels /\ schemaCall[c].began \in 0..MaxSchemas
          /\ (odoo[n] = 0 \/ odoo[n] >= schemaCall[c].began)
    BY DEF Schemas!IInv, Schemas!Shape, Schemas!Fresh
  <2> QED
    BY <1>1, <2>1 DEF Schemas!SchemaConstants, Schemas!IInv, Schemas!TypeOK
<1> QED
  BY <1>2, <1>3 DEF Schemas!IInv

\* Every step keeps the invariant of the schema cache.
LEMMA SchemasStep ==
  ASSUME Schemas!SchemaConstants, Schemas!IInv, [Schemas!Next]_(Schemas!vars)
  PROVE  Schemas!IInv'
<1>1. ASSUME NEW c \in SchemaCalls, Schemas!ReadFails(c) PROVE Schemas!IInv'
  BY <1>1 DEF Schemas!IInv, Schemas!TypeOK, Schemas!Shape, Schemas!Fresh, Schemas!Refreshed,
     Schemas!ReadFails, Schemas!Idle, Schemas!Nobody, Schemas!Bare, Schemas!SchemaConstants
<1>2. ASSUME NEW names \in SUBSET SchemaModels, Schemas!Invalidate(names) PROVE Schemas!IInv'
  BY <1>2 DEF Schemas!IInv, Schemas!TypeOK, Schemas!Shape, Schemas!Fresh, Schemas!Refreshed,
     Schemas!Invalidate, Schemas!Bare, Schemas!SchemaConstants
<1>same. CASE UNCHANGED Schemas!vars
  <2>1. Schemas!TypeOK'
    BY <1>same DEF Schemas!vars, Schemas!IInv, Schemas!TypeOK
  <2>2. Schemas!Shape'
    BY <1>same DEF Schemas!vars, Schemas!IInv, Schemas!Shape
  <2>3. Schemas!Fresh'
    BY <1>same DEF Schemas!vars, Schemas!IInv, Schemas!Fresh
  <2>4. Schemas!Refreshed'
    BY <1>same DEF Schemas!vars, Schemas!IInv, Schemas!Refreshed
  <2> QED
    BY <2>1, <2>2, <2>3, <2>4 DEF Schemas!IInv
<1> QED
  BY <1>same, <1>1, <1>2, SchemasBegin, SchemasModelsRead, SchemasFieldsRead, SchemasWarm,
     SchemasAlter
  DEF Schemas!Next

-----------------------------------------------------------------------------
(***************************************************************************)
(* ModelPackage.                                                           *)
(***************************************************************************)

\* Its variables.
relations == v1
packagePc == v2
schemas == v3
todo == v4
files == v5
barrel == v6
complete == v7
USE DEF relations, packagePc, schemas, todo, files, barrel, complete

\* Nothing is generated.
LEMMA PackageInit ==
  ASSUME Package!PackageConstants, Package!Init
  PROVE  Package!IInv
BY DEF Package!PackageConstants, Package!Init, Package!IInv, Package!TypeOK, Package!Shape,
   Package!Written

\* A file of a generation imports models of that generation.
LEMMA PackageWriteModule ==
  ASSUME Package!IInv, Package!WriteModule
  PROVE  Package!IInv'
<1>1. PICK m \in todo :
        IF m \in Unnamable
        THEN packagePc' = "idle" /\ UNCHANGED <<files, todo>>
        ELSE /\ files' = [x \in DOMAIN files \cup {m} |-> IF x = m THEN Package!Imports(m)
                                                          ELSE files[x]]
             /\ todo' = todo \ {m}
             /\ UNCHANGED packagePc
  BY DEF Package!WriteModule
<1>2. /\ UNCHANGED <<relations, schemas, barrel, complete>> /\ packagePc = "writing" /\ ~complete
      /\ \A x : Package!Imports(x)' = Package!Imports(x)
  BY DEF Package!WriteModule, Package!IInv, Package!Written, Package!Imports
<1>3. CASE m \in Unnamable
  BY <1>1, <1>2, <1>3 DEF Package!IInv, Package!TypeOK, Package!Shape, Package!Written
<1>4. CASE m \notin Unnamable
  <2>1. m \in Models /\ Package!Imports(m) \subseteq Models
    BY <1>1 DEF Package!IInv, Package!TypeOK, Package!Shape, Package!Imports
  <2>2. Package!TypeOK' /\ Package!Shape'
    BY <1>1, <1>2, <1>4, <2>1 DEF Package!IInv, Package!TypeOK, Package!Shape
  <2>3. Package!Written'
    BY <1>1, <1>2, <1>4 DEF Package!IInv, Package!Written
  <2> QED
    BY <2>2, <2>3 DEF Package!IInv
<1> QED
  BY <1>3, <1>4

\* Every step keeps the invariant of a package.
LEMMA PackageStep ==
  ASSUME Package!PackageConstants, Package!IInv, [Package!Next]_(Package!vars)
  PROVE  Package!IInv'
<1>1. ASSUME NEW models \in (SUBSET Models) \ {{}}, NEW whole \in BOOLEAN,
             Package!Generate(models, whole)
      PROVE  Package!IInv'
  <2>1. schemas' = [m \in models |-> IF whole THEN relations[m] ELSE {}] /\ todo' = models
        /\ packagePc' = "writing" /\ complete' = FALSE /\ UNCHANGED <<relations, files, barrel>>
    BY <1>1 DEF Package!Generate
  <2> QED
    BY <2>1 DEF Package!IInv, Package!TypeOK, Package!Shape, Package!Written, Package!Generate
<1>2. ASSUME Package!WriteBarrel PROVE Package!IInv'
  BY <1>2 DEF Package!IInv, Package!TypeOK, Package!Shape, Package!Written, Package!WriteBarrel,
     Package!Imports
<1>3. ASSUME Package!Interrupted PROVE Package!IInv'
  BY <1>3 DEF Package!IInv, Package!TypeOK, Package!Shape, Package!Written, Package!Interrupted,
     Package!Imports
<1>4. ASSUME NEW r \in Relations, Package!Alter(r) PROVE Package!IInv'
  BY <1>4 DEF Package!PackageConstants, Package!IInv, Package!TypeOK, Package!Shape,
     Package!Written, Package!Alter, Package!Imports
<1>same. CASE UNCHANGED Package!vars
  <2>1. Package!TypeOK'
    BY <1>same DEF Package!vars, Package!IInv, Package!TypeOK
  <2>2. Package!Shape'
    BY <1>same DEF Package!vars, Package!IInv, Package!Shape
  <2>3. Package!Written'
    BY <1>same DEF Package!vars, Package!IInv, Package!Written, Package!Imports
  <2> QED
    BY <2>1, <2>2, <2>3 DEF Package!IInv
<1> QED
  BY <1>same, <1>1, <1>2, <1>3, <1>4, PackageWriteModule DEF Package!Next

\* The modules of a complete generation import one another only: to load one is to
\* load some of them.
LEMMA PackageImports ==
  ASSUME Package!IInv
  PROVE  Package!PackageLoads
<1> SUFFICES ASSUME packagePc = "idle", complete
             PROVE  /\ \A b \in barrel : Package!Loaded(b) \subseteq DOMAIN schemas
                    /\ Package!Importable \/ \E m \in DOMAIN schemas : Package!Circular(m)
  BY DEF Package!PackageLoads
<1>1. /\ barrel = DOMAIN schemas
      /\ DOMAIN schemas \subseteq Models
      /\ DOMAIN schemas \subseteq DOMAIN files
      /\ \A m \in DOMAIN schemas : files[m] = Package!Imports(m)
  BY DEF Package!IInv, Package!TypeOK, Package!Written
<1>2. Package!Closed(DOMAIN schemas)
  BY <1>1 DEF Package!Closed, Package!Imports
<1>3. \A b \in barrel : Package!Loaded(b) \subseteq DOMAIN schemas
  BY <1>1, <1>2 DEF Package!Loaded
<1>4. Package!Importable \/ \E m \in DOMAIN schemas : Package!Circular(m)
  BY <1>1, <1>3 DEF Package!Importable
<1> QED
  BY <1>3, <1>4

-----------------------------------------------------------------------------
(***************************************************************************)
(* ReleaseGate.                                                            *)
(***************************************************************************)

\* Its variables.
head == v1
tree == v2
wheels == v3
manifest == v4
proc == v5
gateResult == v6
unseen == v7
USE DEF head, tree, wheels, manifest, proc, gateResult, unseen

\* No check has begun.
LEMMA GateInit ==
  ASSUME Gate!GateConstants, Gate!Init
  PROVE  Gate!IInv
<1>1. Gate!TypeOK /\ Gate!Shape
  BY DEF Gate!GateConstants, Gate!Init, Gate!TypeOK, Gate!Shape, Gate!Idle, Gate!NoResult,
     Gate!Modes
<1>2. Gate!Tested /\ Gate!Proven
  BY DEF Gate!Init, Gate!Tested, Gate!Proven, Gate!Running, Gate!Idle, Gate!NoResult, Gate!Modes
<1> QED
  BY <1>1, <1>2 DEF Gate!IInv

\* The process of a check, and its result.
Process == [pc : {"idle", "begun", "built", "verify", "verified", "tested"},
            before : [sha : Trees \cup {Nil}, tree : Trees \cup {Nil}],
            changed : BOOLEAN]

\* What a manifest may say.
Manifests == {Nil} \cup [source : [sha : Trees, tree : Trees], wheels : Trees \cup {Nil}]

\* What a result may say.
Results == [passed : BOOLEAN, source : [sha : Trees \cup {Nil}, tree : Trees \cup {Nil}],
            manifest : Manifests]

\* A check goes on, or stops, with a result that proves nothing or one that is
\* good; the tree, and the manifest that a check of odoo18 has tested, stay.
LEMMA GateCheck ==
  ASSUME Gate!GateConstants, Gate!IInv, NEW m \in Gate!Modes, NEW p \in Process, NEW r \in Results,
         proc' = [proc EXCEPT ![m] = p], gateResult' = [gateResult EXCEPT ![m] = r],
         UNCHANGED <<head, tree>>, wheels' \in Trees \cup {Nil}, manifest' \in Manifests,
         manifest' = manifest \/ (m = "package" /\ p.pc # "idle"),
         unseen' \in BOOLEAN, unseen => unseen',
         p.pc # "idle" => proc[m].pc # "idle" \/ Gate!Running \cup {m} \in Together,
         m = "offline" => p.pc \in {"idle", "begun", "tested"},
         p.pc # "idle" /\ ~p.changed =>
           /\ p.before = Gate!Identity
           /\ m = "offline" /\ p.pc = "tested" => tree \in Good
           /\ m = "odoo18" /\ p.pc = "tested" => manifest = Nil \/ manifest.wheels \in Good,
         ~unseen' /\ r.passed /\ r # gateResult[m] =>
           /\ m = "offline" => r.source.tree \in Good
           /\ m = "odoo18" => r.manifest # Nil /\ r.manifest.wheels \in Good
  PROVE  Gate!IInv'
<1>1. /\ proc' \in [Gate!Modes -> Process] /\ proc'[m] = p
      /\ \A k \in Gate!Modes \ {m} : proc'[k] = proc[k]
  BY DEF Gate!IInv, Gate!Shape, Process
<1>2. /\ gateResult' \in [Gate!Modes -> Results] /\ gateResult'[m] = r
      /\ \A k \in Gate!Modes \ {m} : gateResult'[k] = gateResult[k]
  BY DEF Gate!IInv, Gate!Shape, Results, Manifests
<1>o. proc'["offline"].pc \in {"idle", "begun", "tested"}
  BY <1>1 DEF Gate!IInv, Gate!Shape, Gate!Modes
<1>3. proc'["package"].pc = "idle" \/ proc'["odoo18"].pc = "idle"
  <2>1. CASE p.pc = "idle"
    BY <1>1, <2>1 DEF Gate!IInv, Gate!Shape, Gate!Modes
  <2>2. CASE proc[m].pc # "idle"
    BY <1>1, <2>2 DEF Gate!IInv, Gate!Shape, Gate!Modes
  <2>3. CASE Gate!Running \cup {m} \in Together
    <3>1. "package" \notin Gate!Running \cup {m} \/ "odoo18" \notin Gate!Running \cup {m}
      BY <2>3 DEF Gate!GateConstants
    <3> QED
      BY <1>1, <3>1 DEF Gate!Running, Gate!Modes
  <2> QED
    BY <2>1, <2>2, <2>3
<1>4. Gate!TypeOK'
  BY <1>1 DEF Gate!IInv, Gate!TypeOK, Process, Manifests
<1>5. Gate!Shape'
  BY <1>1, <1>2, <1>3, <1>o DEF Gate!Shape, Process, Results, Manifests
<1>6. Gate!Tested'
  <2> SUFFICES ASSUME NEW k \in Gate!Modes, proc'[k].pc # "idle", ~proc'[k].changed
               PROVE  /\ proc'[k].before = Gate!Identity
                      /\ k = "offline" /\ proc'[k].pc = "tested" => tree \in Good
                      /\ k = "odoo18" /\ proc'[k].pc = "tested" =>
                           manifest' = Nil \/ manifest'.wheels \in Good
    BY DEF Gate!Tested, Gate!Running, Gate!Identity
  <2>1. CASE k = m
    BY <1>1, <2>1
  <2>2. CASE k # m
    <3>1. k \in Gate!Running /\ ~proc[k].changed /\ proc'[k] = proc[k]
      BY <1>1, <2>2 DEF Gate!Running
    <3>2. k = "odoo18" => manifest' = manifest
      BY <1>1, <1>3, <2>2 DEF Gate!Modes
    <3> QED
      BY <3>1, <3>2 DEF Gate!IInv, Gate!Tested
  <2> QED
    BY <2>1, <2>2
<1>7. Gate!Proven'
  BY <1>2 DEF Gate!IInv, Gate!Proven, Gate!Modes
<1> QED
  BY <1>4, <1>5, <1>6, <1>7 DEF Gate!IInv

\* The identity is that of the tree now, and nothing has been tested yet.
LEMMA GateBegin ==
  ASSUME Gate!GateConstants, Gate!IInv, NEW m \in Gate!Modes, Gate!Begin(m)
  PROVE  Gate!IInv'
<1> DEFINE p == [pc |-> "begun", before |-> Gate!Identity, changed |-> FALSE]
<1>1. p \in Process
  BY DEF Process, Gate!Identity, Gate!IInv, Gate!TypeOK
<1>2. gateResult[m] \in Results /\ gateResult' = [gateResult EXCEPT ![m] = gateResult[m]]
  BY DEF Gate!Begin, Gate!IInv, Gate!Shape, Results, Manifests
<1>3. /\ UNCHANGED <<head, tree, wheels, manifest, unseen>> /\ Gate!Running \cup {m} \in Together
      /\ proc' = [proc EXCEPT ![m] = p]
      /\ wheels \in Trees \cup {Nil} /\ manifest \in Manifests /\ unseen \in BOOLEAN
  BY DEF Gate!Begin, Gate!IInv, Gate!TypeOK, Gate!Shape, Manifests
<1>4. p.pc = "begun" /\ p.before = Gate!Identity
  OBVIOUS
<1> HIDE DEF p
<1> QED
  BY <1>1, <1>2, <1>3, <1>4, GateCheck

\* A check that goes on keeps its identity, as long as nobody touches the tree.
LEMMA GateGoesOn ==
  ASSUME Gate!GateConstants, Gate!IInv, NEW m \in Gate!Modes, proc[m].pc # "idle",
         NEW pc \in {"built", "verify", "verified", "tested"}, Gate!To(m, pc),
         UNCHANGED <<head, tree, gateResult, unseen>>, wheels' \in Trees \cup {Nil},
         manifest' \in Manifests, manifest' = manifest \/ m = "package",
         m = "offline" <=> pc = "tested", m = "offline" => tree \in Good
  PROVE  Gate!IInv'
<1> DEFINE p == [proc[m] EXCEPT !.pc = pc]
<1>1. proc[m] \in Process
  BY DEF Gate!IInv, Gate!Shape, Process
<1>2. p \in Process /\ p.pc = pc /\ p.before = proc[m].before /\ p.changed = proc[m].changed
  BY <1>1 DEF Process
<1>3. proc' = [proc EXCEPT ![m] = p]
  BY DEF Gate!To
<1>4. gateResult[m] \in Results /\ gateResult' = [gateResult EXCEPT ![m] = gateResult[m]]
  BY DEF Gate!IInv, Gate!Shape, Results, Manifests
<1>5. ~p.changed => p.before = Gate!Identity
  BY <1>2 DEF Gate!IInv, Gate!Tested, Gate!Running
<1> HIDE DEF p
<1>6. unseen' \in BOOLEAN /\ (unseen => unseen')
  BY DEF Gate!IInv, Gate!Shape
<1> QED
  BY <1>2, <1>3, <1>4, <1>5, <1>6, GateCheck

\* A check that stops without having passed.
LEMMA GateStops ==
  ASSUME Gate!GateConstants, Gate!IInv, NEW m \in Gate!Modes, Gate!To(m, "idle"),
         NEW r \in {Gate!NoResult, gateResult[m]}, gateResult' = [gateResult EXCEPT ![m] = r],
         UNCHANGED <<head, tree, wheels, manifest, unseen>>
  PROVE  Gate!IInv'
<1>1. Gate!Idle \in Process /\ Gate!Idle.pc = "idle" /\ proc' = [proc EXCEPT ![m] = Gate!Idle]
  BY DEF Gate!Idle, Process, Gate!To
<1>2. Gate!NoResult \in Results /\ ~Gate!NoResult.passed /\ gateResult[m] \in Results
  BY DEF Gate!NoResult, Results, Manifests, Gate!IInv, Gate!Shape
<1>3. r \in Results /\ (r.passed => r = gateResult[m])
  BY <1>2
<1> QED
  BY <1>1, <1>3, GateCheck DEF Gate!IInv, Gate!TypeOK, Gate!Shape, Manifests

\* A check that fails stops with a result that proves nothing.
LEMMA GateFailed ==
  ASSUME Gate!GateConstants, Gate!IInv, NEW m \in Gate!Modes, Gate!Failed(m),
         UNCHANGED <<head, tree, wheels, manifest, unseen>>
  PROVE  Gate!IInv'
BY GateStops DEF Gate!Failed

\* offline tests the tree.
LEMMA GateOffline ==
  ASSUME Gate!GateConstants, Gate!IInv, Gate!Offline
  PROVE  Gate!IInv'
<1>1. "offline" \in Gate!Modes /\ proc["offline"].pc # "idle"
      /\ wheels \in Trees \cup {Nil} /\ manifest \in Manifests
  BY DEF Gate!Modes, Gate!Offline, Gate!IInv, Gate!TypeOK, Gate!Shape, Manifests
<1>2. CASE tree \in Good
  BY <1>1, <1>2, GateGoesOn DEF Gate!Offline
<1>3. CASE tree \notin Good
  BY <1>1, <1>3, GateFailed DEF Gate!Offline
<1> QED
  BY <1>2, <1>3

\* The wheels are built, into an empty directory.
LEMMA GateBuild ==
  ASSUME Gate!GateConstants, Gate!IInv, Gate!Build
  PROVE  Gate!IInv'
<1>1. "package" \in Gate!Modes /\ proc["package"].pc # "idle" /\ tree \in Trees \cup {Nil}
      /\ manifest \in Manifests
  BY DEF Gate!Modes, Gate!Build, Gate!IInv, Gate!TypeOK, Gate!Shape, Manifests
<1>2. CASE wheels = Nil /\ manifest = Nil
  BY <1>1, <1>2, GateGoesOn DEF Gate!Build
<1>3. CASE ~ (wheels = Nil /\ manifest = Nil)
  BY <1>1, <1>3, GateFailed DEF Gate!Build
<1> QED
  BY <1>2, <1>3

\* A manifest is written while no check of odoo18 is under way.
LEMMA GateWriteManifest ==
  ASSUME Gate!GateConstants, Gate!IInv, Gate!WriteManifest
  PROVE  Gate!IInv'
<1>1. "package" \in Gate!Modes /\ proc["package"].pc # "idle" /\ wheels \in Trees \cup {Nil}
      /\ [source |-> Gate!Identity, wheels |-> wheels] \in Manifests
  BY DEF Gate!Modes, Gate!WriteManifest, Gate!IInv, Gate!TypeOK, Manifests, Gate!Identity
<1> QED
  BY <1>1, GateGoesOn DEF Gate!WriteManifest

\* A check goes on with wheels that are those of the manifest, or stops.
LEMMA GateVerify ==
  ASSUME Gate!GateConstants, Gate!IInv, NEW m \in Gate!Modes, Gate!Verify(m)
  PROVE  Gate!IInv'
<1>1. proc[m].pc # "idle" /\ wheels \in Trees \cup {Nil} /\ manifest \in Manifests
  BY DEF Gate!Verify, Gate!IInv, Gate!TypeOK, Gate!Shape, Manifests
<1>2. CASE Gate!Verified
  BY <1>1, <1>2, GateGoesOn DEF Gate!Verify
<1>3. CASE ~Gate!Verified
  BY <1>1, <1>3, GateFailed DEF Gate!Verify
<1> QED
  BY <1>2, <1>3

\* odoo18 tests the wheels that are there; they are those of the manifest, or the
\* check counts as changed.
LEMMA GateConsume ==
  ASSUME Gate!GateConstants, Gate!IInv, NEW m \in Gate!Modes, Gate!Consume(m)
  PROVE  Gate!IInv'
<1>1. CASE ~ (wheels # Nil /\ (m = "odoo18" => wheels \in Good))
  BY <1>1, GateFailed DEF Gate!Consume
<1>2. CASE wheels # Nil /\ (m = "odoo18" => wheels \in Good)
  <2> DEFINE p == [proc[m] EXCEPT !.pc = "tested", !.changed = @ \/ ~Gate!Listed]
  <2>1. proc[m] \in Process /\ proc[m].pc = "verified" /\ Gate!Listed \in BOOLEAN
    BY DEF Gate!IInv, Gate!Shape, Process, Gate!Consume, Gate!Listed
  <2>2. p \in Process /\ p.pc = "tested" /\ p.before = proc[m].before
        /\ (~p.changed => ~proc[m].changed /\ Gate!Listed)
    BY <2>1 DEF Process
  <2>3. proc' = [proc EXCEPT ![m] = p]
    BY <1>2, <2>1 DEF Gate!Consume, Gate!IInv, Gate!Shape
  <2>4. gateResult[m] \in Results /\ gateResult' = [gateResult EXCEPT ![m] = gateResult[m]]
    BY <1>2 DEF Gate!Consume, Gate!IInv, Gate!Shape, Results, Manifests
  <2>5. ~p.changed => p.before = Gate!Identity /\ (m = "odoo18" => manifest.wheels \in Good)
    BY <1>2, <2>1, <2>2 DEF Gate!IInv, Gate!Tested, Gate!Running, Gate!Listed
  <2>6. UNCHANGED <<head, tree, wheels, manifest, unseen>> /\ wheels \in Trees \cup {Nil}
        /\ manifest \in Manifests /\ unseen \in BOOLEAN /\ m # "offline"
    BY <1>2 DEF Gate!Consume, Gate!IInv, Gate!TypeOK, Gate!Shape, Manifests
  <2> HIDE DEF p
  <2> QED
    BY <2>1, <2>2, <2>3, <2>4, <2>5, <2>6, GateCheck
<1> QED
  BY <1>1, <1>2

\* What is recorded as passed was tested, unless the change of it went unseen.
LEMMA GateConclude ==
  ASSUME Gate!GateConstants, Gate!IInv, NEW m \in Gate!Modes, Gate!Conclude(m)
  PROVE  Gate!IInv'
<1>1. CASE ~ (Gate!UnchangedSource(m) /\ (m # "offline" => manifest # Nil))
  BY <1>1, GateFailed DEF Gate!Conclude
<1>2. CASE Gate!UnchangedSource(m) /\ (m # "offline" => manifest # Nil)
  <2> DEFINE passed == [passed |-> TRUE, source |-> proc[m].before,
                        manifest |-> IF m = "offline" THEN Nil ELSE manifest]
             r == IF Gate!Dirty(proc[m].before) THEN Gate!NoResult ELSE passed
  <2>1. proc[m].before = Gate!Identity /\ head \in Trees /\ tree \in Trees /\ manifest \in Manifests
        /\ wheels \in Trees \cup {Nil}
    BY <1>2 DEF Gate!UnchangedSource, Gate!IInv, Gate!TypeOK, Gate!Shape, Manifests
  <2>2. Gate!NoResult \in Results /\ ~Gate!NoResult.passed /\ passed \in Results
        /\ passed.source.tree = tree
        /\ passed.manifest = IF m = "offline" THEN Nil ELSE manifest
    BY <2>1 DEF Gate!NoResult, Results, Gate!Identity, Manifests
  <2>3. r \in Results /\ (r.passed => r = passed)
    BY <2>2
  <2>4. /\ Gate!To(m, "idle") /\ UNCHANGED <<head, tree, wheels, manifest>>
        /\ gateResult' = [gateResult EXCEPT ![m] = r]
        /\ unseen' = (unseen \/ (proc[m].changed /\ proc[m].before = Gate!Identity))
        /\ proc[m].pc = "tested"
    BY <1>2 DEF Gate!Conclude
  <2>5. unseen' \in BOOLEAN /\ (unseen => unseen')
    BY <2>4 DEF Gate!IInv, Gate!Shape
  <2>6. ~unseen' => ~proc[m].changed
    BY <2>1, <2>4
  <2>7. ~unseen' => /\ m = "offline" => tree \in Good
                    /\ m = "odoo18" => manifest # Nil /\ manifest.wheels \in Good
    BY <1>2, <2>4, <2>6 DEF Gate!IInv, Gate!Tested, Gate!Running
  <2>8. Gate!Idle \in Process /\ Gate!Idle.pc = "idle" /\ proc' = [proc EXCEPT ![m] = Gate!Idle]
    BY <2>4 DEF Gate!Idle, Process, Gate!To
  <2> HIDE DEF passed, r
  <2> QED
    BY <2>1, <2>2, <2>3, <2>4, <2>5, <2>7, <2>8, GateCheck
<1> QED
  BY <1>1, <1>2

\* An edit touches every check that is under way.
LEMMA GateEdit ==
  ASSUME Gate!GateConstants, Gate!IInv, NEW h \in Trees, NEW t \in Trees, Gate!Edit(h, t)
  PROVE  Gate!IInv'
<1>1. head' = h /\ tree' = t /\ UNCHANGED <<wheels, manifest, gateResult, unseen>>
      /\ proc' = [m \in Gate!Modes |->
           IF proc[m].pc = "idle" THEN proc[m] ELSE [proc[m] EXCEPT !.changed = TRUE]]
  BY DEF Gate!Edit
<1>2. \A m \in Gate!Modes : proc'[m] \in Process /\ proc'[m].pc = proc[m].pc
                            /\ (proc[m].pc # "idle" => proc'[m].changed)
  BY <1>1 DEF Gate!IInv, Gate!Shape, Process
<1>3. Gate!TypeOK'
  BY <1>1, <1>2 DEF Gate!IInv, Gate!TypeOK
<1>4. Gate!Shape'
  <2>1. proc' \in [Gate!Modes -> Process]
    BY <1>1, <1>2
  <2> QED
    BY <1>1, <1>2, <2>1 DEF Gate!IInv, Gate!Shape, Process, Gate!Modes
<1>5. Gate!Tested' /\ Gate!Proven'
  BY <1>1, <1>2 DEF Gate!IInv, Gate!Tested, Gate!Proven, Gate!Running
<1> QED
  BY <1>3, <1>4, <1>5 DEF Gate!IInv

\* With the wheels the manifest may go; no check has tested that there is one.
LEMMA GateExchange ==
  ASSUME Gate!GateConstants, Gate!IInv, NEW w \in Trees \cup {Nil}, Gate!Exchange(w)
  PROVE  Gate!IInv'
<1>1. wheels' = w /\ (manifest' = manifest \/ manifest' = Nil)
      /\ UNCHANGED <<head, tree, proc, gateResult, unseen>>
  BY DEF Gate!Exchange
<1>2. Gate!TypeOK' /\ Gate!Shape'
  BY <1>1 DEF Gate!IInv, Gate!TypeOK, Gate!Shape
<1>3. Gate!Tested' /\ Gate!Proven'
  BY <1>1 DEF Gate!IInv, Gate!Tested, Gate!Proven, Gate!Running, Gate!Identity
<1> QED
  BY <1>2, <1>3 DEF Gate!IInv

\* Every step keeps the invariant of the gate.
LEMMA GateStep ==
  ASSUME Gate!GateConstants, Gate!IInv, [Gate!Next]_(Gate!vars)
  PROVE  Gate!IInv'
<1>1. ASSUME NEW m \in Gate!Modes, Gate!Killed(m) PROVE Gate!IInv'
  <2>1. gateResult' = [gateResult EXCEPT ![m] = gateResult[m]]
    BY <1>1 DEF Gate!Killed, Gate!IInv, Gate!Shape
  <2> QED
    BY <1>1, <2>1, GateStops DEF Gate!Killed
<1>same. CASE UNCHANGED Gate!vars
  <2>1. Gate!TypeOK'
    BY <1>same DEF Gate!vars, Gate!IInv, Gate!TypeOK
  <2>2. Gate!Shape'
    BY <1>same DEF Gate!vars, Gate!IInv, Gate!Shape
  <2>3. Gate!Tested'
    BY <1>same DEF Gate!vars, Gate!IInv, Gate!Tested, Gate!Running, Gate!Identity
  <2>4. Gate!Proven'
    BY <1>same DEF Gate!vars, Gate!IInv, Gate!Proven
  <2> QED
    BY <2>1, <2>2, <2>3, <2>4 DEF Gate!IInv
<1> QED
  BY <1>same, <1>1, GateBegin, GateVerify, GateConsume, GateConclude, GateOffline, GateBuild,
     GateWriteManifest, GateEdit, GateExchange DEF Gate!Next

\* What would be promoted is what offline and odoo18 have tested.
LEMMA GatePromotes ==
  ASSUME Gate!IInv
  PROVE  Gate!PromotedProven
BY DEF Gate!IInv, Gate!Proven, Gate!PromotedProven, Gate!Promoted, Gate!Verified, Gate!Listed,
   Gate!Dirty, Gate!Identity, Gate!Modes

-----------------------------------------------------------------------------
(***************************************************************************)
(* Components: a behaviour is one of the component that runs.              *)
(***************************************************************************)

\* Every component begins with its invariant.
LEMMA InitIInv == ComponentsInit => ComponentsIInv
BY ComponentsAssumption, TypedInit, RefsInit, TimesInit, UrlsInit, SchemasInit, PackageInit,
   GateInit, TypesInit DEF ComponentsInit, ComponentsIInv

\* The component that runs takes all the steps.
LEMMA OneRuns ==
  ASSUME [ComponentsNext]_componentsVars
  PROVE  /\ component' = component
         /\ component = "typed" => [Typed!Next]_(Typed!vars)
         /\ component = "refs" => [Refs!Next]_(Refs!vars)
         /\ component = "times" => [Times!Next]_(Times!vars)
         /\ component = "urls" => [Urls!Next]_(Urls!vars)
         /\ component = "schemas" => [Schemas!Next]_(Schemas!vars)
         /\ component = "package" => [Package!Next]_(Package!vars)
         /\ component = "gate" => [Gate!Next]_(Gate!vars)
         /\ component = "types" => [Types!Next]_(Types!vars)
<1>0. CASE ComponentsNext
  BY <1>0 DEF ComponentsNext
<1>1. CASE UNCHANGED componentsVars
  BY <1>1 DEF componentsVars, Typed!vars, Refs!vars, Times!vars, Urls!vars, Schemas!vars,
     Package!vars, Gate!vars, Types!vars
<1> QED
  BY <1>0, <1>1

\* It keeps its invariant.
LEMMA StepIInv == ComponentsIInv /\ [ComponentsNext]_componentsVars => ComponentsIInv'
<1> SUFFICES ASSUME ComponentsIInv, [ComponentsNext]_componentsVars
             PROVE  ComponentsIInv'
  OBVIOUS
<1>1. component = "typed" => Typed!IInv'
  BY OneRuns, ComponentsAssumption, TypedStep DEF ComponentsIInv
<1>2. component = "refs" => Refs!IInv'
  BY OneRuns, ComponentsAssumption, RefsStep DEF ComponentsIInv
<1>3. component = "times" => Times!IInv'
  BY OneRuns, ComponentsAssumption, TimesStep DEF ComponentsIInv
<1>4. component = "urls" => Urls!IInv'
  BY OneRuns, ComponentsAssumption, UrlsStep DEF ComponentsIInv
<1>5. component = "schemas" => Schemas!IInv'
  BY OneRuns, ComponentsAssumption, SchemasStep DEF ComponentsIInv
<1>6. component = "package" => Package!IInv'
  BY OneRuns, ComponentsAssumption, PackageStep DEF ComponentsIInv
<1>7. component = "gate" => Gate!IInv'
  BY OneRuns, ComponentsAssumption, GateStep DEF ComponentsIInv
<1>8. component = "types" => Types!IInv'
  BY OneRuns, ComponentsAssumption, TypesStep DEF ComponentsIInv
<1> QED
  BY OneRuns, <1>1, <1>2, <1>3, <1>4, <1>5, <1>6, <1>7, <1>8 DEF ComponentsIInv

\* The inductive invariants hold of every component, for all values of the constants.
THEOREM Invariance == ComponentsSpec => []ComponentsIInv
BY InitIInv, StepIInv, PTL DEF ComponentsSpec

\* Every component stays within its types.
THEOREM TypeCorrect == ComponentsSpec => []ComponentTypes
<1>1. ComponentsIInv => ComponentTypes
  BY DEF ComponentsIInv, ComponentTypes, Typed!IInv, Refs!IInv, Times!IInv, Urls!IInv, Schemas!IInv,
     Package!IInv, Gate!IInv, Types!IInv
<1> QED
  BY <1>1, Invariance, PTL

\* References are resolved in place, whatever is deleted between the reads; a missing
\* one is reported; and no model is read twice (client.read).
THEOREM ReferencesResolved == ComponentsSpec => []RefsResolved
<1>1. ComponentsIInv => RefsResolved
  BY DEF ComponentsIInv, Refs!IInv, RefsResolved
<1> QED
  BY <1>1, Invariance, PTL

\* An employee has one open attendance at most, the latest, while operations do not
\* overlap (clock_in, clock_out).
THEOREM OpenAttendance == ComponentsSpec => []OneOpen
<1>1. ComponentsIInv => OneOpen
  BY DEF ComponentsIInv, Times!IInv, OneOpen
<1> QED
  BY <1>1, Invariance, PTL

\* The running timers are those started and not stopped, however soon and whatever
\* the clocks say (start_timer, stop_timer, log_time).
THEOREM RunningUntilStopped == ComponentsSpec => []TimersRunUntilStopped
<1>1. ComponentsIInv => TimersRunUntilStopped
  BY DEF ComponentsIInv, Times!IInv, TimersRunUntilStopped
<1> QED
  BY <1>1, Invariance, PTL

\* A call that asks Odoo, and every call of a client that Odoo has answered, gets a
\* URL of the client's own database, whichever calls overlap and whoever had the
\* client's id before (get_base_url).
THEOREM UrlOfOwnDatabase == ComponentsSpec => []OwnOnceAsked
<1>1. ComponentsIInv => OwnOnceAsked
  BY DEF ComponentsIInv, Urls!IInv, OwnOnceAsked
<1> QED
  BY <1>1, Invariance, PTL

\* A schema fetched with bypass_cache is not older than the call, however its reads
\* and those of other calls interleave (get_schema).
THEOREM RefreshIsFresh == ComponentsSpec => []Refreshed
<1>1. ComponentsIInv => Refreshed
  BY DEF ComponentsIInv, Schemas!IInv, Refreshed
<1> QED
  BY <1>1, Invariance, PTL

\* A package whose generation was completed can be imported, whatever earlier ones
\* left behind, unless relations are circular (CodeGenerator.write).
THEOREM PackageImportable == ComponentsSpec => []PackageLoads
<1>1. ComponentsIInv => PackageLoads
  BY PackageImports DEF ComponentsIInv, PackageLoads
<1> QED
  BY <1>1, Invariance, PTL

\* A candidate that would be promoted passes its tests, and so do its wheels
\* (scripts/check.py, scripts/gate.py).
THEOREM CandidateProven == ComponentsSpec => []PromotedProven
<1>1. ComponentsIInv => PromotedProven
  BY GatePromotes DEF ComponentsIInv, PromotedProven
<1> QED
  BY <1>1, Invariance, PTL

\* The types a call has asked its server about are those its own database has had,
\* whatever other calls put into the cache meanwhile (ensure_fields_cached).
THEOREM AskedTypesAreOwn == ComponentsSpec => []OwnAnswers
<1>1. ComponentsIInv => OwnAnswers
  BY DEF ComponentsIInv, Types!IInv, OwnAnswers
<1> QED
  BY <1>1, Invariance, PTL

\* A typed write sends what the caller gave, beyond it only what was read, and is
\* refused exactly if an x2many field was given (client.write, _serialize_for_write).
THEOREM WritesSent == ComponentsSpec => WritesAsMeant
<1>1. ComponentsIInv /\ [ComponentsNext]_componentsVars => (component = "typed" => Typed!AllAsMeant)
  BY ComponentsAssumption, OneRuns, TypedStepMeant DEF ComponentsIInv
<1> QED
  BY <1>1, Invariance, PTL DEF ComponentsSpec, WritesAsMeant
=============================================================================
