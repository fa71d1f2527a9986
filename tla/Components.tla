----------------------------- MODULE Components -----------------------------
(***************************************************************************)
(* Eight components that keep state of their own and do not call one       *)
(* another.  A behaviour is one of one of them, chosen at the start; they  *)
(* share the variables v1 to v8, of which each uses the first few.         *)
(***************************************************************************)
EXTENDS Naturals

CONSTANTS
  Objs, Kind, WireValues, Projections, Unset,                 \* of TypedRecord
  Classes, Ids, Untyped, MaxRefs,                             \* of RefResolve
  TimeTasks, Skew, MaxTime, MaxRecords,                       \* of TimeTracking
  UrlClients, Addresses, UrlCalls, MaxUrls,                   \* of UrlCache
  SchemaCalls, SchemaModels, MaxSchemas,                      \* of SchemaCache
  Models, Unnamable, Relations,                               \* of ModelPackage
  Trees, Good, Together,                                      \* of ReleaseGate
  FieldCalls, FieldClients, ClientOf, Names, FieldNames,      \* of FieldCache
  FieldTypes, Char, NoField, MaxChanges,
  Nil

VARIABLES component, v1, v2, v3, v4, v5, v6, v7, v8

componentsVars == <<component, v1, v2, v3, v4, v5, v6, v7, v8>>

Typed == INSTANCE TypedRecord WITH
  stored <- v1, obj <- v2, userSet <- v3, given <- v4, readAs <- v5, copied <- v6, wire <- v7

Refs == INSTANCE RefResolve WITH
  existing <- v1, refs <- v2, pc <- v3, reads <- v4, fetched <- v5, asked <- v6, result <- v7

Times == INSTANCE TimeTracking WITH
  Tasks <- TimeTasks, None <- Nil,
  clock <- v1, attendances <- v2, sheets <- v3, pc <- v4, request <- v5, overlapped <- v6

Urls == INSTANCE UrlCache WITH
  Clients <- UrlClients, Calls <- UrlCalls, MaxVersion <- MaxUrls, None <- Nil,
  url <- v1, address <- v2, born <- v3, cache <- v4, call <- v5, informed <- v6

Schemas == INSTANCE SchemaCache WITH
  Calls <- SchemaCalls, Models <- SchemaModels, MaxVersion <- MaxSchemas,
  odoo <- v1, cache <- v2, call <- v3

Package == INSTANCE ModelPackage WITH
  relations <- v1, pc <- v2, schemas <- v3, todo <- v4, files <- v5, barrel <- v6, complete <- v7

Gate == INSTANCE ReleaseGate WITH
  None <- Nil,
  head <- v1, tree <- v2, wheels <- v3, manifest <- v4, proc <- v5, result <- v6, unseen <- v7

Types == INSTANCE FieldCache WITH
  Calls <- FieldCalls, Clients <- FieldClients, Fields <- FieldNames, Types <- FieldTypes,
  ttype <- v1, told <- v2, changes <- v3, _cache <- v4, pc <- v5, result <- v6, missing <- v7,
  records <- v8

\* What each component asks of its constants.
ASSUME ComponentsAssumption ==
  /\ Typed!TypedConstants /\ Refs!RefConstants /\ Times!TimeConstants /\ Urls!UrlConstants
  /\ Schemas!SchemaConstants /\ Package!PackageConstants /\ Gate!GateConstants
  /\ Types!FieldConstants

-----------------------------------------------------------------------------

ComponentsInit ==
  \/ component = "typed"   /\ Typed!Init   /\ v8 = Nil
  \/ component = "refs"    /\ Refs!Init    /\ v8 = Nil
  \/ component = "times"   /\ Times!Init   /\ v7 = Nil /\ v8 = Nil
  \/ component = "urls"    /\ Urls!Init    /\ v7 = Nil /\ v8 = Nil
  \/ /\ component = "schemas" /\ Schemas!Init
     /\ v4 = Nil /\ v5 = Nil /\ v6 = Nil /\ v7 = Nil /\ v8 = Nil
  \/ component = "package" /\ Package!Init /\ v8 = Nil
  \/ component = "gate"    /\ Gate!Init    /\ v8 = Nil
  \/ component = "types"   /\ Types!Init

ComponentsNext ==
  /\ UNCHANGED component
  /\ \/ component = "typed"   /\ Typed!Next   /\ UNCHANGED v8
     \/ component = "refs"    /\ Refs!Next    /\ UNCHANGED v8
     \/ component = "times"   /\ Times!Next   /\ UNCHANGED <<v7, v8>>
     \/ component = "urls"    /\ Urls!Next    /\ UNCHANGED <<v7, v8>>
     \/ component = "schemas" /\ Schemas!Next /\ UNCHANGED <<v4, v5, v6, v7, v8>>
     \/ component = "package" /\ Package!Next /\ UNCHANGED v8
     \/ component = "gate"    /\ Gate!Next    /\ UNCHANGED v8
     \/ component = "types"   /\ Types!Next

ComponentsSpec == ComponentsInit /\ [][ComponentsNext]_componentsVars

-----------------------------------------------------------------------------
(***************************************************************************)
(* The properties of the components, each stated in its module.            *)
(***************************************************************************)

\* Every component stays within its types.
ComponentTypes ==
  /\ component = "typed"   => Typed!TypeOK
  /\ component = "refs"    => Refs!TypeOK
  /\ component = "times"   => Times!TypeOK
  /\ component = "urls"    => Urls!TypeOK
  /\ component = "schemas" => Schemas!TypeOK
  /\ component = "package" => Package!TypeOK
  /\ component = "gate"    => Gate!TypeOK
  /\ component = "types"   => Types!TypeOK

\* What a typed write sends and refuses (client.write, _serialize_for_write).
WritesAsMeant == [][component = "typed" => Typed!AllAsMeant]_componentsVars

\* No write sends a computed field (_serialize_for_write).
ReadonlyExcluded == component = "typed" => Typed!ReadonlyExcluded

\* References are resolved in place, or a missing one is reported (client.read).
RefsResolved == component = "refs" => Refs!RefsResolved

\* At most one open attendance (clock_in, clock_out).
OneOpen == component = "times" => Times!OneOpen

\* Running timers are those not stopped (start_timer, stop_timer, log_time).
TimersRunUntilStopped == component = "times" => Times!TimersRunUntilStopped

\* A client that has asked gets a URL of its own database (get_base_url).
OwnOnceAsked == component = "urls" => Urls!OwnOnceAsked

\* A client gets a URL of its own database (get_base_url).
OwnUrl == component = "urls" => Urls!OwnUrl

\* A schema fetched with bypass_cache is not older than the call (get_schema).
Refreshed == component = "schemas" => Schemas!Refreshed

\* Every schema has its fields (get_schemas).
SchemasWhole == component = "schemas" => Schemas!SchemasWhole

\* A generated package can be imported (CodeGenerator.write).
PackageLoads == component = "package" => Package!PackageLoads

\* A promoted candidate passes its tests (scripts/gate.py).
PromotedProven == component = "gate" => Gate!PromotedProven

\* What a call asked its server about it has from there (ensure_fields_cached).
OwnAnswers == component = "types" => Types!OwnAnswers

\* What a feed learns of a field comes from its own database (ensure_fields_cached).
OwnDatabase == component = "types" => Types!OwnDatabase

\* The inductive invariants of the components.
ComponentsIInv ==
  /\ component = "typed"   => Typed!IInv
  /\ component = "refs"    => Refs!IInv
  /\ component = "times"   => Times!IInv
  /\ component = "urls"    => Urls!IInv
  /\ component = "schemas" => Schemas!IInv
  /\ component = "package" => Package!IInv
  /\ component = "gate"    => Gate!IInv
  /\ component = "types"   => Types!IInv
=============================================================================
