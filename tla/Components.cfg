SPECIFICATION SystemSpec
CONSTANTS
  Nil = Nil
  good = good
  bad = bad
  Objs = {one, other}
  Kind <- MCKind
  WireValues <- MCWireValues
  Projections <- MCProjections
  Unset = "False"
  Classes = {"partner", "order"}
  Ids = {1, 2}
  Untyped = "untyped"
  MaxRefs = 3
  TimeTasks = {one, other}
  Skew = 1
  MaxTime = 2
  MaxRecords = 3
  UrlClients = {"c1", "c2"}
  Addresses = {"x", "y"}
  UrlCalls = {one, other}
  MaxUrls = 1
  SchemaCalls = {one, other}
  SchemaModels = {"m1", "m2"}
  MaxSchemas = 2
  Models = {"m1", "m2", "_"}
  Unnamable = {"_"}
  Relations <- MCRelations
  Trees = {good, bad}
  Good = {good}
  Together = {{"offline"}, {"package"}, {"odoo18"}}
  FieldCalls = {"k1", "k2"}
  FieldClients = {"here", "there"}
  ClientOf <- MCClientOf
  Names <- MCNames
  FieldNames = {"fa", "fb"}
  FieldTypes = {"char", "integer"}
  Char = "char"
  NoField = "none"
  MaxChanges = 1
  write = write
  unlink = unlink
  read = read
  Calls = {write, unlink, read}
  Logins = {l1, l2}
  Users = {alice, bob}
  Level <- MCLevel
  Scoped = {write}
  ConfigSafety = "guard"
  None = None
  Tasks = {"t1", "t2"}
  Main = "t1"
  Scopes = {"french", "german"}
  Layer <- MCLayer
  Explicits <- MCExplicits
  MaxDepth = 3
SYMMETRY Alike
INVARIANTS
  ComponentTypes
  RefsResolved
  OneOpen
  TimersRunUntilStopped
  OwnOnceAsked
  Refreshed
  PackageLoads
  PromotedProven
  OwnAnswers
  CredentialsPaired
  ScopePinned
  GuardRespected
  CallsInScope
PROPERTIES
  WritesAsMeant
CHECK_DEADLOCK FALSE
