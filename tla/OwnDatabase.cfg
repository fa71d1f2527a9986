SPECIFICATION ComponentsSpec
CONSTANTS
  Nil = Nil
  good = good
  bad = bad
  Objs = {one, other}
  Kind <- MCKind
  WireValues <- MCWireValues
  Projections <- MCProjections
  Unset = "False"
  Classes = {"partner", "order"}
  Ids = {1, 2}
  Untyped = "untyped"
  MaxRefs = 3
  TimeTasks = {one, other}
  Skew = 1
  MaxTime = 2
  MaxRecords = 3
  UrlClients = {"c1", "c2"}
  Addresses = {"x", "y"}
  UrlCalls = {one, other}
  MaxUrls = 1
  SchemaCalls = {one, other}
  SchemaModels = {"m1", "m2"}
  MaxSchemas = 2
  Models = {"m1", "m2", "_"}
  Unnamable = {"_"}
  Relations <- MCRelations
  Trees = {good, bad}
  Good = {good}
  Together = {{"offline"}, {"package"}, {"odoo18"}}
  FieldCalls = {"k1", "k2"}
  FieldClients = {"here", "there"}
  ClientOf <- MCClientOf
  Names <- MCNames
  FieldNames = {"fa", "fb"}
  FieldTypes = {"char", "integer"}
  Char = "char"
  NoField = "none"
  MaxChanges = 1
INVARIANTS
  OwnDatabase
CHECK_DEADLOCK FALSE
