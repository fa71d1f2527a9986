SPECIFICATION Spec
CONSTANTS
  one = one
  two = two
  r1 = r1
  r2 = r2
  p1 = p1
  p2 = p2
  home = home
  other = other
  Ops = {one, two}
  Records = {r1, r2}
  Props = {p1, p2}
  Parents = {home, other}
  Values <- MCValues
  Kinds <- MCKinds
  TypeOf <- MCTypeOf
  Accepts <- MCAccepts
  Unset = "unset"
  Absent = Absent
  None = None
  Gone = Gone
  Home = home
  Bound <- MCBound
  MappedOptions <- MCMappedOptions
  Programs <- MCPrograms
  InitialServers <- MCInitialServers
INVARIANTS
  TypeOK
  PreflightComplete
  OnlyAsked
  BindingSound
PROPERTIES
  MergedAsRead
CHECK_DEADLOCK FALSE
