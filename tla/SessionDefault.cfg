SPECIFICATION Spec
CONSTANTS
  write = write
  unlink = unlink
  read = read
  Calls = {write, unlink, read}
  Logins = {l1, l2}
  Users = {alice, bob}
  Level <- MCLevel
  Scoped = {write}
  ConfigSafety = None
  None = None
INVARIANT DefaultGuards
CHECK_DEADLOCK FALSE
