SPECIFICATION Spec
CONSTANTS
  db = db
  prod = prod
  Runs = {r1, r2, r3}
  Schedules = {db, prod}
  Connections = {local}
  NameOf <- MCNameOf
  Claims <- MCClaims
  ConnOf <- MCConnOf
  Tunnelled = {}
  Keep <- MCKeep
  MaxAge <- MCMaxAge
  MaxClock = 2
  None = None
SYMMETRY RunsAreAlike
INVARIANTS
  ABackupRemains
CHECK_DEADLOCK FALSE
