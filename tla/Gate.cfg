\* Two connections, two fingerprints, a table with room for one entry.
SPECIFICATION Spec
CONSTANTS
  c1 = c1
  c2 = c2
  f1 = f1
  f2 = f2
  home = home
  away = away
  strict = strict
  enrol = enrol
  Conns = {c1, c2}
  Fps = {f1, f2}
  Addrs = {home, away}
  Limit = 1
  Requests <- MCRequests
  Permissive = {enrol}
  StaticTrusted = {}
  DynamicTrusted <- MCDynamicTrusted
  ScopeShadow = FALSE
  Opaque = Opaque
  NoRequest = NoRequest
SYMMETRY ConnSymmetry
INVARIANTS
  ApprovalsFollowDecisions
PROPERTIES
  FloodIsBounded
  KeepsPromise
