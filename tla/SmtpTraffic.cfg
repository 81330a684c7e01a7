CONSTANTS
  Conns = {1, 2}
  Pids = {"p1", "p2"}
  Client = "client"
  Tolerance = 1
  VerdictWindow = 2
  MaxLifetime = 1
  MaxTime = 2
  SlowSteps = {"open", "hello", "queue", "pregreet", "reject"}
  Losable = {"end", "fingerprint"}
  Grain = 2
  VerdictDelay = 1
  MaxDropped = 1
  Scripts <- MCScripts
  Windows <- MCWindows
SPECIFICATION Spec
INVARIANT CreditedToItsOwn
INVARIANT TransportIsTrue
INVARIANT VerdictIsOwn
INVARIANT ReplayChangesNothing
INVARIANT EvidenceIsOwn
CHECK_DEADLOCK FALSE
