\* Two pairs, a queue and a table of one, every fault.  The serving process has
\* two handlers and a worker, the draining one has one of each.
SPECIFICATION FairSpec
CONSTANTS
  new = new
  old = old
  h1 = h1
  h2 = h2
  h3 = h3
  w1 = w1
  w2 = w2
  Pairs = {x1, x2}
  Procs = {new, old}
  Handlers = {h1, h2, h3}
  Workers = {w1, w2}
  ProcOf <- MCProcOf
  QueueSize = 1
  Retained = 1
  Faults = {"store", "send", "exit"}
INVARIANTS
  PendingIsWork
  RecordedWasSent
PROPERTIES
  SettledStaysQuiet
  PendingIsReleased
