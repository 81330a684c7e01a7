CONSTANTS
  Procs = {1, 2}
  Sessions = {"s1", "s2"}
  ProcOf <- MCProcOf
  Types <- MCTypes
  QueueSize = 1
  MaxRotations = 2
  MaxFailures = 1
  Keep = 2
SPECIFICATION Spec
INVARIANT SendIsSafe
INVARIANT OnceInOrder
INVARIANT GarbledByAnother
INVARIANT BatchIsSound
CHECK_DEADLOCK FALSE
