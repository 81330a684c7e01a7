\* A byte up, two down, a receiver that holds one, deadlines two ticks ahead.
SPECIFICATION FairSpec
CONSTANTS
  MaxSent <- MCMaxSent
  Window = 1
  IdleTimeout = 2
INVARIANTS
  DeliveredInOrder
  CutsHaveACause
PROPERTIES
  CleanEndLeavesOther
  ErrorUnblocksOther
  RelayEnds
CHECK_DEADLOCK FALSE
