\* Two processes, a route for one connection and one without a limit, a budget of
\* two, a handoff that drains twice as long as a termination.
SPECIFICATION FairSpec
CONSTANTS
  limited = limited
  free = free
  c1 = c1
  c2 = c2
  c3 = c3
  Procs = {p1, p2}
  Routes = {limited, free}
  Conns = {c1, c2, c3}
  MaxConns = 2
  RouteOf <- MCRouteOf
  MaxOf <- MCMaxOf
  DrainTimeout = 2
  Grace = 1
INVARIANTS
  SlotsAreHeld
  CapacityHeld
  DrainIsHonoured
PROPERTIES
  NoGap
  DepartingExits
