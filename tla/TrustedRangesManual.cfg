\* One process, one trusted range at a time, entries wiped and typed in by hand.
SPECIFICATION Spec
CONSTANTS
  r1 = r1
  r2 = r2
  p1 = p1
  p2 = p2
  Procs = {p1}
  Ranges = {r1, r2}
  Policies <- MCPolicies
  Broad = {}
  MaxEntries = 1
  Handoff = FALSE
PROPERTY
  ManualEntriesStay
