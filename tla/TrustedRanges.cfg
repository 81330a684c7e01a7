\* One process after the other, one trusted range at a time.
SPECIFICATION Spec
CONSTANTS
  r1 = r1
  r2 = r2
  p1 = p1
  p2 = p2
  Procs = {p1}
  Ranges = {r1, r2}
  Policies <- MCPolicies
  Broad = {}
  MaxEntries = 1
  Handoff = FALSE
INVARIANTS
  EmptyIsPublished
  NothingStranded
PROPERTIES
  FileInStep
  OnlyOwnRemoved
