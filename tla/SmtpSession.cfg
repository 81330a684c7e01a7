\* Four lines, such as a message and then an upgrade; the observer holds two commands.
SPECIFICATION Spec
CONSTANTS
  MaxLines = 4
  MaxCommands = 2
  Early = TRUE
INVARIANTS
  RepliesPaired
  ReportIsTrue
  UpgradeIsSeen
CHECK_DEADLOCK FALSE
