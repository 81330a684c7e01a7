CONSTANTS
  Runs = {1, 2}
  Listeners = {1, 2}
  MaxRetries = 1
SPECIFICATION RunsSpec
INVARIANT ReportedMeansStored
INVARIANT ManifestIsBacked
INVARIANT UploadWithholdsNothing
PROPERTY RunEnds
CHECK_DEADLOCK FALSE
