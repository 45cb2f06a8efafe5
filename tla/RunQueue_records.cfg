\* Three runs over a queue of two slots and a store that keeps one record,
\* with one process death: every limit is reached and compaction happens.
SPECIFICATION Spec
CONSTANTS
  Runs = {r1, r2, r3}
  MaxInFlight = 2
  MaxPersisted = 1
  MaxAttempts = 2
  MaxCrashes = 1
  MaxCancels = 1
  SaveFails = {FALSE, TRUE}
  Drains = FALSE
SYMMETRY RunSymmetry
INVARIANTS
  TypeOK
  SlotsAccounted
  RecordsMatchOwners
  TrackerExact
  StreamVerdictIsStored
  CancelHonoured
PROPERTIES
  RefinesLifecycle
\* The system stops once every run is over and no crash is left.
CHECK_DEADLOCK FALSE
