\* Three runs, two slots and a shutdown that waits for the queue.
SPECIFICATION Spec
CONSTANTS
  Runs = {r1, r2, r3}
  MaxInFlight = 2
  MaxPersisted = 1
  MaxAttempts = 2
  MaxCrashes = 0
  MaxCancels = 0
  SaveFails = {FALSE}
  Drains = TRUE
INVARIANTS
  DrainCoversEarlierRuns
\* The system stops once every run is over.
CHECK_DEADLOCK FALSE
