\* Two runs with failing writes, cancels under way and a death of the process:
\* whatever comes between its steps, a carrier gets to its end.
SPECIFICATION Spec
CONSTANTS
  Runs = {r1, r2}
  MaxInFlight = 2
  MaxPersisted = 1
  MaxAttempts = 2
  MaxCrashes = 1
  MaxCancels = 1
  SaveFails = {FALSE, TRUE}
  Drains = FALSE
PROPERTIES
  EveryRunSettles
\* The system stops once every run is over.
CHECK_DEADLOCK FALSE
