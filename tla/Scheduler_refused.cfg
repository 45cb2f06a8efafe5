\* The run queue may be full when a job is due; nothing else goes wrong.
SPECIFICATION Spec
CONSTANTS
  OneShots = {once}
  Recurring = {every}
  DueAt = 1
  Period = 1
  CatchUp = TRUE
  SaveFails = {FALSE}
  QueueRefuses = {FALSE, TRUE}
  MaxTime = 2
  MaxCommands = 0
  MaxForeign = 0
  MaxReloads = 0
  MaxCrashes = 0
INVARIANTS
  StampedWasQueued
