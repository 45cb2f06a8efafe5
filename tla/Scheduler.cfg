\* A one-shot and a recurring job; a command, another Store, a crash, failing writes and reloads.
SPECIFICATION Spec
CONSTANTS
  OneShots = {once}
  Recurring = {every}
  DueAt = 1
  Period = 1
  CatchUp = FALSE
  SaveFails = {FALSE, TRUE}
  QueueRefuses = {FALSE}
  MaxTime = 2
  MaxCommands = 1
  MaxForeign = 1
  MaxReloads = 1
  MaxCrashes = 1
INVARIANTS
  TypeOK
  NoRepeat
  CommandsKept
PROPERTIES
  MissedStayMissed
  DueJobStarts
