\* One run of at most four iterations, five settings.
SPECIFICATION Spec
CONSTANTS
  None = None
  Calls <- MCCalls
  Batches <- MCBatches
  Inputs <- MCInputs
  Blockers = {"denied"}
  Faults = {"limit", "failed"}
  ToolCap = 4
  Marks <- MCMarks
  Contexts = {0, 3}
  Cooldowns <- MCCooldowns
  ModelRetries = 1
  ParseRetries = 1
  FollowUps = 1
  CreateCap = 1
INVARIANTS
  TypeOK
  StuckRunsStop
  EffectsOnce
PROPERTIES
  Terminates
