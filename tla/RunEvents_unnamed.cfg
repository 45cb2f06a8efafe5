\* One run, queued without the instance that the engine resolves.
SPECIFICATION Spec
CONSTANTS
  Runs = {r1}
  Unnamed = {r1}
  Clients = {c1}
  MaxProgress = 1
  MaxConnects = 2
  ReplayLimit = 2
  Buffer = 1
  MaxRuns = 3
INVARIANTS
  EndsWithVerdict
\* All runs over and no connection left: nothing remains to happen.
CHECK_DEADLOCK FALSE
