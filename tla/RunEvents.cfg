\* Two named runs share a bus of three states; a client comes up to twice.
SPECIFICATION Spec
CONSTANTS
  Runs = {r1, r2}
  Unnamed = {}
  Clients = {c1}
  MaxProgress = 1
  MaxConnects = 2
  ReplayLimit = 2
  Buffer = 1
  MaxRuns = 3
INVARIANTS
  TypeOK
  EndsWithVerdict
  NewestPending
PROPERTIES
  NeverBackwards
  EveryStreamEnds
\* All runs over and no connection left: nothing remains to happen.
CHECK_DEADLOCK FALSE
