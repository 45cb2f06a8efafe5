\* Three callers, limits of two or more and one edit.
SPECIFICATION Spec
SYMMETRY CallerSymmetry
CONSTANTS
  Runs = {r1, r2, r3}
  Pools = {1, 2, 3, 4, 5, 6, 7, 8, 9, 10, 11}
  NoPool = 0
  EngineLimits = {2, 3}
  InstanceLimits = {0, 3}
  MaxEdits = 1
INVARIANTS
  TypeOK
  SlotsBalanced
  ExecutionsWithinLimit
