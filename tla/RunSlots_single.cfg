\* The smallest limit the configuration accepts, and a second acquisition.
SPECIFICATION Spec
SYMMETRY CallerSymmetry
CONSTANTS
  Runs = {r1, r2, r3}
  Pools = {1, 2, 3, 4, 5, 6, 7, 8, 9, 10, 11}
  NoPool = 0
  EngineLimits = {1}
  InstanceLimits = {3}
  MaxEdits = 0
PROPERTIES
  LoneRunAdmitted
