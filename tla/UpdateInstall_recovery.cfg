SPECIFICATION FairSpec
CONSTANTS
  Launchers = {l1, l2}
  Helpers = {h1, h2}
  Stages = {s1}
  Versions = {0, 1}
  None = None
  Bad = Bad
  MaxFaults = 2
  MaxDamage = 2
  PatientUser = TRUE
PROPERTIES RestoreIsComplete RecoveryCompletes HelpersEnd
CHECK_DEADLOCK FALSE
