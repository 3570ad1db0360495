SPECIFICATION Spec
CONSTANTS
  Launchers = {l1, l2}
  Helpers = {h1, h2}
  Stages = {s1, s2}
  Versions = {0, 1}
  None = None
  Bad = Bad
  MaxFaults = 2
  MaxDamage = 0
  PatientUser = FALSE
SYMMETRY Symmetric
INVARIANTS PairSafety BackupsRetained
PROPERTIES NoInstallWhileInjected UpdateIsAtomic
