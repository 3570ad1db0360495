SPECIFICATION FairSpec
CONSTANTS
  MaxFailures = 2
INVARIANTS FirstHandoffIsPaused SettingsSettled
PROPERTIES HandoffSettles DetectionResumes
CHECK_DEADLOCK FALSE
