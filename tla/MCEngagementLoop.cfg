SPECIFICATION LoopSpec
CONSTANTS
  SoftDisableFrames = 2
  MismatchLimit = 2
  InitFrames = 1
  SafetyFrames = 1
  Inputs <- MCInputs
PROPERTIES
  CancelReleases
  DeadSelfdrivedBlocked
  DisagreementEnds
  UnhealthyReleases
