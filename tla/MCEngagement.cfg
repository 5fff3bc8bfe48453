SPECIFICATION Spec
CONSTANTS
  SoftDisableFrames = 3
  MismatchLimit = 3
  InitFrames = 1
  SafetyFrames = 2
  Inputs <- MCInputs
INVARIANTS
  SoftDisableBounded
  MismatchBounded
PROPERTIES
  NoEntryWhenUnhealthy
