SPECIFICATION Spec
CONSTANTS
  MaxDrives = 2
INVARIANTS
  ModeOfThisDrive
CHECK_DEADLOCK FALSE
