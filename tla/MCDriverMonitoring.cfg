SPECIFICATION Spec
CONSTANTS
  Inputs <- MCInputs
  Unit = 5
  Floor <- MCFloor
  Step <- MCStep
  Alert1 <- MCAlert1
  Alert2 <- MCAlert2
  FallbackFrames = 1
  NoResponseFrames = 1
  MAX_ALERT_3 = 2
  MAX_NO_RESPONSE = 1
  LOCKOUT_TIMES <- MCTimes
  MaxAway = 6
  MaxRestarts = 1
INVARIANT InattentionBounded
PROPERTIES
  RedStays
  NoRedWhenDisengaged
  LockoutServed
  TooDistractedEnds
