SPECIFICATION Spec
CONSTANTS
  Ssids = {"a", "b"}
  NoSsid = "none"
  Saved = {"a", "b"}
  Workers = {1, 2}
  MaxChoices = 1
  MaxOthers = 1
  MaxFailures = 1
INVARIANTS QuietAgrees ConnectedIsSaved NoFalseWrongPassword
CHECK_DEADLOCK FALSE
PROPERTY KeepsTheAttempt
