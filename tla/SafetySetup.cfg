SPECIFICATION Spec
CONSTANTS
  MaxDrives = 2
INVARIANTS
  QueriesAreMultiplexed
PROPERTIES
  RelayClosesWhenOff
  PandaGetsConfigured
  FirstDriveStarts
CHECK_DEADLOCK FALSE
