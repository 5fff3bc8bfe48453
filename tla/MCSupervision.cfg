SPECIFICATION Spec
CONSTANTS
  Order <- MCOrder
  Onroad = {"calibrationd"}
  View = {"dmonitoringd"}
  RestartIfCrash = {"ui"}
  CycleFrames = 3
  PublishFrames = 2
  JoinFrames = 4
  Temps = {70, 90, 108}
  MaxEdges = 3
  MaxRequests = 1
  MaxCrashes = 1
CHECK_DEADLOCK FALSE
INVARIANTS AtRest EverythingIsDead
PROPERTIES StartsCool CycleRestarts
