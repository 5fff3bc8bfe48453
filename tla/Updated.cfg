SPECIFICATION Spec
CONSTANTS
  Branches = {"release", "devel"}
  Installed = "release"
  None = "None"
  AgnosRelease = 1
  MaxReleases = 1
  MaxFailures = 1
  MaxStops = 2
  MaxRequests = 1
INVARIANTS ConsistentIsReady NothingLost AnnouncedIsInstallable
CHECK_DEADLOCK FALSE
PROPERTIES RequestIsServed Delivered
