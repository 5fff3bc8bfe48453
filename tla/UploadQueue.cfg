SPECIFICATION Spec
CONSTANTS
  Handlers = {h1, h2}
  Workers = {w1}
  Urls = {u1}
  MAX_RETRY_COUNT = 1
  MaxItems = 1
  MaxDisconnects = 1
  MaxCrashes = 1
INVARIANTS
  OnePlace
  UploadedOnce
  CancelledNotStarted
PROPERTIES
  Drains
  KeepsPromise
