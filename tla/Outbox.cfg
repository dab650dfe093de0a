SPECIFICATION Spec
CONSTANTS
  Events = 2
  Detections = 2
  MaxEvents = 1
  Batch = 2
INVARIANTS StoredInOrder HistoryShowsPhoto
PROPERTIES PromiseSpec PendingSettled
CHECK_DEADLOCK FALSE
