\* A fetcher that does not remember that PreFetch failed.
SPECIFICATION SnapshotSpec
CONSTANTS
  Kinds = {"k8sobject"}
  Shared = FALSE
  MaxStarts = 3
  MaxEnds = 1
INVARIANT
  StartSampleIsPreWorkload
CHECK_DEADLOCK FALSE
