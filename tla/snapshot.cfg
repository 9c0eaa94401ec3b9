\* Each session has a fetcher of its own, of a kind that remembers startErr.
SPECIFICATION SnapshotSpec
CONSTANTS
  Kinds = {"curlpod", "portforward", "jsonendpoint"}
  Shared = FALSE
  MaxStarts = 4
  MaxEnds = 2
INVARIANTS
  StartSampleIsOfSession
  EndSampleIsLive
CHECK_DEADLOCK FALSE
