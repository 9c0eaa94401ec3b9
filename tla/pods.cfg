\* Two sessions measure, clean up and sweep at once.
SPECIFICATION FairSpec
CONSTANTS
  s1 = s1
  s2 = s2
  Sessions = {s1, s2}
  LabelOf <- RunIds
  ModeOf <- Modes
  WaitTimeout = 1
  LogsTimeout = 1
  Slack = 1
  MaxAge = 4
  Limit = 1
  MaxPods = 2
INVARIANTS
  LivePodSpared
  LeakIsExcused
  OutputOfSucceededPod
PROPERTY
  RunReturns
