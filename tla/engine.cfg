\* Every kind of SLI on every pair of small samples, alone and in pairs.
SPECIFICATION Spec
CONSTANTS
  Keys <- MCKeys
  Canonical <- MCCanonical
  Family <- MCFamily
  Percentile <- MCPercentile
  NoTrust = NoTrust
  NoIdentity = NoIdentity
  NoSummary = NoSummary
  Requests <- MCRequests
  PointOutcomes <- MCPointOutcomes
  WindowOutcomes <- MCWindowOutcomes
  SessionConfigs <- MCSessionConfigs
INVARIANTS
  DeltaIsOfOneSeries
  GateGradesMeasured
  StrictSessionDelivers
  TrustedIsComparable
  SameContractSameValue
  ConfidenceIsEarned
CHECK_DEADLOCK FALSE
