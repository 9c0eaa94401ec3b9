\* Two processes share an ArtifactsDir, with names of their own.
SPECIFICATION FairSpec
CONSTANTS
  w1 = w1
  w2 = w2
  n1 = n1
  n2 = n2
  Workers = {w1, w2}
  Names = {n1, n2}
  NamesOf <- OwnNames
  MaxRuns = 3
INVARIANTS
  AuditedAlias
  AliasOfPublishedRun
PROPERTIES
  AuditTrailPreserved
  EndReturns
CHECK_DEADLOCK FALSE
