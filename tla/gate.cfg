\* Every family of rules, on evidence that is there, skipped, partial or failed.
SPECIFICATION Spec
CONSTANTS
  m1 = m1
  m2 = m2
  i1 = i1
  i2 = i2
  Slis = {m1, m2}
  Values = {0, 1, 2}
  NoValue = NoValue
  Identities = {i1, i2}
  NoIdentity = NoIdentity
  PolicyFiles <- SmallPolicies
  MeasurementFiles <- SmallMeasurements
  BaselineFiles <- SmallBaselines
INVARIANTS
  PassIsProven
  FailIsProven
  ViolationNotMasked
  RefusalIsExplained
  PassIsNotWorse
CHECK_DEADLOCK FALSE
