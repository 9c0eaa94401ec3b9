\* A wizard after another, with sessions and other terminals beside them.
SPECIFICATION Spec
CONSTANTS
  i1 = i1
  Slis <- AllSlis
  Values = {0, 1}
  NoValue = NoValue
  Identities = {i1}
  NoIdentity = NoIdentity
  SummaryFiles <- FewSummaries
  AuditFiles <- ManySummaries
  UserPolicies <- SomePolicies
  Unrecorded = Unrecorded
  p1 = p1
  p2 = p2
  Paths = {p1, p2}
  DefaultPath = p1
  NoPath = NoPath
  Flags = {p1, NoPath}
INVARIANTS
  DraftAgreesWithInit
  DraftWarnsRightly
PROPERTIES
  WizardOverwritesNothing
  WizardApprovesPass
  WizardEnds
