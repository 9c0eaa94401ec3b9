\* Sessions publish at any time; merges of every mode follow each other.
SPECIFICATION Spec
CONSTANTS
  m1 = m1
  m2 = m2
  i1 = i1
  Slis = {m1, m2}
  Values = {1, 2, 3}
  NoValue = NoValue
  Identities = {i1}
  NoIdentity = NoIdentity
  SummaryFiles <- SomeSummaries
  Absent <- NoBaseline
  PolicyFiles <- SomePolicies
INVARIANTS
  BaselineVouched
PROPERTIES
  MergeKeepsKnowledge
  ForceReplaceRebaselines
