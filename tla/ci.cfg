\* Jobs one after another in one workspace, after runs that publish or do not.
SPECIFICATION Spec
CONSTANTS
  m1 = m1
  i1 = i1
  Slis = {m1}
  Values = {0, 1}
  NoValue = NoValue
  Identities = {i1}
  NoIdentity = NoIdentity
  PolicyFiles <- SomePolicies
  MeasurementFiles <- SomeSummaries
  BaselineFiles <- NoBaseline
  NoSummary <- Missing
  Spellings <- SomeWords
  Requests <- SomeRequests
  MaxRuns = 2
INVARIANTS
  GreenIsEarned
  GreenIsOfNewestRun
  OutputIsOfThisJob
  RedIsExplained
  DiagnosticsSurvive
PROPERTIES
  JobEnds
