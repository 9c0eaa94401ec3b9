\* One process runs its tests one after another.
SPECIFICATION Spec
CONSTANTS
  w1 = w1
  w2 = w2
  n1 = n1
  n2 = n2
  Workers = {w1}
  Names = {n1, n2}
  NamesOf <- SoloNames
  MaxRuns = 3
PROPERTY
  EvidenceIsCurrent
CHECK_DEADLOCK FALSE
