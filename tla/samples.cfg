\* Two scrapes, or a range, of an exporter that counts, registers and restarts.
SPECIFICATION Spec
CONSTANTS
  Keys <- MCKeys
  Canonical <- MCCanonical
  Family <- MCFamily
  Percentile <- MCPercentile
  Series <- MCSeries
  Inputs <- MCInputs
  LabelOrders <- MCLabelOrders
  Queried = "req"
  Expression = "rate"
  MaxTime = 4
  MaxStored = 2
INVARIANTS
  TypeOK
  DeltaCountsEvents
  SelectorsSeeSeries
  WindowIsStored
CHECK_DEADLOCK FALSE
