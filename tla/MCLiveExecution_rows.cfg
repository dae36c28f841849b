\* Overlapping runs and audits of one key, both sides of an asset, and the gate's limits.
SPECIFICATION Spec
CONSTANTS
  None = None
  Signals <- AllSignals
  Days <- AllDays
  Runs = {1, 2}
  Audits = {1, 2}
  Prices = {1, 2}
  MaxSignals = 4
  Correlated <- CorrelatedAssets
  HasHistory <- EnoughBars
  MaxFaults = 1
INVARIANTS FilledOncePerRow PendingIsExplained ExecutedIsReal
PROPERTY OutcomeFitsPrice
\* Every run and audit is over at the end.
CHECK_DEADLOCK FALSE
