\* Two threads of one process and a second process, with kills, write errors and retries.
SPECIFICATION FairSpec
CONSTANTS
  None = None
  p1 = p1
  p2 = p2
  p3 = p3
  i1 = i1
  i2 = i2
  a = a
  b = b
  bad = bad
  raw = raw
  Keys <- AllKeys
  Malformed = {raw}
  Invalid = {bad}
  Producers <- ThreeProducers
  Instances <- TwoInstances
  Backend <- ThreadsAndProcess
  Batch <- Batches
  MaxQueue = 1
  MaxRetries = 1
  MaxCalls <- Calls
  MaxFaults = 1
PROPERTY CallsReturn
INVARIANTS NothingDropped DuplicatesBounded OverflowBounded
\* Every producer has made its calls at the end.
CHECK_DEADLOCK FALSE
