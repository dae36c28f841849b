\* Short windows, ten bars, and of the cached request the last bar comes
\* while its answers are kept, for one unit of time.
SPECIFICATION ServiceSpec
CONSTANTS
  None = None
  t1 = t1
  t2 = t2
  MassPeriod = 2
  SqueezeWindow = 3
  RecentWindow = 2
  SwingLookback = 2
  SmoothWindow = 2
  AdxWarmup = 5
  MinTrain = 2
  Step = 2
  MinBars = 2
  Clusters = 3
  Sizes <- MCSizes
  Requests <- MCRequests
  Charted <- MCCharted
  Threads = {t1, t2}
  Ttl = 1
  Handling = 1
  MaxBars = 10
  MaxNew = 1
  MaxClock = 3
  Spanned = 2
  MaxSlid = 1
  MaxBetween = 1
SYMMETRY MCSymmetry
INVARIANTS InStep FreshWithinTTL JudgedOnUnseen
PROPERTY NeverRepaints
\* A series whose bars have all come has nothing left to do.
CHECK_DEADLOCK FALSE
