\* Two loaders, a backfill, the labels and the attribution, all at once.
SPECIFICATION TablesSpec
CONSTANTS
  Null = Null
  Unknown = Unknown
  up = up
  down = down
  l1 = l1
  l2 = l2
  Labels <- TwoLabels
  Loaders <- TwoLoaders
  EntryBars <- Entering
  Legacy <- Retired
  MinTrain = 2
  Step = 2
  MinBars = 2
  Lookback = 5
  MaxBars = 7
  MaxLoads = 3
SYMMETRY Symmetry
INVARIANT CopiesBounded
PROPERTIES BackfillAgrees RevisionsAreRecent UnknownMeansUnlabelled
