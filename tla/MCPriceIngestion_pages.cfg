\* Two runs that may overlap, up to two faults or pages out of order, an incomplete last bar.
SPECIFICATION IngestSpec
CONSTANTS
  Runs = {1, 2}
  Market <- Open
  Chunk = 4
  MaxClock = 7
  MaxFaults = 2
INVARIANT GapsExplained
\* Every run is over at the end.
CHECK_DEADLOCK FALSE
