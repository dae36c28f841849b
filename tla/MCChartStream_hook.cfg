\* Two symbols, two attempts, and two sockets that something still refers to.
SPECIFICATION FairHookSpec
CONSTANTS
  EURUSD = EURUSD
  GBPUSD = GBPUSD
  NotLive = NotLive
  Views <- BothSymbols
  Off = NotLive
  MaxAttempts = 2
  Sockets = 2
INVARIANT OneLiveSocket
PROPERTY KeepsTrying
\* A chart that has gone away leaves nothing to do.
CHECK_DEADLOCK FALSE
