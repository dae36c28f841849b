\* Two orchestrator runs with kills, restarts and stale locks; publish only under the lock.
SPECIFICATION FairSpec
CONSTANTS
  None = None
  Torn = Torn
  Orphan = Orphan
  r1 = r1
  r2 = r2
  o1 = o1
  Runs <- TwoRuns
  Operators = {}
  Procs <- TwoRuns
  Candidates <- GateCandidates
  Retain = 2
  Cooldown = 2
  MaxClock = 3
  SameSecond = TRUE
  MayCrash = TRUE
INVARIANTS SingleFlight LiveBundleComplete LiveBundleVetted StateBehindPointer
  NoLockLeftBehind
PROPERTIES PointerMovesForward ImplementsCatalog EveryRunReturns
\* The horizon MaxClock ends every behaviour.
CHECK_DEADLOCK FALSE
