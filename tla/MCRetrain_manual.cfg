\* One orchestrator run and the serializer command line, in different seconds.
SPECIFICATION Spec
CONSTANTS
  None = None
  Torn = Torn
  Orphan = Orphan
  r1 = r1
  r2 = r2
  o1 = o1
  Runs <- OneRun
  Operators <- OneOperator
  Procs <- RunAndOperator
  Candidates <- OneCandidate
  Retain = 2
  Cooldown = 2
  MaxClock = 4
  SameSecond = FALSE
  MayCrash = FALSE
INVARIANTS RecentLivePresent GatedBundleSound
\* The horizon MaxClock ends every behaviour.
CHECK_DEADLOCK FALSE
