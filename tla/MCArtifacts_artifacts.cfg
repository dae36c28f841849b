\* Two trainings, dry or not, that may overlap, over earlier bundles or none;
\* two attributions and two vettings of them at once, one of which may be cut
\* short. The floor of the shares is a quarter, so that three cells reach it.
SPECIFICATION MCSpec
CONSTANTS
  None = None
  Earlier = Earlier
  Missing = Missing
  Trainers = {t1, t2}
  Sizes = {299, 300, 420}
  MaxFaults = 2
  Attributors = {a1, a2}
  Vetters = {v1, v2}
  NMin = 20
  Tables <- MCTables
  Odds <- MCOdds
  Regimes <- MCRegimes
  Seats = 4
  MaxRuns = 2
  MaxEnds = 1
SYMMETRY TrainerSymmetry
INVARIANTS HashesTellTorn BundleIsEarned AllocationSound
\* Every training is over at the end.
CHECK_DEADLOCK FALSE
