\* Five bars, a holding limit of two, one pip of slippage and one of costs.
SPECIFICATION Spec
CONSTANTS
  Prices <- P
  Distances <- D
  Bars = 5
  MaxBarsHold = 2
  Slippage = 1
  Friction = 1
\* The curve is done at the end.
CHECK_DEADLOCK FALSE
INVARIANT PnlWithinBracket
