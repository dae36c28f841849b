---------------------------- MODULE MCChartStream -----------------------------
(* Constants for model checking ChartStream.                                  *)
EXTENDS ChartStream

CONSTANTS EURUSD, GBPUSD, NotLive

BothSymbols == {EURUSD, GBPUSD}
==============================================================================
