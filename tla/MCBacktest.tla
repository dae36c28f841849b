----------------------------- MODULE MCBacktest -----------------------------
(* Bars on four prices, a holding limit of two bars, one bracket.           *)
EXTENDS Backtest
P == 1..4
D == {<<2, 2>>}
=============================================================================
