--------------------------- MODULE MCStreamService ----------------------------
(* Constants for model checking StreamService.                               *)
EXTENDS StreamService, TLC

CONSTANTS c1, c2, h1, eur, usd, eurM1, eurM5, usdM1

TwoAndChart  == {c1, c2, h1}
OneChart     == {h1}
TwoSymbols   == {eur, usd}
ThreeKeys    == {eurM1, eurM5, usdM1}
KeySymbols   == (eurM1 :> eur) @@ (eurM5 :> eur) @@ (usdM1 :> usd)
MinuteKeys   == (eur :> eurM1) @@ (usd :> usdM1)
ChartSymbols == (h1 :> usd)
==============================================================================
