-------------------------- MODULE ClientIndicators --------------------------
(***************************************************************************)
(* The indicators the dashboard's browser computes itself                  *)
(* (src/layer5/frontend/src/utils/indicatorCalculations.ts), in the terms  *)
(* of BarSeries. A NaN is None.                                            *)
(***************************************************************************)
EXTENDS BarSeries

(* A result with an error has no lists to draw.                            *)
Refused == [f \in {} |-> <<>>]

Usable(n, p) == 0 < p /\ p <= n

One(s) == [values |-> s]

(***************************************************************************)
(* Moving averages                                                         *)
(***************************************************************************)
(* One number for each full window of p bars.                              *)
Windowed(n, p) == Nones(p - 1) \o Each(p, n, LAMBDA i : Span(Column(n), i - p + 1, i))

CalculateSMA(n, p) == IF ~Usable(n, p) THEN Refused ELSE One(Windowed(n, p))

CalculateEMA(n, p) ==
  IF ~Usable(n, p) THEN Refused
  ELSE One(Nones(p - 1) \o Each(p, n, LAMBDA i : Span(Column(n), 1, i)))

CalculateWMA(n, p) == IF ~Usable(n, p) THEN Refused ELSE One(Windowed(n, p))

(***************************************************************************)
(* Momentum                                                                *)
(***************************************************************************)
(* The first value comes after one null too many, and the change it pushes *)
(* from its place is skipped: the list is back in step, without it. With   *)
(* as many bars as the period the first is a NaN.                          *)
CalculateRSI(n, p) ==
  LET changes == Changes(Column(n))
      first   == IF p <= Len(changes) THEN Span(changes, 1, p) ELSE None
      Smoothed(k) == [of |-> changes[k].of,
                      on |-> UNION {changes[j].on : j \in (1..k) \ {p + 1}}]
  IN  IF ~Usable(n, p) THEN Refused
      ELSE One(Nones(p + 1) \o <<first>> \o Each(p + 2, Len(changes), Smoothed))

CalculateStochastic(n, kPeriod, dPeriod) ==
  LET k == Windowed(n, kPeriod)
      d == Each(1, n, LAMBDA i : IF i < kPeriod + dPeriod - 1 THEN None
                                 ELSE Span(k, i - dPeriod + 1, i))
  IN  IF ~Usable(n, kPeriod) THEN Refused ELSE [k |-> k, d |-> d]

(* The averages of a period longer than the series come without values,    *)
(* and what is computed from a missing element is NaN.                     *)
CalculateMACD(n, fast, slow, signal) ==
  LET Average(p) == IF Usable(n, p) THEN CalculateEMA(n, p).values ELSE Nones(n)
      macd  == Zip(Average(fast), Average(slow))
      start == slow
      line  == Each(1, n, LAMBDA i : IF i < start + signal - 1 THEN None
                                     ELSE Span(macd, start, i))
  IN  IF slow <= fast THEN Refused
      ELSE [macd |-> macd, signal |-> line, histogram |-> Zip(macd, line)]

(***************************************************************************)
(* Trend                                                                   *)
(***************************************************************************)
(* The directional indices start at place 2 whatever the period. The       *)
(* average of them counts those that are missing as 0 and, from place      *)
(* 2p + 1 on, takes in the index before the one it stands beside.          *)
CalculateADX(n, p) ==
  LET changes == Changes(Column(n))
      di == <<None>> \o (IF n = p THEN <<None>>
                         ELSE Each(p, n - 1, LAMBDA k : Span(changes, 1, k)))
      There(a, b) == {di[i] : i \in (a..b) \cap (1..Len(di))} \ {None}
      Smoothed(i) == Joint(There(2, p + 1) \cup There(p + 1, i - p))
      adx == Each(1, IF n > 2 * p THEN n ELSE 2 * p,
                  LAMBDA i : IF i < 2 * p THEN None ELSE Smoothed(i))
  IN  IF ~Usable(n, p) THEN Refused
      ELSE [adx |-> adx, plus_di |-> di, minus_di |-> di]

(***************************************************************************)
(* Volatility and volume                                                   *)
(***************************************************************************)
CalculateBollingerBands(n, p) ==
  LET band == Windowed(n, p)
  IN  IF ~Usable(n, p) THEN Refused
      ELSE [middle |-> band, upper |-> band, lower |-> band]

CalculateATR(n, p) ==
  LET ranges == <<Column(n)[1]>> \o Changes(Column(n))
  IN  IF ~Usable(n, p) THEN Refused
      ELSE One(Nones(p - 1) \o Each(p, n, LAMBDA i : Span(ranges, 1, i)))

(* Summed anew from the first bar of a day, of which there are q bars.     *)
CalculateVWAP(n, q) ==
  One(Each(1, n, LAMBDA i : Span(Column(n), i - ((i - 1) % q), i)))

CalculateOBV(n) == One(Each(1, n, LAMBDA i : Span(Column(n), 1, i)))

(***************************************************************************)
(* The dispatcher. An unknown indicator is an error.                       *)
(***************************************************************************)
CalculateIndicator(r, n) ==
  LET p == r.p
      q == r.q
  IN  CASE r.indicator = "sma"        -> CalculateSMA(n, p)
        [] r.indicator = "ema"        -> CalculateEMA(n, p)
        [] r.indicator = "wma"        -> CalculateWMA(n, p)
        [] r.indicator = "rsi"        -> CalculateRSI(n, p)
        [] r.indicator = "macd"       -> CalculateMACD(n, q, p, q)
        [] r.indicator = "bollinger"  -> CalculateBollingerBands(n, p)
        [] r.indicator = "atr"        -> CalculateATR(n, p)
        [] r.indicator = "stochastic" -> CalculateStochastic(n, p, q)
        [] r.indicator = "adx"        -> CalculateADX(n, p)
        [] r.indicator = "vwap"       -> CalculateVWAP(n, q)
        [] r.indicator = "obv"        -> CalculateOBV(n)
        [] OTHER                      -> Refused
=============================================================================
