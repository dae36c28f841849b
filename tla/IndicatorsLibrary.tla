------------------------- MODULE IndicatorsLibrary -------------------------
(***************************************************************************)
(* The indicators of the dashboard's server                                *)
(* (src/layer5/services/indicators_library.py): for n bars, which bars the *)
(* number at each place of each list stands for. High, low, close and      *)
(* volume are one column here, and a weight or a sum is not told from      *)
(* another computed from the same bars. Parameters are valid: positive.    *)
(***************************************************************************)
EXTENDS BarSeries

CONSTANT MassPeriod   \* mi_period, 25 in the code

(***************************************************************************)
(* Moving averages                                                         *)
(***************************************************************************)
Sma(s, p) ==
  IF Len(s) < p THEN Nones(Len(s))
  ELSE Nones(p - 1) \o Each(p, Len(s), LAMBDA i : Span(s, i - p + 1, i))

(* Seeded with the mean of the first p, then recursive.                    *)
Ema(s, p) ==
  IF Len(s) < p THEN Nones(Len(s))
  ELSE Nones(p - 1) \o Each(p, Len(s), LAMBDA i : Span(s, 1, i))

Wma(s, p) ==
  IF Len(s) < p THEN Nones(Len(s))
  ELSE Nones(p - 1) \o Each(p, Len(s), LAMBDA i : Span(s, i - p + 1, i))

(* The numbers of each list that are there are counted from its own first. *)
Tema(s, p) ==
  LET e1 == Known(Ema(s, p))
      e2 == Known(Ema(e1, p))
      e3 == Known(Ema(e2, p))
      m  == Min({Len(e1), Len(e2), Len(e3)})
  IN  IF Len(s) < 3 * p THEN Nones(Len(s))
      ELSE Nones(Len(s) - m) \o Each(1, m, LAMBDA i : Joint({e1[i], e2[i], e3[i]}))

Dema(s, p) ==
  LET e1 == Known(Ema(s, p))
      e2 == Known(Ema(e1, p))
      m  == Min({Len(e1), Len(e2)})
  IN  IF Len(s) < 2 * p THEN Nones(Len(s))
      ELSE Nones(Len(s) - m) \o Each(1, m, LAMBDA i : Joint({e1[i], e2[i]}))

(***************************************************************************)
(* Momentum                                                                *)
(***************************************************************************)
(* The gain at place k is of bar k + 1.                                    *)
Rsi(n, p) ==
  LET gains == Changes(Column(n))
  IN  IF n < p + 1 THEN Nones(n)
      ELSE Nones(p) \o Each(p + 1, Len(gains), LAMBDA k : Span(gains, 1, k))

Macd(n, fast, slow, signal) ==
  LET c     == Column(n)
      macd  == Zip(Ema(c, fast), Ema(c, slow))
      known == Known(macd)
      sig   == Nones(Len(macd) - Len(known)) \o Ema(known, signal)
  IN  [macd |-> macd, signal |-> sig, histogram |-> Zip(macd, sig)]

RawK(n, p) == Nones(p - 1) \o Each(p, n, LAMBDA i : Span(Column(n), i - p + 1, i))

Stochastic(n, p, smoothK, smoothD) ==
  LET raw == RawK(n, p)
      k   == IF smoothK > 1 THEN Nones(p - 1) \o Sma(Known(raw), smoothK) ELSE raw
  IN  IF n < p THEN [k |-> Nones(n), d |-> Nones(n)]
      ELSE [k |-> k, d |-> Nones(p - 1) \o Sma(Known(k), smoothD)]

Roc(n, p) ==
  LET c == Column(n)
  IN  IF n < p + 1 THEN Nones(n)
      ELSE Nones(p) \o Each(p + 1, n,
             LAMBDA i : [of |-> {i}, on |-> {i, i - p}])

Cci(n, p) ==
  LET tp == Column(n)
      tpSma == Sma(tp, p)
  IN  IF n < p THEN Nones(n)
      ELSE Nones(p - 1) \o
           Each(p, n, LAMBDA i : Joint({Span(tp, i - p + 1, i), tpSma[i]}))

WilliamsR(n, p) ==
  LET c == Column(n)
  IN  IF n < p THEN Nones(n)
      ELSE Nones(p - 1) \o Each(p, n, LAMBDA i : Span(c, i - p + 1, i))

(***************************************************************************)
(* Trend                                                                   *)
(***************************************************************************)
DirectionalIndex(n, p) ==
  LET moves == <<Column(n)[1]>> \o Changes(Column(n))
  IN  Nones(p) \o Each(p + 1, n, LAMBDA i : Span(moves, 1, i))

(* The first adx stands at place 2p whatever n is, so that the list is too *)
(* long for a series with the directional indices but not yet an adx.      *)
Adx(n, p) ==
  LET di  == DirectionalIndex(n, p)
      dx  == Known(di)
      adx == Nones(2 * p - 1) \o
             IF Len(dx) >= p THEN Each(p, Len(dx), LAMBDA i : Span(dx, 1, i)) ELSE <<>>
  IN  IF n < p + 1 THEN [plus_di |-> Nones(n), minus_di |-> Nones(n), adx |-> Nones(n)]
      ELSE [plus_di |-> di, minus_di |-> di, adx |-> adx]

Ribbon(n, p, q) == [ema_p |-> Ema(Column(n), p), ema_q |-> Ema(Column(n), q)]

(***************************************************************************)
(* Volatility                                                              *)
(***************************************************************************)
Bollinger(n, p) ==
  LET c    == Column(n)
      sma  == Sma(c, p)
      band == Each(1, n, LAMBDA i : IF i < p THEN None
                                    ELSE Joint({sma[i], Span(c, i - p + 1, i)}))
  IN  [upper |-> band, middle |-> sma, lower |-> band]

\* Mutant: the first average, of bar p + 1, is not appended.
AtrWithoutFirst(n, p) ==
  LET ranges == Changes(Column(n))
  IN  IF Len(ranges) < p THEN Nones(n)
      ELSE Nones(p) \o Each(p + 1, Len(ranges), LAMBDA k : Span(ranges, 1, k))

Atr(n, p) ==
  LET ranges == Changes(Column(n))
  IN  IF Len(ranges) < p THEN Nones(n)
      ELSE Nones(p) \o Each(p, Len(ranges), LAMBDA k : Span(ranges, 1, k))

Keltner(n, p) ==
  LET middle == Ema(Column(n), p)
      band   == Zip(middle, Atr(n, p))
  IN  [upper |-> band, middle |-> middle, lower |-> band]

Natr(n, p) == Zip(Atr(n, p), Column(n))

(* The first volatility there could be, of bar p + 1, is left out.         *)
HistoricalVolatility(n, p) ==
  LET returns == Changes(Column(n))
  IN  IF n < p + 1 THEN Nones(n)
      ELSE <<None>> \o Nones(p) \o
           Each(p + 1, Len(returns), LAMBDA k : Span(returns, k - p + 1, k))

(***************************************************************************)
(* Volume, on a feed whose first dry bars have none                        *)
(***************************************************************************)
Obv(n) == Each(1, n, LAMBDA i : Span(Column(n), 1, i))

Vwap(n, dry) ==
  Each(1, n, LAMBDA i : IF i <= dry THEN None ELSE Span(Column(n), 1, i))

VolumeRoc(n, p) == Roc(n, p)

AccumulationDistribution(n) == Each(1, n, LAMBDA i : Span(Column(n), 1, i))

Mfi(n, p) ==
  LET flows == Changes(Column(n))
  IN  IF n < p + 1 THEN Nones(n)
      ELSE Nones(p) \o Each(p, Len(flows), LAMBDA k : Span(flows, k - p + 1, k))

(***************************************************************************)
(* Strength of a trend                                                     *)
(***************************************************************************)
Qstick(n, p) == Sma(Column(n), p)

Vhf(n, p) ==
  LET c == Column(n)
  IN  IF n < p THEN Nones(n)
      ELSE Nones(p - 1) \o Each(p, n, LAMBDA i : Span(c, i - p + 1, i))

MassIndex(n, p) ==
  LET e1     == Known(Ema(Column(n), p))
      e2     == Known(Ema(e1, p))
      ratios == Zip(e1, e2)
      m      == MassPeriod
  IN  IF Len(ratios) < m THEN Nones(n)
      ELSE Nones(n - Len(ratios) + m - 1) \o
           Each(m, Len(ratios), LAMBDA i : Span(ratios, i - m + 1, i))

(***************************************************************************)
(* calculate_indicator: one list, or several under their names             *)
(***************************************************************************)
One(s) == [values |-> s]

Registry ==
  {"rsi", "macd", "stochastic", "roc", "cci", "williams_r",
   "sma", "ema", "wma", "tema", "dema", "adx", "ma_ribbon",
   "bollinger_bands", "atr", "keltner_channel", "natr", "historical_volatility",
   "obv", "vwap", "volume_roc", "accumulation_distribution", "mfi",
   "qstick", "vhf", "mass_index"}

(* r is the request: the indicator, its period p and, where it has more    *)
(* parameters, the smaller one q.                                          *)
Calculate(r, n) ==
  LET c == Column(n)
      p == r.p
      q == r.q
  IN  CASE r.indicator = "rsi"        -> One(Rsi(n, p))
        [] r.indicator = "macd"       -> Macd(n, q, p, q)
        [] r.indicator = "stochastic" -> Stochastic(n, p, q, q)
        [] r.indicator = "roc"        -> One(Roc(n, p))
        [] r.indicator = "cci"        -> One(Cci(n, p))
        [] r.indicator = "williams_r" -> One(WilliamsR(n, p))
        [] r.indicator = "sma"        -> One(Sma(c, p))
        [] r.indicator = "ema"        -> One(Ema(c, p))
        [] r.indicator = "wma"        -> One(Wma(c, p))
        [] r.indicator = "tema"       -> One(Tema(c, p))
        [] r.indicator = "dema"       -> One(Dema(c, p))
        [] r.indicator = "adx"        -> Adx(n, p)
        [] r.indicator = "ma_ribbon"  -> Ribbon(n, q, p)
        [] r.indicator = "bollinger_bands" -> Bollinger(n, p)
        [] r.indicator = "atr"        -> One(Atr(n, p))
        [] r.indicator = "keltner_channel" -> Keltner(n, p)
        [] r.indicator = "natr"       -> One(Natr(n, p))
        [] r.indicator = "historical_volatility" -> One(HistoricalVolatility(n, p))
        [] r.indicator = "obv"        -> One(Obv(n))
        [] r.indicator = "vwap"       -> One(Vwap(n, q))
        [] r.indicator = "volume_roc" -> One(VolumeRoc(n, p))
        [] r.indicator = "accumulation_distribution" -> One(AccumulationDistribution(n))
        [] r.indicator = "mfi"        -> One(Mfi(n, p))
        [] r.indicator = "qstick"     -> One(Qstick(n, p))
        [] r.indicator = "vhf"        -> One(Vhf(n, p))
        [] r.indicator = "mass_index" -> One(MassIndex(n, p))
=============================================================================
