------------------------- MODULE ResearchIndicators -------------------------
(***************************************************************************)
(* The series of the research layers on n bars of one instrument, in the   *)
(* terms of BarSeries: the indicators of                                   *)
(* src/layer0/data_access/indicators.py, the features of                   *)
(* src/system1/features, and the alignment of a slower timeframe to a      *)
(* faster one in src/layer0/core_engine/multi_timeframe.py. All have one   *)
(* place per bar. Whether a comparison with a missing number holds is the  *)
(* business of the strategies.                                             *)
(***************************************************************************)
EXTENDS BarSeries

Pick(n, Op(_)) == Each(1, n, Op)

(***************************************************************************)
(* pandas                                                                  *)
(***************************************************************************)
(* rolling(w): nothing until there are w numbers.                          *)
Rolling(s, w) == Pick(Len(s), LAMBDA i : IF i < w THEN None ELSE Span(s, i - w + 1, i))

(* rolling(w, center=True): nothing where the window goes past an end.     *)
Centred(s, w) ==
  LET ahead == (w - 1) \div 2
      Window(i) == (i + ahead - w + 1)..(i + ahead)
  IN  Pick(Len(s), LAMBDA i :
        IF Window(i) \subseteq 1..Len(s)
        THEN [of |-> s[i].of, on |-> UNION {s[j].on : j \in Window(i)}]
        ELSE None)

(* ewm(adjust=False): recursive from the first number that is there.       *)
Ewm(s) ==
  LET there == {i \in 1..Len(s) : s[i] # None}
  IN  Pick(Len(s), LAMBDA i : IF there \cap (1..i) = {} THEN None
                              ELSE Span(s, Min(there), i))

(* shift(k): what the list said k bars before.                             *)
Before(s, k) == Pick(Len(s), LAMBDA i : IF i <= k THEN None ELSE s[i - k])

(* iloc[:k] = nan                                                          *)
Blank(s, k) == Pick(Len(s), LAMBDA i : IF i <= k THEN None ELSE s[i])

Diff(n) == <<None>> \o Changes(Column(n))

(***************************************************************************)
(* The ta library: where it cannot tell yet, it has no number or, for ATR  *)
(* and ADX, a zero. Such a zero is of no bar; 0 among the bars a number    *)
(* rests on marks that it rests on one.                                    *)
(***************************************************************************)
Zero == [of |-> {}, on |-> {0}]

Zeros(s, k) == Pick(Len(s), LAMBDA i : IF i <= k THEN Zero ELSE s[i])

TaEma(n, w)  == Blank(Ewm(Column(n)), w - 1)
TaRsi(n, w)  == Blank(Ewm(Column(n)), w - 1)
TaBand(n, w) == Rolling(Column(n), w)
TaAtr(n, w)  == Zeros(Ewm(Column(n)), w - 1)
TaAdx(n, w)  == Zeros(Ewm(Column(n)), 2 * w - 1)

(***************************************************************************)
(* The indicators of layer 0                                               *)
(***************************************************************************)
Ema(s) == Ewm(s)
Sma(s, p) == Rolling(s, p)

TrueRange(n) == <<Column(n)[1]>> \o Changes(Column(n))

Atr(n) == Ewm(TrueRange(n))

Adx(n) ==
  LET di == Zip(Ewm(Diff(n)), Atr(n))
  IN  Ewm(di)

Bollinger(n, p) == Zip(Sma(Column(n), p), Rolling(Column(n), p))

(* Of the first bar there is neither gain nor loss, and their ratio is not *)
(* a number.                                                               *)
Rsi(n) == Blank(Ewm(TrueRange(n)), 1)

Stochastic(n, k, d) ==
  LET fast == Rolling(Column(n), k)
  IN  [k |-> fast, d |-> Rolling(fast, d)]

Donchian(n, p) == Rolling(Column(n), p)

Macd(n) ==
  LET line == Zip(Ema(Column(n)), Ema(Column(n)))
  IN  [macd |-> line, signal |-> Ema(line), histogram |-> Zip(line, Ema(line))]

Zscore(s, p) == Zip(s, Rolling(s, p))

Vwap(n) == Pick(n, LAMBDA i : Span(Column(n), 1, i))

WilliamsR(n, p) == Zip(Rolling(Column(n), p), Column(n))

Cci(n, p) == Zscore(Column(n), p)

Keltner(n) == Zip(Ema(Column(n)), Atr(n))

Chandelier(n, p) == Zip(Rolling(Column(n), p), Atr(n))

(* Each line rests on the one of the bar before.                           *)
Supertrend(n) ==
  LET band == Zip(Column(n), Atr(n))
  IN  Pick(n, LAMBDA i : Span(band, 1, i))

VolatilityContraction(n, p) ==
  LET share == Zip(Rolling(Atr(n), p), Column(n))
  IN  Zip(Zip(Atr(n), Column(n)), Rolling(share, p))

VolumeProfile(n, p) == Zip(Vwap(n), Rolling(Column(n), p))

(* The highest of p bars on either side, and above the one p bars before.  *)
SwingPoints(n, p) == Zip(Centred(Column(n), 2 * p + 1), Before(Column(n), p))

(***************************************************************************)
(* The features: p is ATR_PERIOD and ADX_PERIOD, q the window of the       *)
(* channel and of the volatility                                           *)
(***************************************************************************)
ComputeFeatures(n, p, q) ==
  [returns_1      |-> Diff(n),
   atr            |-> Blank(Atr(n), p - 1),
   adx            |-> Blank(Adx(n), 2 * p - 1),
   price_position |-> Zip(Column(n), Rolling(Column(n), q)),
   volatility     |-> Rolling(Diff(n), q)]

(***************************************************************************)
(* A slower timeframe of q bars beside the fast one                        *)
(***************************************************************************)
(* Its bars closed so far, and a figure of each.                           *)
Slower(n, q) ==
  Pick(n \div q, LAMBDA j : [of |-> ((j - 1) * q + 1)..(j * q), on |-> 1..(j * q)])

(* The j-th bar of s, or the last there is.                                *)
LastUpTo(s, j) == IF j < 1 \/ s = <<>> THEN None ELSE s[Min({j, Len(s)})]

\* Mutant: the day is not put off.
AlignDailyByDate(n, q) == Pick(n, LAMBDA i : LastUpTo(Slower(n, q), (i - 1) \div q + 1))

(* D1: stamped a day later, so that it is closed. H4: by its beginning.    *)
AlignDaily(n, q)    == Pick(n, LAMBDA i : LastUpTo(Slower(n, q), (i - 1) \div q))
AlignFourHour(n, q) == Pick(n, LAMBDA i : LastUpTo(Slower(n, q), (i - 1) \div q + 1))
=============================================================================
