----------------------------- MODULE Strategies -----------------------------
(***************************************************************************)
(* The signals of the staged strategies (src/layer0/strategies/            *)
(* strategieStaged): for each bar of n, from which bars the decision to    *)
(* buy or sell there is made. Buying and selling mirror each other and are *)
(* one. None is a bar with no signal whatever the prices: a comparison     *)
(* with a missing number does not hold. The periods are those of the       *)
(* timeframe.                                                              *)
(***************************************************************************)
EXTENDS ResearchIndicators

CONSTANTS
  SqueezeWindow,   \* rolling(window=50) of a band's width
  RecentWindow,    \* rolling(window=5), min_contraction_bars + 3
  SwingLookback    \* lookback of the divergence, 10

(* cond & ~filter: the negation of a comparison with a missing number      *)
(* holds.                                                                  *)
Unless(cond, filter) ==
  Pick(Len(cond), LAMBDA i : IF filter[i] = None THEN cond[i] ELSE Joint({cond[i], filter[i]}))

(* rolling(w).max() of a comparison: false where nothing was known.        *)
Recently(s, w) ==
  Pick(Len(s), LAMBDA i :
    LET known == {s[j] : j \in {k \in (i - w + 1)..i : k >= 1}} \ {None}
    IN  IF i < w \/ known = {} THEN None ELSE Joint(known))

Both(s, r) == Zip(s, r)
All3(s, r, t) == Zip(s, Zip(r, t))

(* Now on one side and a bar ago on the other.                             *)
Crosses(s) == Both(s, Before(s, 1))

Width(band, w) == Both(band, Rolling(band, w))

(***************************************************************************)
(* Trend                                                                   *)
(***************************************************************************)
TrendEmaAdx(n) ==
  LET alignment == Both(Ema(Column(n)), Ema(Column(n)))
  IN  Both(Crosses(alignment), Adx(n))

Breakout(n, p) == Both(Column(n), Before(Donchian(n, p), 1))

TrendDonchian(n, p) ==
  Unless(Both(Breakout(n, p), Adx(n)), Width(Donchian(n, p), SqueezeWindow))

TrendDonchianVCP(n, p) ==
  LET squeeze == Recently(Width(Donchian(n, p), SqueezeWindow), RecentWindow)
  IN  All3(Breakout(n, p), Before(squeeze, 1), Adx(n))

(***************************************************************************)
(* Range                                                                   *)
(***************************************************************************)
RangeBollinger(n, p) ==
  LET band  == Bollinger(n, p)
      touch == Both(Column(n), band)
  IN  Both(Unless(Both(touch, Rsi(n)), Width(band, SqueezeWindow)),
           Before(touch, 1))

(* %K is smoothed over q bars; %D is of the unsmoothed.                    *)
StochasticK(n, p, q) == Rolling(Stochastic(n, p, q).k, q)

RangeStochastic(n, p, q) ==
  LET k == StochasticK(n, p, q)
  IN  All3(Crosses(k), k, Stochastic(n, p, q).d)

(* A low among the bars around it, lower than the low before, while %K is  *)
(* higher: looked for SwingLookback bars away from either end.             *)
DetectDivergence(n, p, q) ==
  LET low == Centred(Column(n), SwingLookback)
      k   == StochasticK(n, p, q)
      Lows(i) == {j \in 1..i : low[j] # None /\ k[j] # None}
  IN  Pick(n, LAMBDA i :
        IF i <= SwingLookback \/ i > n - SwingLookback \/ i \notin Lows(i) THEN None
        ELSE Joint({low[j] : j \in Lows(i)} \cup {k[j] : j \in Lows(i)}))

StochasticDivergence(n, p, q) ==
  Both(DetectDivergence(n, p, q), Crosses(StochasticK(n, p, q)))

(***************************************************************************)
(* Support and resistance                                                  *)
(***************************************************************************)
(* The levels, and how often each was touched, are those of the p bars     *)
(* before; a level needs the q bars around it and the q before.            *)
FindLevels(n, p, q) ==
  Pick(n, LAMBDA i :
    LET window == (i - p)..(i - 1)
    IN  IF i <= p \/ p < 2 * q + 1 THEN None ELSE [of |-> {i}, on |-> window])

AtLevel(n, p, q) == All3(Column(n), FindLevels(n, p, q), Atr(n))

SupportResistance(n, p, q) == Both(AtLevel(n, p, q), FindLevels(n, p, q))

SupportResistanceBreakout(n, p, q) ==
  LET levels == FindLevels(n, p, q)
      above  == Both(Column(n), Before(levels, 1))
      below  == Both(Before(Column(n), 1), Before(levels, 1))
  IN  All3(above, below, levels)

(***************************************************************************)
(* Contraction of the volatility                                           *)
(***************************************************************************)
FullSqueeze(n, p) ==
  LET share == Both(Atr(n), Column(n))
      width == Both(Donchian(n, p), Column(n))
  IN  Both(Width(share, p), Width(width, p))

RecentSqueeze(n, p) == Before(Recently(FullSqueeze(n, p), RecentWindow), 1)

TrendUp(n) == Both(Ema(Column(n)), Ema(Column(n)))

VCPBreakout(n, p) ==
  Both(All3(Breakout(n, p), RecentSqueeze(n, p), TrendUp(n)), Adx(n))

VCPAggressive(n, p) ==
  LET side == Both(Column(n), Ema(Column(n)))
  IN  Both(All3(RecentSqueeze(n, p), TrendUp(n), Crosses(side)), Adx(n))
=============================================================================
