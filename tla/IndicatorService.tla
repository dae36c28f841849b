-------------------------- MODULE IndicatorService --------------------------
(***************************************************************************)
(* Series that are computed again as bars arrive: by the server's          *)
(* indicator endpoints with their cache                                    *)
(* (src/layer5/api/routes/indicators.py), by the browser, by the research  *)
(* layers, the regime models, the rule engine and the trainers. One        *)
(* request is looked at. What is shown for it is known by the rows it was  *)
(* computed from and their number: Result gives the lists, Trials the rows *)
(* that a trial is made from and judged on. The dashboard's reader         *)
(* (src/layer5/services/chart_data_client.py) gives the rows of the last   *)
(* thirty days, no more than a limit and of all granularities; the others  *)
(* read their frames from a fixed start on.                                *)
(***************************************************************************)
EXTENDS Integers, Sequences, FiniteSets

CONSTANTS
  None,
  MassPeriod, SqueezeWindow, RecentWindow, SwingLookback,   \* fixed windows
  SmoothWindow, AdxWarmup,                                  \* of the rules
  MinTrain, Step, MinBars, Clusters,                        \* of the regimes
  Sizes,                                                    \* of the trials
  Requests,    \* what may be asked: [where, indicator, p, q]
  Charted,     \* those that are asked of the endpoints, the others are computed
  Threads,     \* the server's worker threads
  Ttl,         \* ttl_seconds
  Handling,    \* the longest an endpoint takes
  Spanned,     \* how many bars there may be to a slower one
  MaxBars, MaxNew, MaxClock, MaxSlid, MaxBetween            \* bounds

ASSUME ServiceAssumption ==
  /\ Charted \subseteq Requests
  /\ Ttl \in Nat \ {0} /\ Handling \in Nat
  /\ MaxBars \in Nat /\ MaxNew \in Nat /\ MaxClock \in Nat
  /\ MaxNew < MaxBars
  /\ Spanned \in Nat /\ MaxSlid \in Nat /\ MaxBetween \in Nat

ASSUME TrialAssumption ==
  /\ \A n \in {MinTrain, Sizes.n_folds, Sizes.cv_splits, Sizes.embargo_gap} : n \in Nat
  /\ \A r \in Requests : r.where = "trial" =>
       r.indicator \in {"champion", "tuning", "test", "lstm_test", "threshold", "stopping",
                        "grid_search", "calibration", "qualification", "causal_folds",
                        "reference"}

VARIABLES
  request,     \* the request
  bars,        \* how many bars there are
  born,        \* when each of them came
  reading,     \* those that are read now, in the order of their times
  clock,       \* the time
  cache,       \* _in_memory_cache at the request's key
  thread,      \* what each thread is at
  shown        \* the last answer

serviceVars == <<request, bars, born, reading, clock, cache, thread, shown>>

Server   == INSTANCE IndicatorsLibrary
Browser  == INSTANCE ClientIndicators
Research == INSTANCE Strategies
Regimes  == INSTANCE RegimeSeries
Rules    == INSTANCE RuleSignals
Designs  == INSTANCE TrialDesigns

ASSUME SeriesAssumption ==
  /\ None \notin [of : SUBSET Nat, on : SUBSET Nat]
  /\ \A w \in {MassPeriod, SqueezeWindow, RecentWindow, SmoothWindow, Step} :
       w \in Nat \ {0}
  /\ AdxWarmup \in Nat

(* What the code accepts and is configured with: positive periods of the   *)
(* indicators it knows; the context of a regime is longer than the windows *)
(* of its ATR and ADX; the registry's own warm-up of ADX covers its zeros. *)
ASSUME RequestAssumption ==
  \A r \in Requests :
    /\ r.p \in Nat \ {0} /\ r.q \in Nat
    /\ r.where \in {"server", "browser", "features", "strategy", "regime", "rules",
                    "training", "trial"}
    /\ r.where # "rules" => r.q # 0
    /\ r.where = "server" => r.indicator \in Server!Registry
    /\ r.where = "features" =>
         r.indicator \in {"features", "bollinger", "rsi", "stochastic", "donchian", "macd",
           "zscore", "vwap", "williams_r", "cci", "keltner", "chandelier", "supertrend",
           "vci", "profile", "swing", "daily", "four_hour"}
    /\ r.where = "strategy" =>
         r.indicator \in {"trend_ema_adx", "trend_donchian", "trend_donchian_vcp",
           "range_bollinger", "range_stochastic", "divergence", "support_resistance",
           "sr_breakout", "vcp_breakout", "vcp_aggressive"}
    /\ r.where = "training" => r.indicator = "performance"
    /\ r.where = "regime" =>
         /\ r.indicator \in {"market_features", "clusters", "features", "production", "causal"}
         /\ r.indicator \in {"market_features", "clusters"} => r.p < r.q
    /\ r.where = "rules" =>
         /\ r.indicator \in Rules!Registry
         /\ r.q # 0 => AdxWarmup >= 2 * r.p - 1

(***************************************************************************)
(* What is shown                                                           *)
(***************************************************************************)
(* Of several lists with names the endpoint does not know, the first.      *)
ServerResult(r, n) ==
  IF r.indicator = "ma_ribbon"
  THEN Server!One(Server!Calculate(r, n).ema_p)
  ELSE Server!Calculate(r, n)

FeatureSeries(r, n) ==
  LET p == r.p
      q == r.q
      c == Research!Column(n)
      Only(s) == [values |-> s]
  IN  CASE r.indicator = "features"   -> Research!ComputeFeatures(n, p, q)
        [] r.indicator = "bollinger"  -> Only(Research!Bollinger(n, p))
        [] r.indicator = "rsi"        -> Only(Research!Rsi(n))
        [] r.indicator = "stochastic" -> Research!Stochastic(n, p, q)
        [] r.indicator = "donchian"   -> Only(Research!Donchian(n, p))
        [] r.indicator = "macd"       -> Research!Macd(n)
        [] r.indicator = "zscore"     -> Only(Research!Zscore(c, p))
        [] r.indicator = "vwap"       -> Only(Research!Vwap(n))
        [] r.indicator = "williams_r" -> Only(Research!WilliamsR(n, p))
        [] r.indicator = "cci"        -> Only(Research!Cci(n, p))
        [] r.indicator = "keltner"    -> Only(Research!Keltner(n))
        [] r.indicator = "chandelier" -> Only(Research!Chandelier(n, p))
        [] r.indicator = "supertrend" -> Only(Research!Supertrend(n))
        [] r.indicator = "vci"        -> Only(Research!VolatilityContraction(n, p))
        [] r.indicator = "profile"    -> Only(Research!VolumeProfile(n, p))
        [] r.indicator = "swing"      -> Only(Research!SwingPoints(n, p))
        [] r.indicator = "daily"      -> Only(Research!AlignDaily(n, q))
        [] r.indicator = "four_hour"  -> Only(Research!AlignFourHour(n, q))

Signals(r, n) ==
  LET p == r.p
      q == r.q
      Only(s) == [values |-> s]
  IN  CASE r.indicator = "trend_ema_adx"      -> Only(Research!TrendEmaAdx(n))
        [] r.indicator = "trend_donchian"     -> Only(Research!TrendDonchian(n, p))
        [] r.indicator = "trend_donchian_vcp" -> Only(Research!TrendDonchianVCP(n, p))
        [] r.indicator = "range_bollinger"    -> Only(Research!RangeBollinger(n, p))
        [] r.indicator = "range_stochastic"   -> Only(Research!RangeStochastic(n, p, q))
        [] r.indicator = "divergence"         -> Only(Research!StochasticDivergence(n, p, q))
        [] r.indicator = "support_resistance" -> Only(Research!SupportResistance(n, p, q))
        [] r.indicator = "sr_breakout"        -> Only(Research!SupportResistanceBreakout(n, p, q))
        [] r.indicator = "vcp_breakout"       -> Only(Research!VCPBreakout(n, p))
        [] r.indicator = "vcp_aggressive"     -> Only(Research!VCPAggressive(n, p))

RegimeLists(r, n) ==
  LET p == r.p
      q == r.q
      Only(s) == [values |-> s]
  IN  CASE r.indicator = "market_features" -> Regimes!CalculateFeatures(n, p, q)
        [] r.indicator = "clusters"        -> Only(Regimes!ClusterAndLabel(n, p, q))
        [] r.indicator = "features"        -> Regimes!LoadFeatures(n, p, q)
        [] r.indicator = "production"      -> Only(Regimes!ProcessGranularity(n, p, q))
        [] r.indicator = "causal"          -> Only(Regimes!CausalLabels(n, p, q))

(* q = 0: the configuration gives the window.                              *)
GivesWindow(r) == r.q = 0

Result(r, n) ==
  CASE r.where = "server"   -> ServerResult(r, n)
    [] r.where = "browser"  -> Browser!CalculateIndicator(r, n)
    [] r.where = "features" -> FeatureSeries(r, n)
    [] r.where = "strategy" -> Signals(r, n)
    [] r.where = "regime"   -> RegimeLists(r, n)
    [] r.where = "rules"    -> Rules!ProcessStrategy(r.indicator, n, r.p, GivesWindow(r))
    [] r.where = "training" -> [values |-> Designs!StrategyPerformance(n, r.p)]
    [] r.where = "trial"    -> <<>>

Trials(r, n) ==
  CASE r.indicator = "champion"      -> Designs!ChampionTrials(n)
    [] r.indicator = "tuning"        -> Designs!TuningTrials(n)
    [] r.indicator = "test"          -> Designs!TestTrials(n)
    [] r.indicator = "lstm_test"     -> Designs!LstmTrials(n)
    [] r.indicator = "threshold"     -> Designs!ThresholdTrials(n)
    [] r.indicator = "stopping"      -> Designs!StoppingTrials(n)
    [] r.indicator = "grid_search"   -> Designs!GridSearchTrials(n)
    [] r.indicator = "calibration"   -> Designs!CalibrationTrials(n)
    [] r.indicator = "qualification" -> Designs!QualificationTrials(n, r.p)
    [] r.indicator = "causal_folds"  -> Regimes!CausalTrials(n, r.p, r.q)
    [] r.indicator = "reference"     -> Regimes!ReferenceTrial(n, r.p, r.q)

(***************************************************************************)
(* Bars, the rows that are read, and series computed from all of them      *)
(***************************************************************************)
ServiceInit ==
  /\ request \in Requests
  /\ bars = IF request \in Charted THEN MaxBars - MaxNew ELSE 1
  /\ born = [b \in 1..bars |-> 0]
  /\ reading = [b \in 1..bars |-> b]
  /\ clock = 0
  /\ cache = None
  /\ thread = [t \in Threads |-> None]
  /\ shown = None

Comes ==
  /\ bars < MaxBars
  /\ bars' = bars + 1
  /\ born' = Append(born, clock)
  /\ UNCHANGED <<request, clock, cache, thread, shown>>

NewBar == Comes /\ reading' = Append(reading, bars + 1)

OfDashboard == request.where \in {"server", "browser"}

(* A bar of a slower granularity bears the time at which it began and      *)
(* comes when it is closed: in a reading it stands before faster ones that *)
(* were there already.                                                     *)
OutOfOrder == {i \in 1..Len(reading) - 1 : reading[i] > reading[i + 1]}

SlowerBar ==
  /\ OfDashboard
  /\ Cardinality(OutOfOrder) < MaxBetween
  /\ Comes
  /\ \E i \in 1..Len(reading) :
       /\ Len(reading) - i < Spanned
       /\ reading' = SubSeq(reading, 1, i - 1) \o <<bars + 1>> \o SubSeq(reading, i, Len(reading))

(* The first row is older than thirty days, or one too many.               *)
Slide ==
  /\ OfDashboard
  /\ Len(reading) > 1 /\ bars - Len(reading) < MaxSlid
  /\ reading' = Tail(reading)
  /\ UNCHANGED <<request, bars, born, clock, cache, thread, shown>>

Shows(given, upto) == shown' = [rows |-> given, upto |-> upto, at |-> clock]

Compute ==
  /\ request \notin Charted
  /\ Shows(reading, bars)
  /\ UNCHANGED <<request, bars, born, reading, clock, cache, thread>>

(***************************************************************************)
(* The endpoints. /calculate looks into its cache, then reads the bars;    *)
(* /calculate-batch reads the bars, then looks, and answers after the      *)
(* other indicators of the batch; skip_cache does neither look nor keep.   *)
(* The threads run at once.                                                *)
(***************************************************************************)
Kinds == {"calculate", "batch", "skip"}

Ask(t, kind) ==
  /\ request \in Charted
  /\ thread[t] = None
  /\ thread' = [thread EXCEPT ![t] =
       [kind |-> kind, step |-> IF kind = "calculate" THEN "lookup" ELSE "read",
        rows |-> <<>>, upto |-> 0, asked |-> clock]]
  /\ UNCHANGED <<request, bars, born, reading, clock, cache, shown>>

At(t, step) == thread[t] # None /\ thread[t].step = step

\* Mutant: the time of expiry is not looked at.
LiveForever(entry) == entry # None

(* _get_cached_result                                                      *)
Live(entry) == entry # None /\ entry.expires > clock

Hit(t) ==
  /\ At(t, "lookup")
  /\ Live(cache)
  /\ thread' = [thread EXCEPT
       ![t].rows = cache.rows, ![t].upto = cache.upto, ![t].step = "answer"]
  /\ UNCHANGED <<request, bars, born, reading, clock, cache, shown>>

Miss(t) ==
  /\ At(t, "lookup")
  /\ ~Live(cache)
  /\ cache' = None
  /\ thread' = [thread EXCEPT ![t].step =
       IF thread[t].kind = "calculate" THEN "read" ELSE "compute"]
  /\ UNCHANGED <<request, bars, born, reading, clock, shown>>

Read(t) ==
  /\ At(t, "read")
  /\ thread' = [thread EXCEPT
       ![t].rows = reading, ![t].upto = bars,
       ![t].step = IF thread[t].kind = "batch" THEN "lookup" ELSE "compute"]
  /\ UNCHANGED <<request, bars, born, reading, clock, cache, shown>>

(* _set_cached_result                                                      *)
Keep(given, upto) == cache' = [rows |-> given, upto |-> upto, expires |-> clock + Ttl]

Finish(t) ==
  /\ At(t, "compute")
  /\ IF thread[t].kind = "skip" THEN UNCHANGED cache ELSE Keep(thread[t].rows, thread[t].upto)
  /\ thread' = [thread EXCEPT ![t].step = "answer"]
  /\ UNCHANGED <<request, bars, born, reading, clock, shown>>

Answer(t) ==
  /\ At(t, "answer")
  /\ Shows(thread[t].rows, thread[t].upto)
  /\ thread' = [thread EXCEPT ![t] = None]
  /\ UNCHANGED <<request, bars, born, reading, clock, cache>>

(* /cache/clear without a symbol. With one nothing is removed: the keys    *)
(* are searched for it, which are hashes.                                  *)
Clear ==
  /\ request \in Charted
  /\ cache' = None
  /\ UNCHANGED <<request, bars, born, reading, clock, thread, shown>>

Tick ==
  /\ request \in Charted
  /\ clock < MaxClock
  /\ \A t \in Threads : thread[t] # None => clock < thread[t].asked + Handling
  /\ clock' = clock + 1
  /\ UNCHANGED <<request, bars, born, reading, cache, thread, shown>>

ServiceNext ==
  \/ NewBar \/ SlowerBar \/ Slide \/ Compute \/ Clear \/ Tick
  \/ \E t \in Threads : \/ \E kind \in Kinds : Ask(t, kind)
                        \/ Hit(t) \/ Miss(t) \/ Read(t) \/ Finish(t) \/ Answer(t)

ServiceSpec == ServiceInit /\ [][ServiceNext]_serviceVars

-----------------------------------------------------------------------------
(***************************************************************************)
(* Properties                                                              *)
(***************************************************************************)
ServiceTypeOK ==
  /\ request \in Requests
  /\ bars \in 1..MaxBars /\ born \in [1..bars -> 0..MaxClock]
  /\ reading \in Seq(Nat) \ {<<>>}
  /\ clock \in 0..MaxClock
  /\ cache = None \/ cache \in [rows : Seq(Nat) \ {<<>>}, upto : 1..bars, expires : Nat]
  /\ \A t \in Threads : thread[t] = None \/ thread[t].upto \in 0..bars
  /\ shown = None \/ shown \in [rows : Seq(Nat) \ {<<>>}, upto : 1..bars, at : 0..clock]

Is(where, indicators) == request.where = where /\ request.indicator \in indicators

(* How many rows it was computed from, and the lists.                      *)
Count(answer) == Len(answer.rows)

Given(answer) == Result(request, Count(answer))

(* The lists that do not stand beside their bars: numbers counted from     *)
(* where their own list begins, or pushed one place late.                  *)
OutOfStep ==
  \/ Is("server", {"rsi", "tema", "dema", "mass_index"})
  \/ Is("server", {"stochastic"}) /\ request.q > 1
  \/ Is("browser", {"rsi", "adx"})
  \/ Is("rules", {"ADX"}) /\ GivesWindow(request)

(* What is given for past bars only once later ones are there. A causal    *)
(* label is, as long as the bars are too few for a fold.                   *)
LooksAhead ==
  \/ Is("features", {"swing", "four_hour"})
  \/ Is("strategy", {"divergence"})
  \/ Is("regime", {"clusters", "production"})
  \/ /\ Is("regime", {"causal"})
     /\ Regimes!FoldStarts(Regimes!RegimeRows(Count(shown), request.p, request.q)) = {}
  \/ Is("training", {"performance"})

(* A number of a bar, none of them a stopgap of the ta library.            *)
BesideItsBar(v, i) == v = None \/ (v.of = {i} /\ 0 \notin v.on)

BesideTheirBars(lists, n) ==
  \A f \in DOMAIN lists : \A i \in (1..n) \cap DOMAIN lists[f] : BesideItsBar(lists[f][i], i)

StandsBesideItsBars == BesideTheirBars(Given(shown), Count(shown))

(* "Returns indicator values aligned with OHLC timestamps": the number     *)
(* drawn at a bar is of that bar, whatever the length of the series; so is *)
(* that of a feature, of a regime's features and label and of a rule.      *)
InStep ==
  /\ shown # None
  /\ \/ request.where \in {"server", "browser", "regime", "rules"}
     \/ Is("features", {"features", "macd", "stochastic"})
  /\ ~OutOfStep
  => StandsBesideItsBars

(* What was shown before still holds after a number was computed again:    *)
(* a number drawn is not another one, and a signal of a strategy or a      *)
(* feature does not come afterwards either.                                *)
MayCome == OfDashboard \/ Is("regime", {"causal"})

Kept(v, w) == v = w \/ (v = None /\ MayCome)

(* Those of a window of bars, which need nothing from before it. All       *)
(* others of the dashboard rest on the first row of a reading.             *)
OfAWindow ==
  \/ Is("server", {"sma", "wma", "williams_r", "vhf", "qstick", "roc", "volume_roc",
                   "bollinger_bands", "cci", "mfi"})
  \/ Is("browser", {"sma", "wma", "bollinger"})

(* The same number, of another place.                                      *)
Moved(v, d) == [of |-> {b + d : b \in v.of}, on |-> {b + d : b \in v.on}]

(* The bar at place i is now at place j, and so are those before it that   *)
(* its number rests on.                                                    *)
StillThere(v, before, now, i, j) ==
  /\ now[j] = before[i]
  /\ \A b \in v.on : b + (j - i) \in DOMAIN now /\ now[b + (j - i)] = before[b]

(* The first i rows are the same, and no fewer follow.                     *)
SameFirst(before, now, i) ==
  /\ Len(before) <= Len(now)
  /\ \A b \in 1..i : now[b] = before[b]

SaidAgain ==
  \A f \in DOMAIN Given(shown) \cap DOMAIN Given(shown') :
    LET s == Given(shown)[f]
        t == Given(shown')[f]
        before == shown.rows
        now == shown'.rows
    IN  /\ \A i \in DOMAIN before \cap DOMAIN now \cap DOMAIN s \cap DOMAIN t :
             SameFirst(before, now, i) => Kept(s[i], t[i])
        /\ OfAWindow =>
             \A i \in DOMAIN before \cap DOMAIN s, j \in DOMAIN now \cap DOMAIN t :
               s[i] # None /\ StillThere(s[i], before, now, i, j) => t[j] = Moved(s[i], j - i)

Computed == shown # None /\ shown' \notin {None, shown}

(* No number given for a bar changes, and no signal comes or goes at one,  *)
(* as long as the rows it rests on are the same: those of its window, or   *)
(* all from the first of the reading on. More bars alone do not change it. *)
NeverRepaints == [][Computed /\ ~LooksAhead => SaidAgain]_serviceVars

(* "Results are cached for 5 minutes": an answer knows every bar that came *)
(* longer ago than the cache keeps and two endpoints take, the one that    *)
(* kept the result and the one that gives it.                              *)
FreshWithinTTL ==
  shown # None =>
    \A b \in 1..bars : born[b] + Ttl + 2 * Handling <= shown.at => b <= shown.upto

(* Those that are judged on what they were made from, or on rows before    *)
(* it: a threshold on rows the model was fitted on, a stopping point on    *)
(* rows the scaler was, a holdout on which the scaler was, parameters on   *)
(* the bars they were chosen by; a grid search and a calibration on each   *)
(* third of the rows, the earlier ones too.                                *)
Peeks == Is("trial", {"threshold", "stopping", "reference", "qualification", "grid_search",
                      "calibration"})

LaterThanSeen(trials) == \A t \in trials : \A i \in t.saw, j \in t.judged : i < j

FromEarlier(values) ==
  \A i \in DOMAIN values : values[i] = None \/ \A j \in values[i].on : j < i

(* The other designs (the gatekeeper's blocks, the split by time of the    *)
(* tuning, the last fifth as a test, the causal folds) hold out what they  *)
(* judge on, however many rows there are: every row of a trial comes after *)
(* all rows that its model, thresholds or parameters were made from. And a *)
(* trade's features are from trades before it.                             *)
JudgedOnUnseen ==
  shown # None =>
    /\ request.where = "trial" /\ ~Peeks => LaterThanSeen(Trials(request, Count(shown)))
    /\ request.where = "training" =>
         FromEarlier(Designs!StrategyPerformance(Count(shown), request.p))

(***************************************************************************)
(* Said of the code, and not so: TLC refutes each (README.md)              *)
(***************************************************************************)
(* "Returns indicator values aligned with OHLC timestamps"                 *)
(* (routes/indicators.py:334), of every list of the endpoints.             *)
AllInStep == shown # None /\ request.where = "server" => StandsBesideItsBars

(* "Prevents look-ahead bias by using only closed bars"                    *)
(* (multi_timeframe.py:221), of the slower timeframes.                     *)
OnlyClosedBars == [][Computed /\ Is("features", {"daily", "four_hour"}) => SaidAgain]_serviceVars

(* A signal of a strategy that was qualified on past bars could have been  *)
(* acted on when its bar closed.                                           *)
SignalsStay == [][Computed /\ request.where = "strategy" => SaidAgain]_serviceVars

(* "Results are cached for 5 minutes" (routes/indicators.py:324), counted  *)
(* from the bars that were read.                                           *)
NeverOlderThanTtl ==
  shown # None => \A b \in 1..bars : born[b] + Ttl <= shown.at => b <= shown.upto

(* "Minimum number of bars needed for valid output" (registry.py:300): the *)
(* rows left after the warm-up carry no stopgaps.                          *)
WarmupCovers == shown # None /\ request.where = "rules" => StandsBesideItsBars

(* "Conflicting signals (1 and -1) result in 0" (rules/evaluator.py:358).  *)
ConflictIsZero == Rules!ConflictIsZero

(* "Find which rule triggered" (core/engine.py:518): of the row's signal.  *)
ReasonFits == Rules!ReasonFits

(* "a reference model fit on the TRAIN split only" (hmm_regime.py:296),    *)
(* "Choose threshold on validation" (train_ml_gatekeeper.py:1555), "Test   *)
(* on out-of-sample data" (backtest_engine.py:497), of every trial.        *)
EveryTrialUnseen ==
  shown # None /\ request.where = "trial" => LaterThanSeen(Trials(request, Count(shown)))
=============================================================================
