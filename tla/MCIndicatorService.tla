------------------------ MODULE MCIndicatorService ------------------------
(***************************************************************************)
(* Every indicator, feature, strategy, regime, rule and trial with short   *)
(* periods, each on ten bars that come one by one; one of the server's     *)
(* through its endpoints, by two threads.                                  *)
(***************************************************************************)
EXTENDS IndicatorService, TLC

MCSymmetry == Permutations(Threads)

Of(where, indicators, p, q) ==
  [where : {where}, indicator : indicators, p : p, q : q]

(* Two bars to a slower bar, a day or a dry beginning.                     *)
Two == {2}

MCCharted == Of("server", {"sma"}, {2}, Two)

MCRequests ==
  UNION {
    Of("server", {"rsi", "roc", "cci", "williams_r", "sma", "ema", "wma",
      "tema", "dema", "adx", "bollinger_bands", "atr", "keltner_channel", "natr",
      "historical_volatility", "obv", "vwap", "volume_roc",
      "accumulation_distribution", "mfi", "qstick", "vhf", "mass_index"}, {2, 3}, Two),
    Of("server", {"macd", "stochastic", "ma_ribbon"}, {3}, {1, 2}),
    Of("browser", {"sma", "ema", "wma", "rsi", "bollinger", "atr", "adx", "vwap",
      "obv", "unknown"}, {2, 3}, Two),
    Of("browser", {"macd", "stochastic"}, {3}, {1, 2}),
    Of("features", {"features", "bollinger", "rsi", "stochastic", "donchian", "macd",
      "zscore", "vwap", "williams_r", "cci", "keltner", "chandelier", "supertrend",
      "vci", "profile", "swing", "daily", "four_hour"}, {2}, Two),
    Of("strategy", {"trend_ema_adx", "trend_donchian", "trend_donchian_vcp",
      "range_bollinger", "range_stochastic", "divergence", "support_resistance",
      "sr_breakout", "vcp_breakout", "vcp_aggressive"}, {2}, Two),
    Of("strategy", {"support_resistance", "sr_breakout"}, {3}, {1}),
    Of("regime", {"market_features", "clusters"}, {2}, {3}),
    Of("regime", {"features", "production", "causal"}, {2}, Two),
    Of("rules", {"EMA", "ADX", "BB", "DONCHIAN", "RSI", "STOCH", "ATR"}, {2}, {0, 2}),
    Of("training", {"performance"}, {3}, Two),
    Of("trial", {"champion", "tuning", "test", "lstm_test", "threshold", "stopping",
      "grid_search", "calibration", "qualification", "causal_folds", "reference"}, {2}, Two)}

(* The designs, made small: ten rows are enough for two folds of the       *)
(* gatekeeper, two splits with a narrowed gap, windows past the end.       *)
MCSizes ==
  [n_folds |-> 2, min_tr |-> 2, min_val |-> 1,
   cv_splits |-> 2, embargo_gap |-> 3, min_split |-> 6, seq_len |-> 1,
   min_periods |-> 2, min_trades |-> 4,
   train_floor |-> 4, test_floor |-> 2, wf_train |-> 5, wf_test |-> 2,
   short_train |-> 3, short_test |-> 1, wf_windows |-> 3]
=============================================================================
