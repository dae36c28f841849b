---------------------------- MODULE TrialDesigns ----------------------------
(***************************************************************************)
(* The trials by which models, thresholds and parameters are judged: of n  *)
(* rows in the order of time (trades of a training frame, or bars), which  *)
(* ones the judged thing was made from (saw) and which it was judged on.   *)
(* The gatekeeper of System 1 (src/system1/gatekeeper/train.py), the       *)
(* legacy trainer (src/layer3_ml/training/train_ml_gatekeeper.py) and the  *)
(* parameter search (src/layer0/qualification/qualify_strategies.py). Also *)
(* the legacy trainer's features from earlier trades, in the terms of      *)
(* BarSeries. Which model fits, and how well, is left out.                 *)
(***************************************************************************)
EXTENDS BarSeries

CONSTANT Sizes    \* a record of the designs' sizes

Upto(k) == 1..k

Trial(saw, judged) == [saw |-> saw, judged |-> judged]

(* int(len * 0.8) of the first rows.                                       *)
FourFifths(k) == (4 * k) \div 5

(***************************************************************************)
(* System 1: expanding folds over n_folds + 1 blocks                       *)
(***************************************************************************)
(* np.array_split: the first blocks take one of the rows left over.        *)
BlockEnd(n, k) ==
  LET blocks == Sizes.n_folds + 1
  IN  k * (n \div blocks) + Min({k, n % blocks})

Block(n, k) == BlockEnd(n, k - 1) + 1 .. BlockEnd(n, k)

(* The model is fitted on the first four fifths of the blocks before, its  *)
(* thresholds calibrated on the rest, both judged on the block. Short ones *)
(* are passed over.                                                        *)
ChampionFold(n, k) ==
  LET train == BlockEnd(n, k)
      cut == FourFifths(train)
      val == cut + 1 .. train
      oos == Block(n, k + 1)
  IN  IF cut < Sizes.min_tr \/ Cardinality(val) < Sizes.min_val
         \/ Cardinality(oos) < Sizes.min_val
      THEN {}
      ELSE {Trial(Upto(cut), val), Trial(Upto(train), oos)}

ChampionTrials(n) == UNION {ChampionFold(n, k) : k \in 1..Sizes.n_folds}

(* cv = 3 of a classifier: three folds, not shuffled, that take their share *)
(* of the winners and of the losers. Each is judged by what was fitted on  *)
(* the two others, and all rows come out of a preprocessor that was fitted *)
(* on all of them.                                                         *)
CrossValidated(rows) == {Trial(rows, rows)}

(* The parameters of each fit, in the folds and of the final model, are    *)
(* chosen so on the rows it is fitted on.                                  *)
GridSearchTrials(n) ==
  LET taken == {k \in 1..Sizes.n_folds : ChampionFold(n, k) # {}}
      fits == {FourFifths(BlockEnd(n, k)) : k \in taken} \cup {n}
  IN  UNION {CrossValidated(Upto(m)) : m \in fits}

(***************************************************************************)
(* The legacy trainer: the last fifth is the test, and below a number of   *)
(* train rows there is no training                                         *)
(***************************************************************************)
TrainRows(n) == Upto(FourFifths(n))
TestRows(n)  == 1..n \ TrainRows(n)

Viable(n) == FourFifths(n) >= 2 * (Sizes.cv_splits + 1)

(* scikit-learn's TimeSeriesSplit.                                         *)
FoldSize(n, splits) == n \div (splits + 1)

Splittable(n, splits, gap) ==
  splits + 1 <= n /\ n - gap - splits * FoldSize(n, splits) > 0

TimeSeriesSplit(n, splits, gap) ==
  LET size == FoldSize(n, splits)
      starts == {n - k * size : k \in 1..splits}
  IN  {Trial(Upto(s - gap), s + 1 .. s + size) : s \in starts}

(* As many splits as possible, then as wide a gap.                         *)
MakeTimeSeriesSplit(n) ==
  LET gaps == {Sizes.embargo_gap, Sizes.embargo_gap \div 2, 0}
      pairs == {p \in (2..Min({Sizes.cv_splits, n - 1})) \X gaps : Splittable(n, p[1], p[2])}
      splits == Max({p[1] : p \in pairs})
      gap == Max({p[2] : p \in {q \in pairs : q[1] = splits}})
  IN  IF n < Sizes.min_split \/ pairs = {} THEN {} ELSE TimeSeriesSplit(n, splits, gap)

(* optuna_objective                                                        *)
TuningTrials(n) == IF Viable(n) THEN MakeTimeSeriesSplit(FourFifths(n)) ELSE {}

(* train_models: fitted on the train rows; the threshold is chosen on the  *)
(* last fifth of them, and it is judged on the test.                       *)
ThresholdTrials(n) ==
  IF Viable(n)
  THEN {Trial(TrainRows(n), TrainRows(n) \ Upto(FourFifths(FourFifths(n))))}
  ELSE {}

TestTrials(n) == IF Viable(n) THEN {Trial(TrainRows(n), TestRows(n))} ELSE {}

(* tree_model_factory(calibrate): the probabilities are fitted on three    *)
(* folds of the train rows.                                                *)
CalibrationTrials(n) == IF Viable(n) THEN CrossValidated(TrainRows(n)) ELSE {}

(* train_lstm: stopped early on the last fifth of the train rows, from     *)
(* which the scaler was fitted too. Each row is judged from the seq_len    *)
(* rows before it.                                                         *)
StoppingTrials(n) ==
  IF Viable(n)
  THEN {Trial(TrainRows(n), {i \in TrainRows(n) : i > FourFifths(FourFifths(n)) + Sizes.seq_len})}
  ELSE {}

LstmTrials(n) ==
  IF Viable(n)
  THEN {Trial(TrainRows(n), {i \in TestRows(n) : i > FourFifths(n) + Sizes.seq_len})}
  ELSE {}

(***************************************************************************)
(* Its features from a strategy's own earlier trades                       *)
(***************************************************************************)
(* shift(1).rolling(w)                                                     *)
Past(i, w) == {j \in 1..(i - 1) : j >= i - w}

(* A mean of the last w earlier trades, if there are min_periods of them.  *)
(* A strategy of few trades keeps the default.                             *)
StrategyPerformance(n, w) ==
  Each(1, n, LAMBDA i :
    IF n < Sizes.min_trades THEN [of |-> {i}, on |-> {}]
    ELSE IF Cardinality(Past(i, w)) < Sizes.min_periods THEN None
    ELSE [of |-> {i}, on |-> Past(i, w)])

(***************************************************************************)
(* The parameter search: candidates are scored on windows, and the best    *)
(* one is then qualified by a backtest of all bars but a warm-up           *)
(***************************************************************************)
WindowSizes(n) ==
  LET train == Max({Sizes.train_floor, Sizes.wf_train})
      test == Max({Sizes.test_floor, Sizes.wf_test})
  IN  IF n < train + test
      THEN [train |-> Max({Sizes.short_train, (65 * n) \div 100}),
            test  |-> Max({Sizes.short_test, n \div 5})]
      ELSE [train |-> train, test |-> test]

(* run_walk_forward_analysis: a window past the end is empty. What is      *)
(* called its train rows is not looked at.                                 *)
Windows(n) ==
  LET size == WindowSizes(n)
  IN  {size.train + k * size.test + 1 .. Min({size.train + (k + 1) * size.test, n}) :
         k \in 0..Sizes.wf_windows - 1}

(* What the best candidate was found on.                                   *)
SearchedOn(n) == UNION Windows(n)

QualificationTrials(n, warmup) == {Trial(SearchedOn(n), warmup + 1 .. n)}
=============================================================================
