---------------------------- MODULE RegimeSeries ----------------------------
(***************************************************************************)
(* The regime of each bar, in the terms of BarSeries: of which bars its    *)
(* label is and from which bars it was found. The clusters of layer 1      *)
(* (src/layer1_regime/Fact_market_regime_v2.py) and the hidden Markov      *)
(* model of System 1 (src/system1/regime/hmm_regime.py), of one instrument *)
(* with n bars. Which label it is, the quality gates and the choice        *)
(* between HMM and K-Means are left out: a label rests on the same bars    *)
(* whichever is fitted.                                                    *)
(***************************************************************************)
EXTENDS ResearchIndicators

CONSTANTS MinTrain, Step, MinBars, Clusters   \* k

Fold == INSTANCE WalkForward

(* Rows with a missing number in a column are dropped.                     *)
Complete(columns, n) ==
  {i \in 1..n : \A f \in DOMAIN columns : columns[f][i] # None}

Kept(columns, n, rows) ==
  [f \in DOMAIN columns |-> Pick(n, LAMBDA i : IF i \in rows THEN columns[f][i] ELSE None)]

(* The bars that the rows rest on.                                         *)
Ground(columns, rows) ==
  UNION {columns[f][i].on : f \in DOMAIN columns, i \in rows}

(* A label for each of the rows, found by a model that was fitted on       *)
(* others and looks at the rows it is given in Seen(i).                    *)
Labelled(columns, n, rows, fitted, Seen(_)) ==
  Pick(n, LAMBDA i :
    IF i \notin rows THEN None
    ELSE [of |-> {i}, on |-> Ground(columns, fitted \cup Seen(i))])

(***************************************************************************)
(* Layer 1: p is the window of ATR and ADX, q context_window, the longest. *)
(* The other windows of the timeframe are no longer than q.                *)
(***************************************************************************)
MarketColumnsOf(returns, atr, adx, n, p, q) ==
  [atr              |-> atr,
   adx              |-> adx,
   adx_delta        |-> Rolling(adx, 2),
   trend_ratio      |-> Rolling(returns, p),
   realized_vol_z   |-> Zscore(Rolling(returns, q), q),
   session_volume_z |-> Zscore(Column(n), p),
   atr_z            |-> Zscore(atr, q),
   bb_width_z       |-> Zscore(TaBand(n, p), q),
   vol_persistence  |-> Rolling(atr, p)]

MarketColumns(n, p, q) == MarketColumnsOf(Diff(n), TaAtr(n, p), TaAdx(n, p), n, p, q)

MarketRows(columns, n, p, q) == {i \in Complete(columns, n) : i > Max({p, q}) + 1}

MarketFeatures(columns, n, p, q) == Kept(columns, n, MarketRows(columns, n, p, q))

CalculateFeatures(n, p, q) == MarketFeatures(MarketColumns(n, p, q), n, p, q)

(* K-Means on all rows, one of its clusters for each.                      *)
Clustered(columns, n, rows) ==
  IF Cardinality(rows) < Clusters THEN Nones(n)
  ELSE Labelled(columns, n, rows, rows, LAMBDA i : {i})

ClusterAndLabel(n, p, q) ==
  LET Labels(columns) == Clustered(columns, n, MarketRows(columns, n, p, q))
  IN  Labels(MarketColumns(n, p, q))

(***************************************************************************)
(* System 1: the features and the trailing mean of the returns             *)
(***************************************************************************)
RegimeColumnsOf(features, q) ==
  [atr        |-> features.atr,
   adx        |-> features.adx,
   volatility |-> features.volatility,
   returns_1  |-> features.returns_1,
   trend      |-> Rolling(features.returns_1, q)]

RegimeColumns(n, p, q) == RegimeColumnsOf(ComputeFeatures(n, p, q), q)

RegimeRows(n, p, q) == Complete(RegimeColumns(n, p, q), n)

LoadFeatures(n, p, q) ==
  LET Whole(columns) == Kept(columns, n, Complete(columns, n))
  IN  Whole(RegimeColumns(n, p, q))

(* regime_smoothed, prob_*: scaler and model are fitted on all rows, and   *)
(* each is looked at with those before and after it.                       *)
Decoded(columns, n, rows) == Labelled(columns, n, rows, rows, LAMBDA i : rows)

ProcessGranularity(n, p, q) ==
  LET Labels(columns) == Decoded(columns, n, Complete(columns, n))
  IN  Labels(RegimeColumns(n, p, q))

(* _train_mask: the last HOLDOUT_FRAC = 1/5 is the holdout.                *)
TrainRows(rows) ==
  {i \in rows : 5 * Cardinality({j \in rows : j < i}) < 4 * Cardinality(rows)}

(* _reference_labels: fitted on the train rows, of which the scaler has    *)
(* seen the others too.                                                    *)
ReferenceTrialOf(rows) ==
  IF rows = {} THEN {} ELSE {[saw |-> rows, judged |-> rows \ TrainRows(rows)]}

ReferenceTrial(n, p, q) == ReferenceTrialOf(RegimeRows(n, p, q))

(***************************************************************************)
(* The causal labels: a fold is fitted on the rows before its window and   *)
(* labels those of the window, looking back only                           *)
(***************************************************************************)
First(rows) == Min(rows)
Last(rows)  == Max(rows)

FoldStarts(rows) ==
  IF rows = {} THEN {} ELSE Fold!OosStarts(First(rows), Last(rows))

\* Mutant: the bar the window begins with is fitted too.
TrainOfThrough(rows, start) == {i \in rows : i <= start}

TrainOf(rows, start) == {i \in rows : i < start}

WindowOf(rows, start) ==
  {i \in rows : start <= i /\ i < Min({start + Step, Last(rows)})}

FoldOf(rows, i) == {s \in FoldStarts(rows) : i \in WindowOf(rows, s)}

(* Filtered: the rows of the prefix up to the bar itself.                  *)
Visible(rows, i) == {j \in rows : j <= i}

(* regime_causal_raw; with no fold at all, one fit on everything.          *)
CausallyLabelled(columns, n, rows) ==
  LET Of(i) == CHOOSE s \in FoldOf(rows, i) : TRUE
  IN  IF FoldStarts(rows) = {}
      THEN Labelled(columns, n, rows, rows, LAMBDA i : {i})
      ELSE Pick(n, LAMBDA i :
             IF FoldOf(rows, i) = {} THEN None
             ELSE [of |-> {i},
                   on |-> Ground(columns, TrainOf(rows, Of(i)) \cup Visible(rows, i))])

CausalLabels(n, p, q) ==
  LET Labels(columns) == CausallyLabelled(columns, n, Complete(columns, n))
  IN  Labels(RegimeColumns(n, p, q))

TrialsOf(rows) ==
  {[saw |-> TrainOf(rows, s), judged |-> WindowOf(rows, s)] : s \in FoldStarts(rows)}

CausalTrials(n, p, q) == TrialsOf(RegimeRows(n, p, q))
=============================================================================
