----------------------------- MODULE RuleSignals -----------------------------
(***************************************************************************)
(* The signals of the rule engine (src/layer2_signals/signal_engine) for   *)
(* one configuration on n bars: an indicator of the ta library, the cut of *)
(* the warm-up, and a rule of one or two conditions on it. For each bar,   *)
(* from which bars it was decided that the rule triggers there; None where *)
(* it cannot, whatever the prices. A comparison with a missing number does *)
(* not hold (!=, which then does, is in no configuration).                 *)
(***************************************************************************)
EXTENDS ResearchIndicators

CONSTANTS
  AdxWarmup,      \* warmup_period of ADX in the registry, 50
  SmoothWindow    \* smooth_window of STOCH, 3

(* _INDICATORS                                                             *)
Registry == {"EMA", "ADX", "BB", "DONCHIAN", "RSI", "STOCH", "ATR"}

(* The registry's create and the output method.                            *)
Indicator(key, n, w) ==
  CASE key \in {"BB", "DONCHIAN"} -> TaBand(n, w)
    [] key = "EMA"   -> TaEma(n, w)
    [] key = "RSI"   -> TaRsi(n, w)
    [] key = "ADX"   -> TaAdx(n, w)
    [] key = "ATR"   -> TaAtr(n, w)
    [] key = "STOCH" -> Rolling(TaBand(n, w), SmoothWindow)

(* The window if the configuration gives one, else what the registry says: *)
(* the default window, and more for ADX.                                   *)
WarmupPeriod(key, w, given) == IF key = "ADX" /\ ~given THEN AdxWarmup ELSE w

(* Indicators are computed on all bars, then the first are dropped; what   *)
(* looks back to the bar before finds none at the first that is kept.      *)
Rows(key, n, w, given) ==
  LET warmup == WarmupPeriod(key, w, given)
  IN  [price |-> Blank(Column(n), warmup), value |-> Blank(Indicator(key, n, w), warmup)]

(***************************************************************************)
(* Conditions                                                              *)
(***************************************************************************)
(* The figure of the left side's bar.                                      *)
Compare(left, right) ==
  Pick(Len(left), LAMBDA i :
    IF None \in {left[i], right[i]} THEN None
    ELSE [of |-> left[i].of, on |-> left[i].on \cup right[i].on])

(* <column>.prev                                                           *)
Previous(s) == Before(s, 1)

(* The left side now and a bar ago, against the right side now.            *)
Cross(left, right) == Compare(Compare(left, right), Previous(left))

(***************************************************************************)
(* Rules                                                                   *)
(***************************************************************************)
All(conditions) ==
  Pick(Len(conditions[1]), LAMBDA i : Joint({conditions[c][i] : c \in DOMAIN conditions}))

Any(conditions) ==
  Pick(Len(conditions[1]), LAMBDA i :
    LET known == {conditions[c][i] : c \in DOMAIN conditions} \ {None}
    IN  IF known = {} THEN None ELSE Joint(known))

(* _process_strategy, with a rule of each form.                            *)
ProcessStrategy(key, n, w, given) ==
  LET rows  == Rows(key, n, w, given)
      level == rows.value                         \* against a literal
      above == Compare(rows.price, rows.value)    \* against a column
      ago   == Compare(rows.value, Previous(rows.value))
      cross == Cross(rows.price, rows.value)
  IN  [level |-> level, above |-> above, ago |-> ago, cross |-> cross,
       both |-> All(<<level, ago>>), either |-> Any(<<level, ago>>)]

(***************************************************************************)
(* Several rules at a bar: values are 1 and -1, triggered the places of    *)
(* those that hold                                                         *)
(***************************************************************************)
Sign(x) == IF x > 0 THEN 1 ELSE IF x < 0 THEN -1 ELSE 0

(* evaluate_consolidated                                                   *)
Consolidated(values, triggered) ==
  Sign(MapThenSumSet(LAMBDA k : values[k], triggered))

(* The value of the rule whose id and description the row carries: the     *)
(* first that triggered.                                                   *)
Reason(values, triggered) ==
  IF triggered = {} THEN None ELSE values[Min(triggered)]

RuleLists == UNION {[1..k -> {1, -1}] : k \in 1..3}

(***************************************************************************)
(* Said of the code, and not so: TLC refutes it (README.md)                *)
(***************************************************************************)
(* "Conflicting signals (1 and -1) result in 0" (rules/evaluator.py:358).  *)
ConflictIsZero ==
  \A values \in RuleLists : \A triggered \in SUBSET DOMAIN values :
    {1, -1} \subseteq {values[k] : k \in triggered} => Consolidated(values, triggered) = 0

(* "Find which rule triggered" (core/engine.py:518): a row that carries a  *)
(* rule has that rule's signal.                                            *)
ReasonFits ==
  \A values \in RuleLists : \A triggered \in SUBSET DOMAIN values :
    Consolidated(values, triggered) # 0 =>
      Consolidated(values, triggered) = Reason(values, triggered)
=============================================================================
