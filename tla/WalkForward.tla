----------------------------- MODULE WalkForward -----------------------------
(* The validation design of System 1: walk-forward folds over a series, the  *)
(* assignment of entry times to them, and the debounce of regime labels.     *)
(* Time is counted in bars; a month is not told apart from its days.         *)
EXTENDS Integers, Sequences, FiniteSets, FiniteSetsExt

CONSTANTS
  MinTrain,  \* MIN_TRAIN_MONTHS: history before the first window
  Step,      \* STEP_MONTHS = OOS_WINDOW_MONTHS: the windows tile the rest
  MinBars    \* min_bars of persistence_smooth

ASSUME DesignAssumption == MinTrain \in Nat /\ Step \in Nat \ {0} /\ MinBars \in Nat \ {0}

(* default_folds: the starts of the out-of-sample windows of a series; none  *)
(* when min_train covers it.                                                 *)
OosStarts(first, end) ==
  {s \in first + MinTrain .. end - 1 : (s - first - MinTrain) % Step = 0}

(* The bars of those windows, the last one clamped to the end: every bar     *)
(* from the cutoff on except the last bar of the series.                     *)
OosBars(first, end) ==
  UNION {s..Min({s + Step, end}) - 1 : s \in OosStarts(first, end)}

(* assign_oos: the number of the last window that starts at or before t; 0   *)
(* is in-sample.  The last window has no end here.                           *)
Assign(t, starts) == Cardinality({s \in starts : s <= t})

(* persistence_smooth: a segment shorter than MinBars takes the label before *)
(* it, so a bar carries the label of the last segment begun by then that is  *)
(* long enough (or the first); a short opening run takes the label after it. *)
LongSegments(labels) ==
  {a \in DOMAIN labels :
     \/ a = 1
     \/ /\ labels[a - 1] # labels[a]
        /\ a + MinBars - 1 <= Len(labels)
        /\ \A b \in a..a + MinBars - 1 : labels[b] = labels[a]}

Absorbed(labels) ==
  [t \in DOMAIN labels |-> labels[Max({a \in LongSegments(labels) : a <= t})]]

SmoothAnyOpening(labels) ==
  LET kept == Absorbed(labels)
      other == {t \in DOMAIN kept : kept[t] # kept[1]}
  IN IF other = {} THEN kept
     ELSE [t \in DOMAIN kept |-> IF t < Min(other) THEN kept[Min(other)] ELSE kept[t]]

Smooth(labels) ==
  LET kept == Absorbed(labels)
      other == {t \in DOMAIN kept : kept[t] # kept[1]}
      run == Min(other) - 1
  IN IF other # {} /\ run < MinBars
     THEN [t \in DOMAIN kept |-> IF t <= run THEN kept[run + 1] ELSE kept[t]]
     ELSE kept
=============================================================================
