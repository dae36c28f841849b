--------------------------- MODULE MCLiveExecution ---------------------------
(* Constants for model checking LiveExecution.                             *)
EXTENDS LiveExecution

Signal(time, asset, side, gran) ==
  [time |-> time, asset |-> asset, strategy |-> 1, side |-> side, gran |-> gran]

(* One key from two granularities.                                         *)
Colliding == {Signal(1, "EUR", 1, "H1"), Signal(1, "EUR", 1, "H4")}

(* Both sides of an asset at one time, and once more later.                *)
BothSides == {Signal(1, "EUR", 1, "H1"), Signal(1, "EUR", -1, "H1"), Signal(2, "EUR", 1, "H1")}

(* Three assets that correlate and one without history.                    *)
Spread ==
  {Signal(1, "EUR", 1, "H1"), Signal(1, "GBP", 1, "H1"), Signal(1, "CHF", 1, "H1"),
   Signal(2, "JPY", 1, "H1")}

AllSignals == Colliding \cup BothSides \cup Spread

(* How often each was backtested before: not at all, or the last one so    *)
(* often that the query's limit cuts the rows of the others.               *)
NoOutcomes   == [s \in AllSignals |-> 0]
LateOutcomes == [s \in AllSignals |-> IF s.time = 2 /\ s.asset = "EUR" THEN 3 ELSE 1]

AllDays == {[signals |-> Colliding, outcomes |-> NoOutcomes, runs |-> {1, 2}, audits |-> {1, 2}],
            [signals |-> BothSides, outcomes |-> LateOutcomes, runs |-> {1}, audits |-> {1}],
            [signals |-> Spread, outcomes |-> NoOutcomes, runs |-> {1}, audits |-> {}]}

OneDay == {[signals |-> BothSides, outcomes |-> NoOutcomes, runs |-> {1}, audits |-> {}]}

CorrelatedAssets(a, b) == a # b /\ {a, b} \subseteq {"EUR", "GBP", "CHF", "JPY"}
EnoughBars(a) == a # "JPY"
==============================================================================
