---------------------------- MODULE MCAttribution ----------------------------
(* A strategy that trades on three of seven bars, one retired row, two loaders;*)
(* the history has its first fold with the fourth bar.                         *)
EXTENDS Attribution, TLC
CONSTANTS up, down, l1, l2
TwoLabels  == {up, down}
TwoLoaders == {l1, l2}
Entering   == {3, 5, 7}
Symmetry   == Permutations({l1, l2}) \cup Permutations({up, down})
Retired    == {3}
==============================================================================
