---------------------------- MODULE MCArtifacts ----------------------------
(***************************************************************************)
(* The second and the third step of System 1's pipeline and what they      *)
(* write: the vetting with its map and weights, and the gatekeeper with    *)
(* its bundle. They share no state, so each is looked at while the other   *)
(* rests: part says which.                                                 *)
(***************************************************************************)
EXTENDS ChampionBundle, Vetting

VARIABLE part   \* which of the two is looked at

(* Cells of one regime, of two granularities, that pass all gates.         *)
Cell(strategy, granularity, sharpe, trades) ==
  [strategy |-> strategy, name |-> strategy, granularity |-> granularity,
   regime |-> "Ranging", trades |-> trades, win |-> 40, pf |-> 20, sharpe |-> sharpe,
   drawdown |-> 10, recovery |-> 40, months |-> 60]

First  == Cell(1, "H1", 30, 30)
Second == Cell(2, "H1", 20, 30)
Third  == Cell(3, "H1", 10, 30)
Tied   == Cell(2, "H4", 10, 25)
Last5  == Cell(3, "H4", 8, 30)
Passes == {First, Second, Third, Tied, Last5}

(* A cell each that only one rule keeps out, one that keeps all out.       *)
Others1 ==
  {[First EXCEPT !.strategy = 4, !.sharpe = 7], [First EXCEPT !.strategy = 4, !.months = 59],
   [First EXCEPT !.strategy = 4, !.pf = Missing, !.recovery = Missing],
   [First EXCEPT !.strategy = 4, !.sharpe = 150, !.trades = 19],
   [First EXCEPT !.strategy = 4, !.sharpe = 150],
   [First EXCEPT !.strategy = 4, !.regime = "UNKNOWN"],
   [First EXCEPT !.strategy = 4, !.regime = "High-Vol"],
   [First EXCEPT !.strategy = 4]}

MCTables ==
  {{First, Third}, {First, Second, Third}, {First, Second, Third, Tied}, Passes}
    \cup {{First, Second, c} : c \in Others1}

(* In proportion, the second of three would have a quarter, and has less   *)
(* than that once the third is given one.                                  *)
MCOdds == (170 :> 1) @@ (180 :> 2) @@ (230 :> 4) @@ (280 :> 9)

MCRegimes == {"Trending-Up", "Trending-Down", "Ranging", "High-Vol"}

TrainerSymmetry == Permutations(Trainers) \cup Permutations(Vetters)

MCInit ==
  /\ Init /\ VetInit
  /\ \/ part = "gatekeeper"
     \/ part = "vetting" /\ file = [ns \in Namespaces |-> NoBundle]

MCNext ==
  /\ \/ part = "gatekeeper" /\ Next /\ UNCHANGED vetVars
     \/ part = "vetting" /\ VetNext /\ UNCHANGED vars
  /\ UNCHANGED part

MCSpec == MCInit /\ [][MCNext]_<<part, vars, vetVars>>
=============================================================================
