------------------------------ MODULE Backtest ------------------------------
(* The backtest engine of layer 0: one pass over the bars of a series that   *)
(* opens and closes one trade at a time, and a second pass over the same     *)
(* bars that turns the list of trades into an equity curve.  Every figure of *)
(* the strategy qualification comes from these two passes.  Prices are whole *)
(* multiples of the slippage grid; money is price difference (the code       *)
(* multiplies by ten dollars a pip).  The strategy, which sees the bars up   *)
(* to the current one, is an arbitrary choice of signal, filter answer and   *)
(* distances at each bar.                                                    *)
EXTENDS Integers, Sequences, FiniteSets, SequencesExt

CONSTANTS
  Prices,       \* the prices a bar may reach
  Bars,         \* how many bars follow the warm-up
  Distances,    \* pairs <<stop distance, target distance>> the ATR may give
  MaxBarsHold,  \* StrategyConfig.max_bars_hold
  Slippage,     \* BacktestConfig.slippage_pips
  Friction      \* spread and commission of one trade

ASSUME PricesAssumption == Prices \subseteq Int
ASSUME BarsAssumption == Bars \in Nat \ {0}
ASSUME DistancesAssumption == Distances \subseteq (Nat \ {0}) \X (Nat \ {0})
ASSUME HoldAssumption == MaxBarsHold \in Nat \ {0}
ASSUME CostsAssumption == Slippage \in Nat /\ Friction \in Nat

VARIABLES
  i,         \* bars processed so far by the pass under way
  last,      \* the close of bar i (0 before the first)
  position,  \* current_position: <<>> or <<trade>>
  trades,    \* the closed trades, in the order they closed
  pass,      \* "simulate", "curve" or "done"
  equity,    \* equity_values
  next,      \* trade_idx: the first trade the curve has not opened
  open       \* open_trade of the curve: <<>> or <<trade>>

vars == <<i, last, position, trades, pass, equity, next, open>>

Directions == {1, -1}
Signals == {1, -1, 0}
Reasons == {"stop_loss", "take_profit", "time_stop", "signal_reverse", "end_of_data"}

(* The OHLC bars the loaders deliver: the close lies inside the range.       *)
Candles == {b \in [low : Prices, high : Prices, close : Prices] :
              b.low <= b.close /\ b.close <= b.high}

-----------------------------------------------------------------------------
(* The trades                                                                *)

(* How a bar ends an open trade: the first of stop, target, time and         *)
(* reversal that applies, as <<reason, price>>; <<>> when none does.  A stop *)
(* or target fills at its own price even when the bar never traded there.    *)
StopHit(t, b) == IF t.direction = 1 THEN b.low <= t.stop ELSE b.high >= t.stop
TargetHit(t, b) == IF t.direction = 1 THEN b.high >= t.target ELSE b.low <= t.target
TimeUp(t, at) == at - t.entered >= MaxBarsHold
Reversed(t, signal) == signal \notin {0, t.direction}
Exit(t, b, at, signal) ==
  CASE StopHit(t, b) -> <<"stop_loss", t.stop>>
    [] ~StopHit(t, b) /\ TargetHit(t, b) -> <<"take_profit", t.target>>
    [] ~StopHit(t, b) /\ ~TargetHit(t, b) /\ TimeUp(t, at) -> <<"time_stop", b.close>>
    [] ~StopHit(t, b) /\ ~TargetHit(t, b) /\ ~TimeUp(t, at) /\ Reversed(t, signal) ->
         <<"signal_reverse", b.close>>
    [] OTHER -> <<>>

(* A trade with its exit filled in; slip is the slippage the exit pays (the  *)
(* close at the end of the data pays none).                                  *)
ClosedSlippingDown(t, reason, price, at, slip) ==
  [t EXCEPT !.exited = at, !.reason = reason,
            !.pnl = t.direction * (price - slip - t.entry) - Friction]
Closed(t, reason, price, at, slip) ==
  [t EXCEPT !.exited = at, !.reason = reason,
            !.pnl = t.direction * (price - t.entry) - slip - Friction]

Opened(direction, distance, price, at) ==
  LET entry == price + direction * Slippage
  IN [entered |-> at, direction |-> direction, entry |-> entry,
      stop |-> entry - direction * distance[1],
      target |-> entry + direction * distance[2],
      exited |-> 0, reason |-> "", pnl |-> 0]

-----------------------------------------------------------------------------
(* The steps                                                                 *)

Init ==
  /\ i = 0 /\ last = 0
  /\ position = <<>> /\ trades = <<>>
  /\ pass = "simulate"
  /\ equity = <<>> /\ next = 1 /\ open = <<>>

(* One iteration of the simulation loop: the exit first, then, when flat     *)
(* (the trade just closed included) and the filter agrees, an entry at the   *)
(* close of the same bar.                                                    *)
SimulateBar(b, signal, calm, distance) ==
  LET at == i + 1
      how == IF position = <<>> THEN <<>> ELSE Exit(position[1], b, at, signal)
      flat == position = <<>> \/ how # <<>>
  IN /\ pass = "simulate" /\ i < Bars
     /\ i' = at /\ last' = b.close
     /\ trades' = IF how = <<>> THEN trades
                  ELSE Append(trades, Closed(position[1], how[1], how[2], at, Slippage))
     /\ position' = IF ~flat THEN position
                    ELSE IF signal # 0 /\ calm THEN <<Opened(signal, distance, b.close, at)>>
                    ELSE <<>>
     /\ UNCHANGED <<pass, equity, next, open>>

(* After the last bar an open trade closes at the last close.                *)
EndOfData ==
  /\ pass = "simulate" /\ i = Bars
  /\ trades' = IF position = <<>> THEN trades
               ELSE Append(trades, Closed(position[1], "end_of_data", last, Bars, 0))
  /\ position' = <<>>
  /\ pass' = "curve" /\ i' = 1 /\ equity' = <<0>>
  /\ UNCHANGED <<last, next, open>>

(* The curve may open a trade on a bar that realized one.                    *)
FreeIfIdle(realize) == open = <<>>
Free(realize) == open = <<>> \/ realize

(* One iteration of the curve's loop, which starts at the second bar: at     *)
(* most one trade is realized and at most one is opened.  Every trade has an *)
(* exit by now, so nothing unrealized is ever added.                         *)
CurveBar ==
  LET at == i + 1
      realize == open # <<>> /\ open[1].exited <= at
      take == Free(realize) /\ next <= Len(trades) /\ trades[next].entered <= at
  IN /\ pass = "curve" /\ i < Bars
     /\ i' = at
     /\ equity' = Append(equity, Last(equity) + IF realize THEN open[1].pnl ELSE 0)
     /\ open' = IF take THEN <<trades[next]>> ELSE IF realize THEN <<>> ELSE open
     /\ next' = IF take THEN next + 1 ELSE next
     /\ UNCHANGED <<last, position, trades, pass>>

Return ==
  /\ pass = "curve" /\ i = Bars
  /\ pass' = "done"
  /\ UNCHANGED <<i, last, position, trades, equity, next, open>>

Simulate == \E b \in Candles, signal \in Signals, calm \in BOOLEAN, distance \in Distances :
              SimulateBar(b, signal, calm, distance)

Next == Simulate \/ EndOfData \/ CurveBar \/ Return

Spec == Init /\ [][Next]_vars

-----------------------------------------------------------------------------
(* Properties                                                                *)

Trade == [entered : 1..Bars, direction : Directions, entry : Int, stop : Int,
          target : Int, exited : 0..Bars, reason : Reasons \cup {""}, pnl : Int]

TypeOK ==
  /\ i \in 0..Bars /\ last \in Prices \cup {0}
  /\ position \in Seq(Trade) /\ Len(position) <= 1 /\ (position # <<>> => position[1].exited = 0)
  /\ trades \in Seq(Trade) /\ equity \in Seq(Int)
  /\ pass \in {"simulate", "curve", "done"}
  /\ next \in 1..Len(trades) + 1
  /\ open \in Seq(Trade) /\ Len(open) <= 1

(* The profit of the first n trades.                                         *)
Profit(n) == FoldLeft(LAMBDA sum, t : sum + t.pnl, 0, SubSeq(trades, 1, n))

ClosedBy(bar) == Cardinality({k \in DOMAIN trades : trades[k].exited <= bar})

(* Whatever ends a trade - the stop, the target, a reversal, the clock or    *)
(* the end of the data - it loses at most its risk and the costs, and gains  *)
(* at most its reward: the close a late exit is taken at has not passed      *)
(* either side unseen (_check_exit looks at stop and target on every bar     *)
(* before anything else).                                                    *)
PnlWithinBracket ==
  \A k \in DOMAIN trades :
    LET t == trades[k]
        risk == t.direction * (t.entry - t.stop)
        reward == t.direction * (t.target - t.entry)
    IN t.pnl \in -(risk + Slippage + Friction)..(reward - Friction)

(* The trades are consecutive: each opens at or after the bar the one before *)
(* closed on, lasts at least a bar unless the data ended, and is never held  *)
(* longer than max_bars_hold, although only one trade is looked at a bar.    *)
OneTradeAtATime ==
  /\ \A k \in DOMAIN trades :
       LET t == trades[k]
       IN /\ t.exited - t.entered <= MaxBarsHold
          /\ t.exited > t.entered \/ t.reason = "end_of_data"
  /\ \A k \in 1..Len(trades) - 1 : trades[k].exited <= trades[k + 1].entered

(* The equity of a bar is the profit of a prefix of the trades that holds    *)
(* every trade closed before that bar and none closed after it: the curve    *)
(* handles at most one trade a bar and still never falls further behind.     *)
EquityLagsOneBar ==
  equity # <<>> =>
    \E k \in ClosedBy(Len(equity) - 1)..ClosedBy(Len(equity)) : Last(equity) = Profit(k)

-----------------------------------------------------------------------------
(* Said of the code, and not so: TLC refutes it (README.md).                 *)

(* The analyzer's total_return takes the last equity value for the profit of *)
(* all the trades.                                                           *)
FinalEquityComplete == pass = "done" => Last(equity) = Profit(Len(trades))
=============================================================================
