--------------------------- MODULE BacktestProofs ---------------------------
(***************************************************************************)
(* Theorems about the research side's prices: Backtest, for every price    *)
(* grid, every number of bars, every bracket and holding limit, and any    *)
(* slippage and costs, and PriceIngestion, for every market and any runs.  *)
(***************************************************************************)
EXTENDS Backtest, PriceIngestion, FiniteSetTheorems, WellFoundedInduction, SequenceTheorems, TLAPS

(***************************************************************************)
(* The trades                                                              *)
(***************************************************************************)

(* What an open trade looks like after the bar it was looked at last: just *)
(* entered on that bar, or with its close strictly inside the bracket, and *)
(* with time left.                                                         *)
Sound(t, at, close) ==
  /\ t \in Trade
  /\ t.exited = 0
  /\ t.entered <= at
  /\ at - t.entered < MaxBarsHold
  /\ t.direction = 1  => t.stop < t.entry /\ t.entry < t.target
  /\ t.direction = -1 => t.target < t.entry /\ t.entry < t.stop
  /\ \/ t.entered = at /\ t.direction = 1 /\ close = t.entry - Slippage
     \/ t.entered = at /\ t.direction = -1 /\ close = t.entry + Slippage
     \/ t.entered < at /\ t.direction = 1 /\ t.stop < close /\ close < t.target
     \/ t.entered < at /\ t.direction = -1 /\ t.target < close /\ close < t.stop

(* A closed trade stayed in its bracket and its time.                      *)
Bracketed(t) ==
  LET risk == t.direction * (t.entry - t.stop)
      reward == t.direction * (t.target - t.entry)
  IN  t.pnl \in -(risk + Slippage + Friction)..(reward - Friction)

InTime(t) ==
  /\ t.exited - t.entered <= MaxBarsHold
  /\ t.exited > t.entered \/ t.reason = "end_of_data"

Finished(t, at) == t \in Trade /\ t.exited <= at /\ Bracketed(t) /\ InTime(t)

(* The fields of a trade.                                                  *)
LEMMA TradeFields ==
  ASSUME NEW t \in Trade
  PROVE  /\ t.entry \in Int /\ t.stop \in Int /\ t.target \in Int /\ t.pnl \in Int
         /\ t.entered \in 1..Bars /\ t.exited \in 0..Bars /\ t.direction \in {1, -1}
BY DEF Trade, Directions

(* A closed trade is a trade, with the fields of the open one.             *)
LEMMA ClosedFields ==
  ASSUME NEW t \in Trade, NEW reason \in Reasons, NEW price \in Int, NEW at \in 0..Bars,
         NEW slip \in Nat
  PROVE  LET c == Closed(t, reason, price, at, slip)
         IN  /\ c \in Trade
             /\ c.entered = t.entered /\ c.direction = t.direction /\ c.entry = t.entry
             /\ c.stop = t.stop /\ c.target = t.target
             /\ c.exited = at /\ c.reason = reason
             /\ c.pnl = t.direction * (price - t.entry) - slip - Friction
<1> DEFINE pnl == t.direction * (price - t.entry) - slip - Friction
<1>1. pnl \in Int
  BY TradeFields, CostsAssumption
<1> HIDE DEF pnl
<1>2. Closed(t, reason, price, at, slip)
        = [t EXCEPT !.exited = at, !.reason = reason, !.pnl = pnl]
  BY DEF Closed, pnl
<1>3. [t EXCEPT !.exited = at, !.reason = reason, !.pnl = pnl] \in Trade
  BY <1>1 DEF Trade
<1> QED BY <1>2, <1>3 DEF Trade, pnl

(* A trade that is opened is sound on its first bar.                       *)
LEMMA OpenedSound ==
  ASSUME NEW direction \in Directions, NEW distance \in Distances, NEW price \in Int,
         NEW at \in 1..Bars
  PROVE  Sound(Opened(direction, distance, price, at), at, price)
<1> DEFINE t == Opened(direction, distance, price, at)
<1>1. distance[1] \in Nat \ {0} /\ distance[2] \in Nat \ {0}
  BY DistancesAssumption
<1>2. CASE direction = 1
  BY <1>1, <1>2, CostsAssumption, HoldAssumption, BarsAssumption
     DEF Opened, Sound, Trade, Directions, Reasons
<1>3. CASE direction = -1
  BY <1>1, <1>3, CostsAssumption, HoldAssumption, BarsAssumption
     DEF Opened, Sound, Trade, Directions, Reasons
<1> QED BY <1>2, <1>3 DEF Directions

(* A bar either leaves an open trade sound or closes it within its bracket *)
(* and its time.                                                           *)
LEMMA ExitSound ==
  ASSUME NEW at \in 1..Bars, NEW close \in Int, NEW t, Sound(t, at - 1, close),
         NEW b \in Candles, NEW signal \in Signals
  PROVE  LET how == Exit(t, b, at, signal)
         IN  /\ how = <<>> => Sound(t, at, b.close)
             /\ how # <<>> => Finished(Closed(t, how[1], how[2], at, Slippage), at)
<1> DEFINE how == Exit(t, b, at, signal)
<1>1. /\ b.low \in Int /\ b.high \in Int /\ b.close \in Int
      /\ b.low <= b.close /\ b.close <= b.high
  BY PricesAssumption DEF Candles
<1>2. /\ t \in Trade /\ t.entry \in Int /\ t.stop \in Int /\ t.target \in Int
      /\ t.entered \in 1..Bars /\ t.direction \in {1, -1} /\ MaxBarsHold \in Nat
      /\ t.entered < at /\ at - t.entered <= MaxBarsHold
  BY TradeFields, HoldAssumption, BarsAssumption DEF Sound
<1>3. ASSUME how = <<>> PROVE Sound(t, at, b.close)
  <2>1. ~StopHit(t, b) /\ ~TargetHit(t, b) /\ ~TimeUp(t, at)
    BY <1>3 DEF Exit
  <2> QED BY <2>1, <1>1, <1>2 DEF Sound, StopHit, TargetHit, TimeUp
<1>4. ASSUME how # <<>> PROVE Finished(Closed(t, how[1], how[2], at, Slippage), at)
  <2>1. /\ how[1] \in Reasons
        /\ how[2] \in Int
        /\ \/ how[2] = t.stop
           \/ how[2] = t.target
           \/ ~StopHit(t, b) /\ ~TargetHit(t, b) /\ how[2] = b.close
    BY <1>1, <1>2, <1>4 DEF Exit, Reasons
  <2> HIDE DEF how
  <2> DEFINE c == Closed(t, how[1], how[2], at, Slippage)
  <2>2. /\ c \in Trade
        /\ c.entered = t.entered /\ c.direction = t.direction /\ c.entry = t.entry
        /\ c.stop = t.stop /\ c.target = t.target
        /\ c.exited = at /\ c.reason = how[1]
        /\ c.pnl = t.direction * (how[2] - t.entry) - Slippage - Friction
    <3>1. at \in 0..Bars /\ Slippage \in Nat
      BY BarsAssumption, CostsAssumption
    <3>2. t \in Trade /\ how[1] \in Reasons /\ how[2] \in Int
      BY <2>1, <1>2
    <3> QED BY ONLY <3>1, <3>2, ClosedFields, ZenonT(30)
  <2> HIDE DEF c
  <2>3. c.pnl \in Int
    BY <2>2, TradeFields
  <2>4. ASSUME t.direction = 1 PROVE Finished(c, at)
    <3>1. t.stop <= how[2] /\ how[2] <= t.target
      BY <2>1, <2>4, <1>1, <1>2 DEF StopHit, TargetHit, Sound
    <3> QED BY <2>2, <2>4, <3>1, <2>1, <1>2, CostsAssumption
            DEF Finished, Bracketed, InTime
  <2>5. ASSUME t.direction = -1 PROVE Finished(c, at)
    <3>1. t.target <= how[2] /\ how[2] <= t.stop
      BY <2>1, <2>5, <1>1, <1>2 DEF StopHit, TargetHit, Sound
    <3> QED BY <2>2, <2>5, <3>1, <2>1, <1>2, CostsAssumption
            DEF Finished, Bracketed, InTime
  <2>6. Finished(c, at)
    BY <2>4, <2>5, <1>2
  <2> QED BY <2>6 DEF c
<1> QED BY <1>3, <1>4

(* The close at the end of the data is within bracket and time as well.    *)
LEMMA EndSound ==
  ASSUME NEW close \in Int, NEW t, Sound(t, Bars, close)
  PROVE  Finished(Closed(t, "end_of_data", close, Bars, 0), Bars)
<1> DEFINE c == Closed(t, "end_of_data", close, Bars, 0)
<1>1. /\ t \in Trade /\ t.entry \in Int /\ t.stop \in Int /\ t.target \in Int
      /\ t.entered \in 1..Bars /\ t.direction \in {1, -1} /\ MaxBarsHold \in Nat
  BY TradeFields, HoldAssumption DEF Sound
<1>2. /\ c \in Trade
      /\ c.entered = t.entered /\ c.direction = t.direction /\ c.entry = t.entry
      /\ c.stop = t.stop /\ c.target = t.target
      /\ c.exited = Bars /\ c.reason = "end_of_data"
      /\ c.pnl = t.direction * (close - t.entry) - 0 - Friction
  <2>1. Bars \in 0..Bars /\ 0 \in Nat /\ "end_of_data" \in Reasons
    BY BarsAssumption DEF Reasons
  <2>2. t \in Trade /\ close \in Int
    BY <1>1
  <2> QED BY ONLY <2>1, <2>2, ClosedFields, Zenon
<1>3. c.pnl \in Int
  BY <1>2, TradeFields
<1> HIDE DEF c
<1>4. ASSUME t.direction = 1 PROVE Finished(c, Bars)
  BY <1>1, <1>2, <1>3, <1>4, CostsAssumption, BarsAssumption
     DEF Sound, Finished, Bracketed, InTime
<1>5. ASSUME t.direction = -1 PROVE Finished(c, Bars)
  BY <1>1, <1>2, <1>3, <1>5, CostsAssumption, BarsAssumption
     DEF Sound, Finished, Bracketed, InTime
<1> QED BY <1>1, <1>4, <1>5 DEF c

(***************************************************************************)
(* The inductive invariant                                                 *)
(***************************************************************************)

Positions == {<<>>} \cup {<<t>> : t \in Trade}

(* The bar no closed trade lies beyond.                                    *)
Reached == IF pass = "simulate" THEN i ELSE Bars

(* The open trade is sound and follows the last closed one.                *)
PositionSound ==
  position # <<>> =>
    /\ pass = "simulate"
    /\ Sound(position[1], i, last)
    /\ trades # <<>> => trades[Len(trades)].exited <= position[1].entered

TradesSound ==
  /\ \A k \in 1..Len(trades) : Finished(trades[k], Reached)
  /\ \A k \in 1..Len(trades) - 1 : trades[k].exited <= trades[k + 1].entered

Inv ==
  /\ pass \in {"simulate", "curve", "done"}
  /\ i \in 0..Bars /\ last \in Prices \cup {0}
  /\ position \in Positions /\ trades \in Seq(Trade)
  /\ equity \in Seq(Int) /\ (pass # "simulate" => equity # <<>>)
  /\ next \in 1..Len(trades) + 1 /\ (pass = "simulate" => next = 1)
  /\ open \in Positions
  /\ PositionSound
  /\ TradesSound

(* Appending a finished trade that follows the last one keeps them sound.  *)
LEMMA AppendSound ==
  ASSUME NEW s \in Seq(Trade), NEW c, NEW at \in 0..Bars, NEW was \in 0..at,
         Finished(c, at),
         s # <<>> => s[Len(s)].exited <= c.entered,
         \A k \in 1..Len(s) : Finished(s[k], was),
         \A k \in 1..Len(s) - 1 : s[k].exited <= s[k + 1].entered
  PROVE  LET a == Append(s, c)
         IN  /\ a \in Seq(Trade)
             /\ Len(a) = Len(s) + 1 /\ a[Len(a)] = c
             /\ \A k \in 1..Len(a) : Finished(a[k], at)
             /\ \A k \in 1..Len(a) - 1 : a[k].exited <= a[k + 1].entered
<1> DEFINE a == Append(s, c)
<1>1. c \in Trade
  BY DEF Finished
<1>2. a \in Seq(Trade) /\ Len(a) = Len(s) + 1 /\ a[Len(a)] = c
      /\ \A k \in 1..Len(s) : a[k] = s[k]
  BY <1>1
<1> HIDE DEF a
<1>3. ASSUME NEW k \in 1..Len(s) PROVE Finished(s[k], at)
  <2>1. s[k] \in Trade /\ s[k].exited \in 0..Bars
    BY TradeFields
  <2> QED BY <2>1, BarsAssumption DEF Finished
<1>4. ASSUME NEW k \in 1..Len(a) PROVE Finished(a[k], at)
  BY <1>2, <1>3
<1>5. ASSUME NEW k \in 1..Len(a) - 1 PROVE a[k].exited <= a[k + 1].entered
  <2>1. CASE k = Len(s)
    BY <1>2, <2>1
  <2>2. CASE k # Len(s)
    <3>1. k \in 1..Len(s) - 1 /\ k \in 1..Len(s) /\ k + 1 \in 1..Len(s)
      BY <1>2, <2>2
    <3> QED BY <1>2, <3>1
  <2> QED BY <2>1, <2>2
<1> QED BY <1>2, <1>4, <1>5 DEF a

(* Finished only asks for more time the later the bar.                     *)
LEMMA FinishedLater ==
  ASSUME NEW at \in 0..Bars, NEW was \in 0..at, NEW t, Finished(t, was)
  PROVE  Finished(t, at)
BY TradeFields, BarsAssumption DEF Finished

LEMMA InitInv == Init => Inv
BY BarsAssumption DEF Init, Inv, Positions, PositionSound, TradesSound

LEMMA SimulateInv ==
  ASSUME Inv, NEW b \in Candles, NEW signal \in Signals, NEW calm \in BOOLEAN,
         NEW distance \in Distances, SimulateBar(b, signal, calm, distance)
  PROVE  Inv'
<1> DEFINE at == i + 1
           t == position[1]
           how == IF position = <<>> THEN <<>> ELSE Exit(t, b, at, signal)
           c == Closed(t, how[1], how[2], at, Slippage)
           o == Opened(signal, distance, b.close, at)
           flat == position = <<>> \/ how # <<>>
<1>1. /\ pass = "simulate" /\ i < Bars /\ i' = at /\ last' = b.close
      /\ trades' = IF how = <<>> THEN trades ELSE Append(trades, c)
      /\ position' = IF ~flat THEN position ELSE IF signal # 0 /\ calm THEN <<o>> ELSE <<>>
      /\ pass' = pass /\ equity' = equity /\ next' = next /\ open' = open
  BY Zenon DEF SimulateBar
<1>2. /\ i \in 0..Bars /\ at \in 1..Bars /\ i \in 0..at /\ at - 1 = i /\ Bars \in Nat
      /\ b.close \in Prices /\ b.close \in Int
      /\ last \in Int
  BY <1>1, BarsAssumption, PricesAssumption DEF Inv, Candles
<1>3. ASSUME position # <<>>
      PROVE  /\ Sound(t, i, last)
             /\ how = <<>> => Sound(t, at, b.close)
             /\ how # <<>> => Finished(c, at) /\ c.entered = t.entered /\ c.exited = at
             /\ trades # <<>> => trades[Len(trades)].exited <= t.entered
  <2>1. Sound(t, i, last) /\ (trades # <<>> => trades[Len(trades)].exited <= t.entered)
    BY <1>3 DEF Inv, PositionSound
  <2>2. Sound(t, at - 1, last)
    BY <2>1, <1>2
  <2>3. how = Exit(t, b, at, signal)
    BY <1>3
  <2> DEFINE h == Exit(t, b, at, signal)
  <2> HIDE DEF how, t
  <2>4. /\ h = <<>> => Sound(t, at, b.close)
        /\ h # <<>> => Finished(Closed(t, h[1], h[2], at, Slippage), at)
    BY ONLY <2>2, <1>2, ExitSound, b \in Candles, signal \in Signals, Zenon
  <2>5. c.entered = t.entered /\ c.exited = at
    BY <2>1 DEF Closed, Sound, Trade
  <2> QED BY <2>1, <2>3, <2>4, <2>5
<1>4. \A k \in 1..Len(trades) : Finished(trades[k], i)
  BY <1>1 DEF Inv, TradesSound, Reached
<1>5. /\ trades' \in Seq(Trade)
      /\ Len(trades') >= Len(trades)
      /\ \A k \in 1..Len(trades') : Finished(trades'[k], at)
      /\ \A k \in 1..Len(trades') - 1 : trades'[k].exited <= trades'[k + 1].entered
  <2>1. CASE how = <<>>
    <3>1. trades' = trades
      BY <1>1, <2>1
    <3>2. \A k \in 1..Len(trades) : Finished(trades[k], at)
      BY <1>4, <1>2, FinishedLater
    <3> QED BY <3>1, <3>2 DEF Inv, TradesSound
  <2>2. CASE how # <<>>
    <3>1. trades' = Append(trades, c) /\ position # <<>>
      BY <1>1, <2>2
    <3>2. Finished(c, at) /\ c.entered = t.entered
          /\ (trades # <<>> => trades[Len(trades)].exited <= t.entered)
      BY <1>3, <2>2, <3>1
    <3>3. /\ trades \in Seq(Trade) /\ at \in 0..Bars
          /\ \A k \in 1..Len(trades) - 1 : trades[k].exited <= trades[k + 1].entered
          /\ trades # <<>> => trades[Len(trades)].exited <= c.entered
      <4>1. trades # <<>> => trades[Len(trades)].exited <= c.entered
        BY ONLY <3>2, Zenon
      <4>2. at \in 0..Bars
        BY <1>2
      <4>3. trades \in Seq(Trade) /\ TradesSound
        BY Zenon DEF Inv
      <4> HIDE DEF c, t, at
      <4>4. \A k \in 1..Len(trades) - 1 : trades[k].exited <= trades[k + 1].entered
        BY ONLY <4>3, Zenon DEF TradesSound
      <4> QED BY ONLY <4>1, <4>2, <4>3, <4>4
    <3> DEFINE a == Append(trades, c)
    <3> HIDE DEF c
    <3>4. /\ a \in Seq(Trade) /\ Len(a) = Len(trades) + 1
          /\ \A k \in 1..Len(a) : Finished(a[k], at)
          /\ \A k \in 1..Len(a) - 1 : a[k].exited <= a[k + 1].entered
      BY ONLY <3>2, <3>3, <1>2, <1>4, AppendSound, Zenon
    <3>5. trades' = a
      BY <3>1 DEF c
    <3> QED BY <3>3, <3>4, <3>5
  <2> QED BY <2>1, <2>2
<1>6. position' \in Positions /\ PositionSound'
  <2>1. CASE ~flat
    <3>1. position' = position /\ trades' = trades /\ Sound(t, at, b.close)
          /\ (trades # <<>> => trades[Len(trades)].exited <= t.entered)
      BY <1>1, <1>3, <2>1
    <3> QED BY <3>1, <1>1 DEF Inv, PositionSound
  <2>2. CASE flat /\ signal # 0 /\ calm
    <3>1. position' = <<o>>
      BY <1>1, <2>2
    <3>2. signal \in Directions
      BY <2>2 DEF Signals, Directions
    <3>3. Sound(o, at, b.close)
      BY <3>2, <1>2, OpenedSound
    <3>4. o.entered = at
      BY Zenon DEF Opened
    <3>5. trades' # <<>> => trades'[Len(trades')].exited <= at
      <4>1. ASSUME trades' # <<>> PROVE Len(trades') \in 1..Len(trades')
        BY <4>1, <1>5
      <4> QED BY <4>1, <1>5 DEF Finished
    <3>6. o \in Trade
      BY <3>3 DEF Sound
    <3> HIDE DEF o
    <3> QED BY <3>1, <3>3, <3>4, <3>5, <3>6, <1>1 DEF PositionSound, Positions
  <2>3. CASE flat /\ ~(signal # 0 /\ calm)
    <3>1. position' = <<>>
      BY <1>1, <2>3
    <3> QED BY <3>1 DEF PositionSound, Positions
  <2> QED BY <2>1, <2>2, <2>3
<1>7. TradesSound'
  BY <1>1, <1>5 DEF TradesSound, Reached
<1>8. /\ pass' = "simulate" /\ i' \in 0..Bars /\ last' \in Prices \cup {0}
      /\ equity' \in Seq(Int) /\ next' = 1 /\ open' \in Positions
  BY <1>1, <1>2 DEF Inv
<1>9. next' \in 1..Len(trades') + 1
  BY <1>5, <1>8
<1> HIDE DEF at, how, c, o, flat, t
<1> QED BY <1>5, <1>6, <1>7, <1>8, <1>9 DEF Inv

LEMMA EndInv == ASSUME Inv, EndOfData PROVE Inv'
<1> DEFINE c == Closed(position[1], "end_of_data", last, Bars, 0)
<1>1. /\ pass = "simulate" /\ i = Bars /\ position' = <<>> /\ pass' = "curve" /\ i' = 1
      /\ trades' = IF position = <<>> THEN trades ELSE Append(trades, c)
      /\ equity' = <<0>> /\ last' = last /\ next' = next /\ open' = open
  BY DEF EndOfData
<1>2. Bars \in Nat \ {0} /\ last \in Int /\ trades \in Seq(Trade)
  BY BarsAssumption, PricesAssumption DEF Inv
<1>3. /\ \A k \in 1..Len(trades) : Finished(trades[k], Bars)
      /\ \A k \in 1..Len(trades) - 1 : trades[k].exited <= trades[k + 1].entered
  BY <1>1 DEF Inv, TradesSound, Reached
<1>4. /\ trades' \in Seq(Trade)
      /\ Len(trades') >= Len(trades)
      /\ \A k \in 1..Len(trades') : Finished(trades'[k], Bars)
      /\ \A k \in 1..Len(trades') - 1 : trades'[k].exited <= trades'[k + 1].entered
  <2>1. CASE position = <<>>
    BY <1>1, <1>2, <1>3, <2>1
  <2>2. CASE position # <<>>
    <3>1. Sound(position[1], Bars, last)
          /\ (trades # <<>> => trades[Len(trades)].exited <= position[1].entered)
      BY <1>1, <2>2 DEF Inv, PositionSound
    <3>2. Finished(c, Bars)
      BY <1>2, <3>1, EndSound
    <3>3. c.entered = position[1].entered
      BY <3>1 DEF Closed, Sound, Trade
    <3> DEFINE a == Append(trades, c)
    <3>4. trades' = a
      BY <1>1, <2>2
    <3> HIDE DEF c
    <3>5. Bars \in 0..Bars
          /\ (trades # <<>> => trades[Len(trades)].exited <= c.entered)
      BY <1>2, <3>1, <3>3
    <3>6. /\ a \in Seq(Trade) /\ Len(a) = Len(trades) + 1
          /\ \A k \in 1..Len(a) : Finished(a[k], Bars)
          /\ \A k \in 1..Len(a) - 1 : a[k].exited <= a[k + 1].entered
      BY ONLY <3>2, <3>5, <1>2, <1>3, AppendSound, Zenon
    <3> QED BY <3>4, <3>6, <1>2
  <2> QED BY <2>1, <2>2
<1>5. TradesSound' /\ PositionSound' /\ position' \in Positions
  BY <1>1, <1>4 DEF TradesSound, Reached, PositionSound, Positions
<1>6. /\ pass' = "curve" /\ i' \in 0..Bars /\ last' \in Prices \cup {0}
      /\ equity' \in Seq(Int) /\ equity' # <<>> /\ open' \in Positions
      /\ next' = 1
  BY <1>1, <1>2 DEF Inv
<1> HIDE DEF c
<1> QED BY <1>4, <1>5, <1>6 DEF Inv

LEMMA CurveInv == ASSUME Inv, CurveBar PROVE Inv'
<1> DEFINE at == i + 1
           realize == open # <<>> /\ open[1].exited <= at
           take == Free(realize) /\ next <= Len(trades) /\ trades[next].entered <= at
           gain == IF realize THEN open[1].pnl ELSE 0
<1>1. /\ pass = "curve" /\ i < Bars /\ i' = at
      /\ equity' = Append(equity, Last(equity) + gain)
      /\ open' = IF take THEN <<trades[next]>> ELSE IF realize THEN <<>> ELSE open
      /\ next' = IF take THEN next + 1 ELSE next
      /\ last' = last /\ position' = position /\ trades' = trades /\ pass' = pass
  BY Zenon DEF CurveBar
<1>2. trades \in Seq(Trade) /\ next \in 1..Len(trades) + 1
  BY DEF Inv
<1>3. open' \in Positions /\ next' \in 1..Len(trades') + 1
  <2>1. CASE take
    BY <1>1, <1>2, <2>1 DEF Positions
  <2>2. CASE ~take
    BY <1>1, <2>2 DEF Inv, Positions
  <2> QED BY <2>1, <2>2
<1>4. gain \in Int
  <2>1. CASE realize
    <3>1. open[1] \in Trade
      BY <2>1 DEF Inv, Positions
    <3> QED BY <2>1, <3>1, TradeFields
  <2> QED BY <2>1
<1>5. equity \in Seq(Int) /\ equity # <<>>
  BY <1>1 DEF Inv
<1>6. Last(equity) \in Int
  BY <1>5 DEF Last
<1>7. equity' \in Seq(Int) /\ equity' # <<>>
  BY <1>1, <1>4, <1>5, <1>6
<1>8. i' \in 0..Bars
  BY <1>1, BarsAssumption DEF Inv
<1>9. TradesSound' /\ PositionSound'
  BY <1>1 DEF Inv, TradesSound, PositionSound, Reached
<1> HIDE DEF at, realize, take, gain
<1> QED BY <1>1, <1>3, <1>7, <1>8, <1>9 DEF Inv

LEMMA NextInv == Inv /\ [Next]_vars => Inv'
<1> SUFFICES ASSUME Inv, [Next]_vars PROVE Inv'
  OBVIOUS
<1>1. CASE Simulate
  <2>1. PICK b \in Candles, signal \in Signals, calm \in BOOLEAN, distance \in Distances :
          SimulateBar(b, signal, calm, distance)
    BY <1>1 DEF Simulate
  <2> QED BY <2>1, SimulateInv
<1>2. CASE EndOfData
  BY <1>2, EndInv
<1>3. CASE CurveBar
  BY <1>3, CurveInv
<1>4. CASE Return
  BY <1>4 DEF Return, Inv, TradesSound, PositionSound, Reached
<1>5. CASE UNCHANGED vars
  BY <1>5 DEF vars, Inv, TradesSound, PositionSound, Reached
<1> QED BY <1>1, <1>2, <1>3, <1>4, <1>5 DEF Next

LEMMA Inductive == Spec => []Inv
BY InitInv, NextInv, PTL DEF Spec

(***************************************************************************)
(* The theorems                                                            *)
(***************************************************************************)

(* Every reachable state is well typed (Backtest.TypeOK); in particular    *)
(* there is never more than one open trade, and the one there is has no    *)
(* exit yet.                                                               *)
THEOREM TypeCorrect == Spec => []TypeOK
<1>1. ASSUME Inv PROVE TypeOK
  <2>1. position \in Seq(Trade) /\ Len(position) <= 1 /\ open \in Seq(Trade) /\ Len(open) <= 1
    <3>1. ASSUME NEW q \in Positions PROVE q \in Seq(Trade) /\ Len(q) <= 1
      <4>1. CASE q = <<>>
        BY <4>1
      <4>2. ASSUME NEW t \in Trade, q = <<t>> PROVE q \in Seq(Trade) /\ Len(q) <= 1
        BY <4>2
      <4> QED BY <4>1, <4>2 DEF Positions
    <3> QED BY <1>1, <3>1 DEF Inv
  <2>2. position # <<>> => position[1].exited = 0
    BY <1>1 DEF Inv, PositionSound, Sound
  <2> QED BY <1>1, <2>1, <2>2 DEF Inv, TypeOK
<1> QED BY <1>1, Inductive, PTL

(* Whatever ends a trade, it loses at most its risk and the costs and      *)
(* gains at most its reward (_check_exit, _close_trade).                   *)
THEOREM PnlBounded == Spec => []PnlWithinBracket
<1>1. Inv => PnlWithinBracket
  BY DEF Inv, TradesSound, Finished, Bracketed, PnlWithinBracket
<1> QED BY <1>1, Inductive, PTL

(* Trades follow one another, last at least a bar unless the data ended,   *)
(* and at most max_bars_hold.                                              *)
THEOREM OneTrade == Spec => []OneTradeAtATime
<1>1. Inv => OneTradeAtATime
  <2> SUFFICES ASSUME Inv PROVE OneTradeAtATime
    OBVIOUS
  <2>1. trades \in Seq(Trade) /\ TradesSound
    BY Zenon DEF Inv
  <2>2. DOMAIN trades = 1..Len(trades)
    BY <2>1
  <2>3. \A k \in DOMAIN trades : InTime(trades[k])
    BY ONLY <2>1, <2>2, Zenon DEF TradesSound, Finished
  <2> QED BY ONLY <2>1, <2>3, Zenon DEF TradesSound, InTime, OneTradeAtATime
<1> QED BY <1>1, Inductive, PTL

-----------------------------------------------------------------------------
(***************************************************************************)
(* The ingestion of prices (PriceIngestion), for any market, windows and   *)
(* runs: what is missing from the table is accounted for.                  *)
(***************************************************************************)
(* What PriceIngestion assumes.                                            *)
LEMMA IngestionParameters ==
  /\ Market \subseteq Nat
  /\ \A t \in Market : t % 2 = 0
  /\ Chunk \in Nat \ {0}
  /\ MaxClock \in Nat
  /\ MaxFaults \in Nat
BY MarketAssumption, IngestionBounds DEF Interval

(* What run r has checked and not yet written to the quarantine.           *)
Held(r) == TimesAt(page[r], Quarantined(page[r]))
Clean(r) == TimesAt(page[r], Ok(page[r]))

(* The bar at t has a row, or a run will write one, or it was passed over  *)
(* in a way the histories have.                                            *)
Accounted(t) ==
  \/ t \in stored \cup quarantine \cup dropped \cup failed \cup lost
  \/ \E r \in Runs : pc[r] = "upserted" /\ t \in Held(r)

(* What a run has behind it, and what is behind a row that somebody wrote. *)
BehindRun(r) ==
  pc[r] \in {"window", "checked", "upserted"} =>
    \A t \in Market : t < from[r] /\ Complete(r, t) => Accounted(t)

BehindRows == \A row \in stored : \A t \in Market : t < row => Accounted(t)

(* A page is of its window and leaves out only what was dropped.           *)
PageWhole(r) ==
  pc[r] \in {"checked", "upserted"} =>
    /\ from[r] < now[r]
    /\ page[r] # <<>>
    /\ Times(page[r]) \subseteq InWindow(r)
    /\ \A t \in InWindow(r) :
         Complete(r, t) => t \in Times(page[r]) \cup dropped
    /\ pc[r] = "upserted" => Clean(r) \subseteq stored

IngestionInv ==
  /\ IngestTypeOK
  /\ \A row \in stored : row < MaxClock
  /\ BehindRows
  /\ \A r \in Runs : BehindRun(r) /\ PageWhole(r)

(* A bounded set of times that is not empty has a last one.                *)
LEMMA LastExists ==
  ASSUME NEW n \in Nat, NEW S \in SUBSET (0..n), S # {}
  PROVE  Max(S) \in S /\ \A x \in S : x <= Max(S)
<1> DEFINE T == {x..n : x \in S}
<1>1. IsFiniteSet(0..n)
  BY FS_Interval
<1>2. IsWellFoundedOn(StrictSubsetOrdering(0..n), SUBSET (0..n))
  BY <1>1, FS_StrictSubsetOrderingWellFounded, FS_FiniteSubsetsOfFinite
<1>3. T \subseteq SUBSET (0..n) /\ T # {}
  <2>1. \A x \in S : x..n \subseteq 0..n
    OBVIOUS
  <2> QED BY <2>1
<1>4. PICK least \in T : \A other \in T : ~(<<other, least>> \in StrictSubsetOrdering(0..n))
  BY <1>2, <1>3, WFMin
<1>5. PICK m \in S : least = m..n
  OBVIOUS
<1>6. \A x \in S : x <= m
  <2> SUFFICES ASSUME NEW x \in S, m < x PROVE FALSE
    OBVIOUS
  <2>1. x..n \in T /\ x..n \subseteq m..n /\ x..n # m..n
    <3>1. m \in m..n /\ m \notin x..n
      OBVIOUS
    <3> QED BY <3>1
  <2> QED BY <1>3, <1>4, <1>5, <2>1 DEF StrictSubsetOrdering
<1> QED BY <1>6 DEF Max

(* The end of a window lies behind its beginning and not in the future.    *)
LEMMA WindowEnd ==
  ASSUME NEW r \in Runs, from[r] \in Nat, now[r] \in Nat, from[r] < now[r]
  PROVE  /\ To(r) \in Nat
         /\ from[r] < To(r) /\ To(r) <= now[r]
<1> DEFINE S == {from[r] + Chunk, now[r]}
<1>1. Chunk \in Nat /\ Chunk > 0
  BY IngestionParameters
<1>2. \E x \in S : \A y \in S : x =< y
  BY <1>1
<1>3. To(r) \in S /\ \A y \in S : To(r) =< y
  BY <1>2 DEF To, Min
<1> QED BY <1>1, <1>3

(* The positions of a page are the clean and the quarantined ones.         *)
LEMMA PageParts ==
  ASSUME NEW r \in Runs, NEW t \in Times(page[r])
  PROVE  t \in Clean(r) \/ t \in Held(r)
BY DEF Clean, Held, Times, TimesAt, Ok

(* Resuming behind the last row leaves nothing unaccounted for.            *)
LEMMA ResumeAccounted ==
  ASSUME IngestionInv, NEW t \in Market, t < ResumeFrom
  PROVE  Accounted(t)
<1>1. stored # {}
  <2> SUFFICES ASSUME stored = {} PROVE FALSE
    OBVIOUS
  <2> QED BY IngestionParameters DEF ResumeFrom
<1> DEFINE end == Max(stored)
<1>2. stored \in SUBSET (0..MaxClock) /\ stored \subseteq Market /\ MaxClock \in Nat
  BY IngestionParameters DEF IngestionInv, IngestTypeOK
<1>3. end \in stored
  BY <1>1, <1>2, LastExists
<1>4. t < end + 2
  BY <1>1 DEF ResumeFrom, Interval
<1>5. t \in Nat /\ end \in Nat /\ t % 2 = 0 /\ end % 2 = 0
  BY <1>2, <1>3, IngestionParameters
<1>6. t <= end
  <2> HIDE DEF end
  <2> QED BY <1>4, <1>5
<1> QED BY <1>3, <1>5, <1>6 DEF IngestionInv, BehindRows, Accounted

(* A step of run r that takes nothing away, and that of the bars r holds   *)
(* writes or loses those it lets go, leaves all accounted for.             *)
OfRun(r) ==
  /\ \A q \in Runs \ {r} : pc'[q] = pc[q] /\ from'[q] = from[q] /\ now'[q] = now[q] /\ page'[q] = page[q]
  /\ stored \subseteq stored' /\ quarantine \subseteq quarantine' /\ dropped \subseteq dropped'
  /\ failed \subseteq failed' /\ lost \subseteq lost'
  /\ pc[r] = "upserted" => Held(r) \subseteq quarantine' \cup lost'

LEMMA StaysAccounted ==
  ASSUME NEW r \in Runs, OfRun(r), NEW t, Accounted(t)
  PROVE  Accounted(t)'
<1>1. CASE t \in stored \cup quarantine \cup dropped \cup failed \cup lost
  BY <1>1 DEF OfRun, Accounted
<1>2. CASE \E q \in Runs : pc[q] = "upserted" /\ t \in Held(q)
  <2>1. PICK q \in Runs : pc[q] = "upserted" /\ t \in Held(q)
    BY <1>2
  <2>2. CASE q = r
    BY <2>1, <2>2 DEF OfRun, Accounted
  <2>3. CASE q # r
    <3>1. pc'[q] = "upserted" /\ page'[q] = page[q]
      BY <2>1, <2>3 DEF OfRun
    <3>2. Held(q)' = Held(q)
      BY <3>1 DEF Held
    <3> QED BY <2>1, <3>1, <3>2 DEF Accounted
  <2> QED BY <2>2, <2>3
<1> QED BY <1>1, <1>2 DEF Accounted

LEMMA OthersBehind ==
  ASSUME IngestionInv, NEW r \in Runs, OfRun(r), NEW q \in Runs \ {r}
  PROVE  BehindRun(q)' /\ PageWhole(q)'
<1>1. /\ pc'[q] = pc[q] /\ from'[q] = from[q] /\ now'[q] = now[q] /\ page'[q] = page[q]
      /\ stored \subseteq stored' /\ dropped \subseteq dropped'
      /\ BehindRun(q) /\ PageWhole(q)
  BY DEF OfRun, IngestionInv
<1>2. BehindRun(q)'
  BY <1>1, StaysAccounted DEF BehindRun, Complete
<1>3. Clean(q)' = Clean(q) /\ InWindow(q)' = InWindow(q)
  BY <1>1 DEF Clean, InWindow, To
<1>4. Times(page[q])' = Times(page[q])
  BY <1>1
<1> QED BY <1>1, <1>2, <1>3, <1>4 DEF PageWhole, Complete

LEMMA IngestionInit == ASSUME IngestInit PROVE IngestionInv
<1>1. IngestTypeOK
  BY IngestionParameters DEF IngestInit, IngestTypeOK
<1> QED BY <1>1 DEF IngestInit, IngestionInv, BehindRows, BehindRun, PageWhole

(* What the steps have in common: run r moves and the table stays.         *)
LEMMA RunMoves ==
  ASSUME IngestionInv, NEW r \in Runs, OfRun(r), stored' = stored,
         IngestTypeOK', BehindRun(r)', PageWhole(r)'
  PROVE  IngestionInv'
<1>1. BehindRows'
  BY StaysAccounted DEF IngestionInv, BehindRows
<1> QED BY <1>1, OthersBehind DEF IngestionInv

LEMMA StartInv ==
  ASSUME IngestionInv, NEW r \in Runs, StartSeries(r)
  PROVE  IngestionInv'
<1> DEFINE start == ResumeFrom
<1>1. /\ pc[r] = "new" /\ clock' \in clock..MaxClock
      /\ from' = [from EXCEPT ![r] = start] /\ now' = [now EXCEPT ![r] = clock']
      /\ pc' = [pc EXCEPT ![r] = IF start >= clock' - 2 THEN "end" ELSE "window"]
      /\ UNCHANGED <<stored, quarantine, page, failed, dropped, lost, faults>>
  BY DEF StartSeries, Interval
<1>2. IngestTypeOK /\ MaxClock \in Nat /\ Market \subseteq Nat
  BY IngestionParameters DEF IngestionInv
<1>3. start \in Nat
  <2>1. stored \in SUBSET (0..MaxClock)
    BY <1>2 DEF IngestionInv, IngestTypeOK
  <2>2. stored # {} => Max(stored) \in stored
    BY <1>2, <2>1, LastExists
  <2>3. \A x \in stored : x \in Nat
    BY <1>2, <2>1
  <2>4. stored # {} => Max(stored) \in Nat
    BY <2>2, <2>3, Zenon
  <2> QED BY <2>4 DEF ResumeFrom, Interval
<1>4. \A t \in Market : t < start => Accounted(t)
  BY ResumeAccounted
<1> HIDE DEF start
<1>5. OfRun(r)
  BY <1>1, <1>2 DEF OfRun, IngestTypeOK
<1>6. pc'[r] \in {"end", "window"} /\ from'[r] = start
  BY <1>1, <1>2 DEF IngestTypeOK
<1>7. IngestTypeOK'
  BY <1>1, <1>2, <1>3 DEF IngestTypeOK
<1>8. BehindRun(r)' /\ PageWhole(r)'
  BY <1>4, <1>5, <1>6, StaysAccounted DEF BehindRun, PageWhole
<1> QED BY <1>1, <1>5, <1>7, <1>8, RunMoves

(* A window that is passed over: its end is where the run goes on.         *)
LEMMA PassWindow ==
  ASSUME IngestionInv, NEW r \in Runs, OfRun(r),
         pc[r] = "window", pc' = pc, page' = page, now' = now, stored' = stored,
         from' = [from EXCEPT ![r] = To(r)],
         IngestTypeOK',
         \A t \in InWindow(r) : Complete(r, t) => t \in failed' \cup dropped'
  PROVE  IngestionInv'
<1>1. from'[r] = To(r) /\ pc'[r] = "window" /\ BehindRun(r) /\ now'[r] = now[r]
  BY DEF IngestionInv, IngestTypeOK
<1>2. ASSUME NEW t \in Market, t < To(r), Complete(r, t)
      PROVE  Accounted(t)'
  <2>1. CASE t < from[r]
    BY <1>1, <1>2, <2>1, StaysAccounted DEF BehindRun
  <2>2. CASE ~(t < from[r])
    <3>1. t \in Nat /\ from[r] \in Nat
      BY IngestionParameters DEF IngestionInv, IngestTypeOK
    <3>2. t \in InWindow(r)
      BY <1>2, <2>2, <3>1 DEF InWindow
    <3> QED BY <1>2, <3>2 DEF Accounted
  <2> QED BY <2>1, <2>2
<1>3. BehindRun(r)'
  BY <1>1, <1>2 DEF BehindRun, Complete
<1>4. PageWhole(r)'
  BY <1>1 DEF PageWhole
<1> QED BY <1>3, <1>4, RunMoves

LEMMA SkipInv ==
  ASSUME IngestionInv, NEW r \in Runs, SkipWindow(r)
  PROVE  IngestionInv'
<1>1. /\ pc[r] = "window" /\ from[r] < now[r] /\ faults < MaxFaults /\ faults' = faults + 1
      /\ from' = [from EXCEPT ![r] = To(r)]
      /\ failed' = failed \cup InWindow(r)
      /\ UNCHANGED <<clock, stored, quarantine, pc, now, page, dropped, lost>>
  BY DEF SkipWindow
<1>2. IngestTypeOK /\ MaxFaults \in Nat
  BY IngestionParameters DEF IngestionInv
<1>3. To(r) \in Nat
  BY <1>1, <1>2, WindowEnd DEF IngestTypeOK
<1>4. InWindow(r) \subseteq Market
  BY DEF InWindow
<1>5. IngestTypeOK'
  BY <1>1, <1>2, <1>3, <1>4 DEF IngestTypeOK
<1>6. OfRun(r)
  BY <1>1, <1>2 DEF OfRun, IngestTypeOK
<1> QED BY <1>1, <1>5, <1>6, PassWindow

(* A page of a window: its bars, and the times of those without prices.    *)
LEMMA PageFacts ==
  ASSUME NEW r \in Runs, NEW c \in Pages(r)
  PROVE  /\ c.bars \in Seq(Bar)
         /\ Times(c.bars) \cup c.unusable = InWindow(r)
         /\ c.unusable \subseteq Market
         /\ ~Ordered(c) => faults < MaxFaults
<1> DEFINE due == InWindow(r)
<1>1. /\ \E n \in Nat : c.bars \in [1..n -> [time : due, kind : Kinds]]
      /\ c.unusable \subseteq due /\ Times(c.bars) \cup c.unusable = due
      /\ ~Ordered(c) => faults < MaxFaults
  BY DEF Pages, FetchedCandles
<1>2. due \subseteq Market
  BY DEF InWindow
<1>3. [time : due, kind : Kinds] \subseteq Bar
  BY <1>2 DEF Bar
<1>4. c.bars \in Seq(Bar)
  <2>1. PICK n \in Nat : c.bars \in [1..n -> [time : due, kind : Kinds]]
    BY <1>1
  <2>2. c.bars \in [1..n -> Bar]
    BY <1>3, <2>1
  <2> QED BY <2>2, SeqDef
<1> QED BY <1>1, <1>2, <1>4

LEMMA FetchInv ==
  ASSUME IngestionInv, NEW r \in Runs, Fetch(r)
  PROVE  IngestionInv'
<1>1. PICK c \in Pages(r) :
        /\ page' = [page EXCEPT ![r] = c.bars]
        /\ from' = [from EXCEPT ![r] = IF c.bars = <<>> THEN To(r) ELSE @]
        /\ pc' = [pc EXCEPT ![r] = IF c.bars = <<>> THEN "window" ELSE "checked"]
        /\ dropped' = dropped \cup {t \in c.unusable : Complete(r, t)}
        /\ faults' = IF Ordered(c) THEN faults ELSE faults + 1
  BY DEF Fetch
<1>2. /\ pc[r] = "window" /\ from[r] < now[r]
      /\ UNCHANGED <<clock, stored, quarantine, now, failed, lost>>
  BY DEF Fetch
<1>3. /\ c.bars \in Seq(Bar)
      /\ Times(c.bars) \cup c.unusable = InWindow(r)
      /\ c.unusable \subseteq Market
      /\ ~Ordered(c) => faults < MaxFaults
  BY <1>1, PageFacts
<1>4. IngestTypeOK /\ MaxFaults \in Nat
  BY IngestionParameters DEF IngestionInv
<1>5. To(r) \in Nat
  BY <1>2, <1>4, WindowEnd, IngestionParameters DEF IngestTypeOK
<1>6. page[r] = <<>>
  BY <1>2, <1>4 DEF IngestTypeOK
<1>7. /\ page'[r] = c.bars
      /\ pc'[r] = IF c.bars = <<>> THEN "window" ELSE "checked"
      /\ from'[r] = IF c.bars = <<>> THEN To(r) ELSE from[r]
  BY <1>1, <1>4 DEF IngestTypeOK
<1>8. IngestTypeOK'
  <2>1. faults' \in 0..MaxFaults
    BY <1>1, <1>3, <1>4 DEF IngestTypeOK
  <2>2. page' \in [Runs -> Seq(Bar)] /\ from' \in [Runs -> Nat]
    BY <1>1, <1>3, <1>4, <1>5 DEF IngestTypeOK
  <2>3. pc' \in [Runs -> {"new", "window", "checked", "upserted", "end"}]
    BY <1>1, <1>4 DEF IngestTypeOK
  <2>4. \A q \in Runs : page'[q] # <<>> <=> pc'[q] \in {"checked", "upserted"}
    <3> SUFFICES ASSUME NEW q \in Runs PROVE page'[q] # <<>> <=> pc'[q] \in {"checked", "upserted"}
      OBVIOUS
    <3>1. CASE q = r
      BY <1>7, <3>1
    <3>2. CASE q # r
      BY <1>1, <1>4, <3>2 DEF IngestTypeOK
    <3> QED BY <3>1, <3>2
  <2>5. dropped' \subseteq Market
    BY <1>1, <1>3, <1>4 DEF IngestTypeOK
  <2> QED BY <1>2, <1>4, <2>1, <2>2, <2>3, <2>4, <2>5 DEF IngestTypeOK
<1>9. OfRun(r)
  BY <1>1, <1>2, <1>4 DEF OfRun, IngestTypeOK
<1>10. CASE c.bars = <<>>
  <2>1. page' = page /\ pc' = pc
    BY <1>1, <1>2, <1>4, <1>6, <1>10 DEF IngestTypeOK
  <2>2. Times(c.bars) = {}
    BY <1>10 DEF Times, TimesAt
  <2>3. \A t \in InWindow(r) : Complete(r, t) => t \in dropped'
    BY <1>1, <1>3, <2>2
  <2>4. from' = [from EXCEPT ![r] = To(r)]
    BY <1>1, <1>10
  <2> QED BY <1>2, <1>8, <1>9, <2>1, <2>3, <2>4, PassWindow
<1>11. CASE c.bars # <<>>
  <2>1. pc'[r] = "checked" /\ from' = from /\ now'[r] = now[r]
    BY <1>1, <1>2, <1>4, <1>7, <1>11 DEF IngestTypeOK
  <2>2. InWindow(r)' = InWindow(r)
    BY <1>2, <2>1 DEF InWindow, To
  <2>3. Times(page[r])' = Times(c.bars)
    BY <1>7 DEF Times
  <2>4. \A t \in InWindow(r) : Complete(r, t) => t \in Times(c.bars) \cup dropped'
    BY <1>1, <1>3
  <2>5. PageWhole(r)'
    BY <1>2, <1>3, <1>7, <1>11, <2>1, <2>2, <2>3, <2>4 DEF PageWhole, Complete
  <2>6. BehindRun(r)'
    BY <1>2, <1>9, <2>1, StaysAccounted DEF IngestionInv, BehindRun, Complete
  <2> QED BY <1>2, <1>8, <1>9, <2>5, <2>6, RunMoves
<1> QED BY <1>10, <1>11

(* The rows of a page: what is before one of them is behind the run, or in *)
(* the page, or was dropped.                                               *)
LEMMA UpsertInv ==
  ASSUME IngestionInv, NEW r \in Runs, UpsertBars(r)
  PROVE  IngestionInv'
<1>1. /\ pc[r] = "checked" /\ stored' = stored \cup Clean(r)
      /\ pc' = [pc EXCEPT ![r] = "upserted"]
      /\ UNCHANGED <<clock, quarantine, from, now, page, failed, dropped, lost, faults>>
  BY DEF UpsertBars, Clean
<1>2. IngestTypeOK /\ Market \subseteq Nat /\ MaxClock \in Nat
  BY IngestionParameters DEF IngestionInv
<1>3. pc'[r] = "upserted"
  BY <1>1, <1>2 DEF IngestTypeOK
<1>4. /\ from[r] < now[r] /\ page[r] # <<>>
      /\ Times(page[r]) \subseteq InWindow(r)
      /\ \A t \in InWindow(r) :
           Complete(r, t) => t \in Times(page[r]) \cup dropped
      /\ BehindRun(r) /\ BehindRows
  BY <1>1 DEF IngestionInv, PageWhole
<1>5. Clean(r) \subseteq InWindow(r) /\ Clean(r) \subseteq Market
  BY <1>4 DEF Clean, Ok, Times, TimesAt, InWindow
<1>6. from[r] \in Nat /\ now[r] \in 0..MaxClock /\ To(r) \in Nat /\ To(r) <= now[r]
  BY <1>2, <1>4, WindowEnd DEF IngestTypeOK
<1>7. IngestTypeOK'
  BY <1>1, <1>2, <1>5 DEF IngestTypeOK
<1>8. OfRun(r)
  BY <1>1, <1>2 DEF OfRun, IngestTypeOK
<1>9. Held(r)' = Held(r) /\ Clean(r)' = Clean(r)
  BY <1>1 DEF Held, Clean
<1>10. \A t \in Times(page[r]) : Accounted(t)'
  BY <1>1, <1>3, <1>9, PageParts DEF Accounted
<1>11. BehindRows'
  <2>1. SUFFICES ASSUME NEW row \in stored', NEW t \in Market, t < row PROVE Accounted(t)'
    BY DEF BehindRows
  <2>2. CASE row \in stored
    BY <1>4, <1>8, <2>1, <2>2, StaysAccounted DEF BehindRows
  <2>3. CASE row \in Clean(r)
    <3>1. row < To(r) /\ row \in Nat /\ t \in Nat /\ row % 2 = 0 /\ t % 2 = 0
      BY <1>2, <1>5, <2>3, IngestionParameters DEF InWindow
    <3>2. t + 2 <= row
      BY <2>1, <3>1
    <3>3. Complete(r, t) /\ t < To(r)
      BY <1>6, <3>1, <3>2 DEF Complete, Interval
    <3>4. CASE t < from[r]
      BY <1>1, <1>4, <1>8, <3>3, <3>4, StaysAccounted DEF BehindRun
    <3>5. CASE ~(t < from[r])
      <4>1. t \in InWindow(r)
        BY <1>6, <3>1, <3>3, <3>5 DEF InWindow
      <4>2. t \in Times(page[r]) \/ t \in dropped'
        BY <1>1, <1>4, <3>3, <4>1
      <4> QED BY <1>10, <4>2 DEF Accounted
    <3> QED BY <3>4, <3>5
  <2> QED BY <1>1, <2>1, <2>2, <2>3
<1>12. ASSUME NEW row \in stored' PROVE row < MaxClock
  <2>1. CASE row \in stored
    BY <2>1 DEF IngestionInv
  <2>2. CASE row \in Clean(r)
    <3>1. row \in Nat /\ row < To(r)
      BY <1>2, <1>5, <2>2 DEF InWindow
    <3> QED BY <1>2, <1>6, <3>1
  <2> QED BY <1>1, <2>1, <2>2
<1>13. BehindRun(r)'
  BY <1>1, <1>4, <1>8, StaysAccounted DEF BehindRun, Complete
<1>14. InWindow(r)' = InWindow(r)
       /\ Times(page[r])' = Times(page[r])
  BY <1>1 DEF InWindow, To
<1>15. PageWhole(r)'
  BY <1>1, <1>4, <1>9, <1>14 DEF PageWhole, Complete
<1> QED BY <1>7, <1>8, <1>11, <1>12, <1>13, <1>15, OthersBehind DEF IngestionInv

LEMMA QuarantineInv ==
  ASSUME IngestionInv, NEW r \in Runs, WriteQuarantine(r)
  PROVE  IngestionInv' /\ from'[r] > from[r]
<1> DEFINE times == Times(page[r])
           end == Max(times)
<1>1. /\ pc[r] = "upserted" /\ quarantine' = quarantine \cup Held(r)
      /\ from' = [from EXCEPT ![r] = end + 2]
      /\ page' = [page EXCEPT ![r] = <<>>] /\ pc' = [pc EXCEPT ![r] = "window"]
      /\ UNCHANGED <<clock, stored, now, failed, dropped, lost, faults>>
  BY DEF WriteQuarantine, Held, Interval
<1>2. IngestTypeOK /\ Market \subseteq Nat /\ MaxClock \in Nat
  BY IngestionParameters DEF IngestionInv
<1>3. /\ from[r] < now[r] /\ page[r] # <<>> /\ times \subseteq InWindow(r)
      /\ \A t \in InWindow(r) : Complete(r, t) => t \in times \cup dropped
      /\ BehindRun(r) /\ Clean(r) \subseteq stored
  BY <1>1 DEF IngestionInv, PageWhole
<1>4. from[r] \in Nat /\ now[r] \in 0..MaxClock /\ To(r) \in Nat /\ To(r) <= now[r]
  BY <1>2, <1>3, WindowEnd DEF IngestTypeOK
<1>5. times \in SUBSET (0..MaxClock) /\ times # {}
  <2>1. ASSUME NEW t \in times PROVE t \in 0..MaxClock
    <3>1. t \in Nat /\ t < To(r)
      BY <1>2, <1>3 DEF InWindow
    <3> QED BY <1>2, <1>4, <3>1
  <2>2. 1 \in DOMAIN page[r]
    <3>1. page[r] \in Seq(Bar)
      BY <1>2 DEF IngestTypeOK
    <3> QED BY <1>3, <3>1
  <2> QED BY <2>1, <2>2 DEF Times, TimesAt
<1>6. end \in times /\ (\A t \in times : t <= end) /\ end \in InWindow(r)
  BY <1>2, <1>3, <1>5, LastExists
<1> HIDE DEF end
<1>7. end \in Market /\ end \in Nat /\ from[r] <= end /\ end < To(r)
  BY <1>2, <1>6 DEF InWindow
<1>8. Held(r) \subseteq Market
  BY <1>3 DEF Held, Quarantined, BadPrices, NonMonotonic,
     Duplicate, Times, TimesAt, InWindow
<1>9. IngestTypeOK'
  <2>1. page' \in [Runs -> Seq(Bar)]
    BY <1>1, <1>2 DEF IngestTypeOK
  <2>2. \A q \in Runs : page'[q] # <<>> <=> pc'[q] \in {"checked", "upserted"}
    BY <1>1, <1>2 DEF IngestTypeOK
  <2>3. end + 2 \in Nat
    BY <1>7
  <2> QED BY <1>1, <1>2, <1>8, <2>1, <2>2, <2>3 DEF IngestTypeOK
<1>10. OfRun(r)
  BY <1>1, <1>2 DEF OfRun, IngestTypeOK
<1>11. \A t \in times : Accounted(t)'
  BY <1>1, <1>3, PageParts DEF Accounted
<1>12. from'[r] = end + 2 /\ pc'[r] = "window" /\ now'[r] = now[r]
  BY <1>1, <1>2 DEF IngestTypeOK
<1>13. ASSUME NEW t \in Market, t < end + 2, Complete(r, t) PROVE Accounted(t)'
  <2>1. t \in Nat /\ t % 2 = 0 /\ end % 2 = 0
    BY <1>7, IngestionParameters
  <2>2. t <= end
    BY <1>7, <1>13, <2>1
  <2>3. CASE t < from[r]
    BY <1>1, <1>3, <1>10, <1>13, <2>3, StaysAccounted DEF BehindRun
  <2>4. CASE ~(t < from[r])
    <3>1. t \in InWindow(r)
      BY <1>4, <1>7, <2>1, <2>2, <2>4 DEF InWindow
    <3>2. t \in times \/ t \in dropped'
      BY <1>1, <1>3, <1>13, <3>1
    <3> QED BY <1>11, <3>2 DEF Accounted
  <2> QED BY <2>3, <2>4
<1>14. BehindRun(r)' /\ PageWhole(r)'
  BY <1>12, <1>13 DEF BehindRun, PageWhole, Complete
<1>15. from'[r] > from[r]
  BY <1>4, <1>7, <1>12
<1> QED BY <1>1, <1>9, <1>10, <1>14, <1>15, RunMoves

LEMMA EndSeriesInv ==
  ASSUME IngestionInv, NEW r \in Runs, EndSeries(r)
  PROVE  IngestionInv'
<1>1. /\ pc[r] = "window" /\ pc' = [pc EXCEPT ![r] = "end"]
      /\ UNCHANGED <<clock, stored, quarantine, from, now, page, failed, dropped, lost, faults>>
  BY DEF EndSeries
<1>2. IngestTypeOK
  BY DEF IngestionInv
<1>3. pc'[r] = "end" /\ IngestTypeOK'
  BY <1>1, <1>2 DEF IngestTypeOK
<1>4. OfRun(r)
  BY <1>1, <1>2 DEF OfRun, IngestTypeOK
<1>5. BehindRun(r)' /\ PageWhole(r)'
  BY <1>3 DEF BehindRun, PageWhole
<1> QED BY <1>1, <1>3, <1>4, <1>5, RunMoves

LEMMA FailInv ==
  ASSUME IngestionInv, NEW r \in Runs, Fail(r)
  PROVE  IngestionInv'
<1>1. /\ faults < MaxFaults /\ faults' = faults + 1
      /\ lost' = IF pc[r] = "upserted" THEN lost \cup Held(r) ELSE lost
      /\ page' = [page EXCEPT ![r] = <<>>] /\ pc' = [pc EXCEPT ![r] = "end"]
      /\ UNCHANGED <<clock, stored, quarantine, from, now, failed, dropped>>
  BY DEF Fail, Held
<1>2. IngestTypeOK /\ MaxFaults \in Nat
  BY IngestionParameters DEF IngestionInv
<1>3. pc[r] = "upserted" => Held(r) \subseteq Market
  BY DEF IngestionInv, PageWhole, Held, Quarantined, BadPrices,
     NonMonotonic, Duplicate, Times, TimesAt,
     InWindow
<1>4. pc'[r] = "end" /\ IngestTypeOK'
  <2>1. page' \in [Runs -> Seq(Bar)]
    BY <1>1, <1>2 DEF IngestTypeOK
  <2> QED BY <1>1, <1>2, <1>3, <2>1 DEF IngestTypeOK
<1>5. OfRun(r)
  BY <1>1, <1>2 DEF OfRun, IngestTypeOK
<1>6. BehindRun(r)' /\ PageWhole(r)'
  BY <1>4 DEF BehindRun, PageWhole
<1> QED BY <1>1, <1>4, <1>5, <1>6, RunMoves

LEMMA IngestionNext ==
  ASSUME IngestionInv, [IngestNext]_ingestVars
  PROVE  IngestionInv'
<1>1. CASE UNCHANGED ingestVars
  BY <1>1 DEF ingestVars, IngestionInv, IngestTypeOK, BehindRows, BehindRun, PageWhole,
     Accounted, Held, Clean, Complete, InWindow, To
<1>2. CASE IngestNext
  BY <1>2, StartInv, SkipInv, FetchInv, UpsertInv, QuarantineInv, EndSeriesInv, FailInv
     DEF IngestNext, RunStep
<1> QED BY <1>1, <1>2

(* The variables of the ingestion keep their types; a run holds a page     *)
(* exactly while it writes one (ingest_instrument_granularity).            *)
THEOREM IngestionTyped ==
  IngestSpec => []IngestTypeOK
<1>1. IngestionInv => IngestTypeOK
  BY DEF IngestionInv
<1> QED BY <1>1, IngestionInit, IngestionNext, PTL DEF IngestSpec

(* A bar before the resume cursor has a row in one of the two tables or is *)
(* about to get one, or else its window failed, or it came without usable  *)
(* prices, or a run died between its two commits: there is no other way to *)
(* lose one, whatever pages come and however runs overlap, fail and die    *)
(* (get_resume_timestamp, ingest_instrument_granularity).                  *)
THEOREM GapsAreExplained ==
  IngestSpec => []GapsExplained
<1>1. IngestionInv => GapsExplained
  <2>1. SUFFICES ASSUME IngestionInv, NEW t \in Market, t < ResumeFrom
                 PROVE  t \in OnRecord \cup PassedOver
    BY DEF GapsExplained
  <2>2. Accounted(t)
    BY <2>1, ResumeAccounted
  <2> QED BY <2>2 DEF Accounted, OnRecord, PassedOver, Held
<1> QED BY <1>1, IngestionInit, IngestionNext, PTL DEF IngestSpec

(* A row of the page is clean at most once: the upsert, which the database *)
(* would refuse otherwise, meets no key twice.                             *)
THEOREM RowsAreUnique ==
  IngestSpec => []OneRowPerKey
<1>1. IngestionInv => OneRowPerKey
  <2>1. SUFFICES ASSUME IngestionInv, NEW r \in Runs, pc[r] = "checked",
                        NEW j \in Ok(page[r]), NEW k \in Ok(page[r]),
                        page[r][j].time = page[r][k].time
                 PROVE  j = k
    BY DEF OneRowPerKey
  <2>2. j \in Nat \ {0} /\ k \in Nat \ {0}
    <3>1. page[r] \in Seq(Bar)
      BY <2>1 DEF IngestionInv, IngestTypeOK
    <3> QED BY <3>1 DEF Ok
  <2>3. ~(j < k) /\ ~(k < j)
    BY <2>1, <2>2 DEF Ok, Quarantined, Duplicate
  <2> QED BY <2>2, <2>3
<1> QED BY <1>1, IngestionInit, IngestionNext, PTL DEF IngestSpec

(* A run that comes back to the head of its loop has a later from_ts, also *)
(* if nothing of its page could be stored: it comes to its end.            *)
THEOREM PagesAdvance ==
  IngestSpec => EveryPageAdvances
<1> DEFINE Advances(r) ==
      pc'[r] = "window" /\ (pc[r] = "upserted" \/ from'[r] # from[r]) /\ pc[r] # "new" =>
        from'[r] > from[r]
<1>1. ASSUME IngestionInv, [IngestNext]_ingestVars
      PROVE  [\A r \in Runs : Advances(r)]_ingestVars
  <2>1. CASE UNCHANGED ingestVars
    BY <2>1
  <2>2. CASE IngestNext
    <3>1. SUFFICES ASSUME NEW r \in Runs PROVE Advances(r)
      OBVIOUS
    <3>2. IngestTypeOK
      BY <1>1 DEF IngestionInv
    <3>3. PICK q \in Runs : \/ StartSeries(q) \/ Fetch(q)
                            \/ UpsertBars(q) \/ WriteQuarantine(q)
                            \/ EndSeries(q) \/ SkipWindow(q)
                            \/ Fail(q)
      BY <2>2 DEF IngestNext, RunStep
    <3>4. CASE q # r
      <4>1. pc'[r] = pc[r] /\ from'[r] = from[r]
        BY <3>2, <3>3, <3>4 DEF IngestTypeOK, StartSeries, Fetch,
           UpsertBars, WriteQuarantine, EndSeries,
           SkipWindow, Fail
      <4> QED BY <4>1
    <3>5. CASE q = r
      <4>1. CASE StartSeries(r)
        BY <4>1 DEF StartSeries
      <4>2. CASE Fetch(r) \/ SkipWindow(r)
        <5>1. /\ pc[r] = "window" /\ from[r] < now[r]
              /\ from'[r] = from[r] \/ from'[r] = To(r)
          BY <3>2, <4>2 DEF IngestTypeOK, Fetch, SkipWindow
        <5>2. from[r] < To(r)
          BY <3>2, <5>1, WindowEnd DEF IngestTypeOK
        <5> QED BY <5>1, <5>2
      <4>3. CASE WriteQuarantine(r)
        BY <1>1, <4>3, QuarantineInv
      <4>4. CASE UpsertBars(r) \/ EndSeries(r) \/ Fail(r)
        BY <3>2, <4>4 DEF IngestTypeOK, UpsertBars, EndSeries, Fail
      <4> QED BY <3>3, <3>5, <4>1, <4>2, <4>3, <4>4
    <3> QED BY <3>4, <3>5
  <2> QED BY <1>1, <2>1, <2>2
<1> QED BY <1>1, IngestionInit, IngestionNext, PTL DEF IngestSpec, EveryPageAdvances


(***************************************************************************)
(* The equity curve                                                        *)
(***************************************************************************)
(* What holds of 0, and passes from each number to the next below n.       *)
LEMMA CountUp ==
  ASSUME NEW n \in Nat, NEW T, 0 \in T, \A k \in 0..(n - 1) : k \in T => k + 1 \in T
  PROVE  \A k \in 0..n : k \in T
<1> DEFINE S == {k \in 0..n : \A j \in 0..k : j \in T}
<1>1. S \in SUBSET (0..n) /\ 0 \in S
  OBVIOUS
<1>2. Max(S) \in S /\ \A x \in S : x <= Max(S)
  <2> HIDE DEF S
  <2> QED BY <1>1, LastExists
<1>3. ASSUME Max(S) < n PROVE FALSE
  <2>1. Max(S) \in 0..(n - 1) /\ Max(S) \in T
    BY <1>2, <1>3
  <2>2. Max(S) + 1 \in T
    BY <2>1
  <2>3. Max(S) + 1 \in S
    BY <1>2, <2>1, <2>2
  <2> HIDE DEF S
  <2> QED BY <1>2, <2>1, <2>3
<1>4. Max(S) = n
  <2>1. Max(S) \in 0..n
    BY <1>2
  <2> QED BY <2>1, <1>3
<1> QED BY <1>2, <1>4

(* The recursion of a fold over the places up to n.                        *)
Folds(f, s, n) ==
  f = [x \in SUBSET (1..n) |-> IF x = {} THEN 0 ELSE f[x \ {Max(x)}] + s[Max(x)].pnl]

(* There is such a function,                                               *)
LEMMA FoldsExist ==
  ASSUME NEW s, NEW n \in Nat
  PROVE  \E f : Folds(f, s, n)
<1> DEFINE T == {k \in Nat : \E f : Folds(f, s, k)}
<1>1. 0 \in T
  <2> DEFINE f == [x \in SUBSET (1..0) |-> 0]
  <2>1. \A x \in SUBSET (1..0) : x = {}
    OBVIOUS
  <2>2. Folds(f, s, 0)
    BY <2>1 DEF Folds
  <2> QED BY <2>2
<1>2. ASSUME NEW k \in 0..(n - 1), k \in T PROVE k + 1 \in T
  <2>1. PICK g : Folds(g, s, k)
    BY <1>2
  <2> DEFINE f == [x \in SUBSET (1..(k + 1)) |->
                     IF x = {} THEN 0 ELSE g[x \ {Max(x)}] + s[Max(x)].pnl]
  <2>2. ASSUME NEW x \in SUBSET (1..(k + 1)), x # {}
        PROVE  /\ x \ {Max(x)} \in SUBSET (1..k)
               /\ x \ {Max(x)} \in SUBSET (1..(k + 1))
    <3>1. x \in SUBSET (0..(k + 1)) /\ k + 1 \in Nat
      BY <1>2
    <3>2. Max(x) \in x /\ \A y \in x : y <= Max(x)
      BY <2>2, <3>1, LastExists
    <3>3. ASSUME NEW y \in x \ {Max(x)} PROVE y \in 1..k
      <4>1. y \in 1..(k + 1) /\ Max(x) \in 1..(k + 1) /\ y <= Max(x) /\ y # Max(x)
        BY <3>2, <3>3
      <4> QED BY <1>2, <4>1
    <3> QED BY <3>3
  <2>3. ASSUME NEW x \in SUBSET (1..k) PROVE x \in SUBSET (1..(k + 1)) /\ f[x] = g[x]
    <3>1. x \in SUBSET (1..(k + 1))
      BY <1>2
    <3>2. g[x] = IF x = {} THEN 0 ELSE g[x \ {Max(x)}] + s[Max(x)].pnl
      BY <2>1 DEF Folds
    <3> QED BY <3>1, <3>2
  <2> HIDE DEF f
  <2>4. f = [x \in SUBSET (1..(k + 1)) |->
               IF x = {} THEN 0 ELSE f[x \ {Max(x)}] + s[Max(x)].pnl]
    <3>1. \A x \in SUBSET (1..(k + 1)) : x # {} => f[x \ {Max(x)}] = g[x \ {Max(x)}]
      BY <2>2, <2>3
    <3>2. [x \in SUBSET (1..(k + 1)) |-> IF x = {} THEN 0 ELSE g[x \ {Max(x)}] + s[Max(x)].pnl]
            = [x \in SUBSET (1..(k + 1)) |-> IF x = {} THEN 0 ELSE f[x \ {Max(x)}] + s[Max(x)].pnl]
      BY <3>1
    <3> QED BY <3>2 DEF f
  <2>5. Folds(f, s, k + 1)
    BY <2>4 DEF Folds
  <2> QED BY <1>2, <2>5
<1> HIDE DEF T
<1>3. n \in T
  BY <1>1, <1>2, CountUp
<1> QED BY <1>3 DEF T

(* Lists that begin alike.                                                 *)
Alike(s, t, n) == \A k \in 1..n : s[k] = t[k]

(* of which any two agree on the first places of lists that begin alike.   *)
LEMMA FoldsAgree ==
  ASSUME NEW n \in Nat, NEW m \in Nat, n <= m, NEW s, NEW t, Alike(s, t, n),
         NEW f, NEW g, Folds(f, s, n), Folds(g, t, m)
  PROVE  f[1..n] = g[1..n]
<1> DEFINE T == {k \in 0..n : f[1..k] = g[1..k]}
<1>0. /\ \A x \in SUBSET (1..n) : f[x] = IF x = {} THEN 0 ELSE f[x \ {Max(x)}] + s[Max(x)].pnl
      /\ \A x \in SUBSET (1..m) : g[x] = IF x = {} THEN 0 ELSE g[x \ {Max(x)}] + t[Max(x)].pnl
  BY DEF Folds
<1>1. 0 \in T
  <2>1. 1..0 = {} /\ {} \in SUBSET (1..n) /\ {} \in SUBSET (1..m)
    OBVIOUS
  <2> QED BY <1>0, <2>1
<1>2. ASSUME NEW k \in 0..(n - 1), k \in T PROVE k + 1 \in T
  <2> DEFINE x == 1..(k + 1)
  <2>0. k \in Nat /\ k + 1 \in 1..n /\ k + 1 \in 1..(k + 1) /\ k + 1 <= m
    BY <1>2
  <2>1. x \in SUBSET (1..n) /\ x \in SUBSET (1..m) /\ x # {} /\ k + 1 \in 1..n
    <3>1. \A y \in x : y \in 1..n /\ y \in 1..m
      BY <2>0
    <3>2. k + 1 \in x
      BY <2>0
    <3> HIDE DEF x
    <3> QED BY <2>0, <3>1, <3>2
  <2>2. Max(x) = k + 1
    <3>1. x \in SUBSET (0..n) /\ x # {}
      BY <2>1
    <3>2. Max(x) \in x /\ \A y \in x : y <= Max(x)
      <4> HIDE DEF x
      <4> QED BY <3>1, LastExists
    <3>3. k + 1 \in x
      BY <2>1
    <3> QED BY <3>2, <3>3
  <2>3. x \ {k + 1} = 1..k
    <3>1. k \in Nat
      BY <1>2
    <3>2. \A y : y \in x \ {k + 1} <=> y \in 1..k
      BY <3>1
    <3> HIDE DEF x
    <3> QED BY <3>2
  <2>4. f[1..k] = g[1..k] /\ s[k + 1] = t[k + 1]
    BY <1>2, <2>1 DEF Alike
  <2> HIDE DEF x
  <2>5. f[x] = f[1..k] + s[k + 1].pnl /\ g[x] = g[1..k] + t[k + 1].pnl
    BY <1>0, <2>1, <2>2, <2>3
  <2>6. f[x] = g[x] /\ k + 1 \in 0..n
    BY <2>1, <2>4, <2>5
  <2> QED BY <2>6 DEF x
<1> HIDE DEF T
<1>3. n \in T
  BY <1>1, <1>2, CountUp
<1> QED BY <1>3 DEF T

(* The profit of the first n trades of a list                              *)
ProfitOf(s, n) == FoldLeft(LAMBDA sum, t : sum + t.pnl, 0, SubSeq(s, 1, n))

(* is what such a function gives the places up to n.                       *)
LEMMA ProfitIs ==
  ASSUME NEW s \in Seq(Trade), NEW n \in Nat, n <= Len(s)
  PROVE  LET q == SubSeq(s, 1, n)
         IN  ProfitOf(s, n) = (CHOOSE f : Folds(f, q, n))[1..n]
<1> DEFINE q == SubSeq(s, 1, n)
<1>1. DOMAIN q = 1..n
  OBVIOUS
<1> HIDE DEF q
<1>2. ProfitOf(s, n) = (CHOOSE f : f = [x \in SUBSET (DOMAIN q) |->
                         IF x = {} THEN 0 ELSE f[x \ {Max(x)}] + q[Max(x)].pnl])[DOMAIN q]
  BY DEF ProfitOf, FoldLeft, MapThenFoldSet, q
<1>3. ProfitOf(s, n) = (CHOOSE f : Folds(f, q, n))[1..n]
  BY <1>1, <1>2 DEF Folds
<1> QED BY <1>3 DEF q

(* One trade more adds its own.                                            *)
LEMMA ProfitGrows ==
  ASSUME NEW s \in Seq(Trade), NEW n \in Nat, n + 1 <= Len(s)
  PROVE  ProfitOf(s, n + 1) = ProfitOf(s, n) + s[n + 1].pnl
<1> DEFINE q == SubSeq(s, 1, n)
           t == SubSeq(s, 1, n + 1)
           f == CHOOSE h : Folds(h, q, n)
           g == CHOOSE h : Folds(h, t, n + 1)
<1>0. n + 1 \in Nat /\ n <= n + 1 /\ n <= Len(s)
  OBVIOUS
<1>1. \A k \in 1..n : q[k] = t[k]
  OBVIOUS
<1>2. t[n + 1] = s[n + 1]
  OBVIOUS
<1>4. ProfitOf(s, n) = f[1..n] /\ ProfitOf(s, n + 1) = g[1..(n + 1)]
  <2>1. ProfitOf(s, n) = f[1..n]
    BY <1>0, ProfitIs
  <2>2. ProfitOf(s, n + 1) = g[1..(n + 1)]
    BY <1>0, ProfitIs
  <2> QED BY <2>1, <2>2
<1> HIDE DEF q, t
<1>3. Folds(f, q, n) /\ Folds(g, t, n + 1)
  <2>1. \E h : Folds(h, q, n)
    BY FoldsExist
  <2>2. \E h : Folds(h, t, n + 1)
    BY <1>0, FoldsExist
  <2> QED BY <2>1, <2>2
<1> HIDE DEF f, g
<1>5. f[1..n] = g[1..n]
  <2>1. n \in Nat /\ n + 1 \in Nat /\ n <= n + 1
    BY <1>0
  <2> DEFINE m == n + 1
  <2>2. m \in Nat /\ n <= m /\ Folds(f, q, n) /\ Folds(g, t, m) /\ Alike(q, t, n)
    BY <2>1, <1>1, <1>3 DEF Alike
  <2>3. f[1..n] = g[1..n]
    <3> HIDE DEF m
    <3> QED BY <2>2, FoldsAgree
  <2> QED BY <2>3
<1> DEFINE x == 1..(n + 1)
<1>6. Max(x) = n + 1 /\ x \ {n + 1} = 1..n /\ x # {} /\ x \in SUBSET (1..(n + 1))
  <2>1. x \in SUBSET (0..(n + 1)) /\ x # {} /\ n + 1 \in x /\ n + 1 \in Nat
    <3>1. (\A y \in x : y \in 0..(n + 1)) /\ n + 1 \in x /\ n + 1 \in Nat
      OBVIOUS
    <3> HIDE DEF x
    <3> QED BY <3>1
  <2>2. Max(x) \in x /\ \A y \in x : y <= Max(x)
    <3> HIDE DEF x
    <3> QED BY <2>1, LastExists
  <2>3. \A y : y \in x \ {n + 1} <=> y \in 1..n
    OBVIOUS
  <2>4. x \ {n + 1} = 1..n
    <3> HIDE DEF x
    <3> QED BY <2>3
  <2> QED BY <2>1, <2>2, <2>4
<1> HIDE DEF x
<1>7. g[x] = g[x \ {Max(x)}] + t[Max(x)].pnl
  BY <1>3, <1>6 DEF Folds
<1>8. g[x] = g[1..n] + s[n + 1].pnl
  BY <1>2, <1>6, <1>7
<1> QED BY <1>4, <1>5, <1>8 DEF x

(* Of no trade there is none.                                              *)
LEMMA ProfitOfNone ==
  ASSUME NEW s \in Seq(Trade)
  PROVE  ProfitOf(s, 0) = 0
<1> DEFINE q == SubSeq(s, 1, 0)
           f == CHOOSE h : Folds(h, q, 0)
<1>1. Folds(f, q, 0)
  <2>1. \E h : Folds(h, q, 0)
    BY FoldsExist
  <2> QED BY <2>1
<1>2. ProfitOf(s, 0) = f[1..0]
  BY ProfitIs
<1> HIDE DEF f, q
<1>3. f[{}] = 0
  BY <1>1 DEF Folds
<1> QED BY <1>2, <1>3

(* The trades the curve has realized.                                      *)
Realized == next - 1 - Len(open)

(* A trade lasts at least a bar, or the data ended.                        *)
Lasting(t) == t.exited = Bars \/ t.exited > t.entered

(* The curve has realized the trades closed before this bar, and none that *)
(* closes after it; it holds the next of them or waits for its entry.      *)
CurveSound ==
  /\ i >= 1 /\ Len(equity) = i
  /\ Realized \in 0..Len(trades)
  /\ Last(equity) = ProfitOf(trades, Realized)
  /\ \A k \in 1..Realized : trades[k].exited <= i
  /\ \A k \in Realized + 1..Len(trades) : trades[k].exited >= i
  /\ open # <<>> => Len(open) = 1 /\ next > 1 /\ open[1] = trades[next - 1]
  /\ open = <<>> => Len(open) = 0 /\ (next <= Len(trades) => trades[next].entered >= i)

EquityInv ==
  /\ Inv
  /\ \A k \in 1..Len(trades) : Lasting(trades[k])
  /\ pass = "simulate" => equity = <<>> /\ open = <<>> /\ next = 1
  /\ pass # "simulate" => CurveSound

(* Before the first bar there is nothing.                                  *)
LEMMA EquityInit == Init => EquityInv
BY InitInv DEF Init, EquityInv

(* Appending a lasting trade.                                              *)
LEMMA AppendLasting ==
  ASSUME NEW s \in Seq(Trade), NEW c \in Trade, \A k \in 1..Len(s) : Lasting(s[k]), Lasting(c)
  PROVE  \A k \in 1..Len(Append(s, c)) : Lasting(Append(s, c)[k])
<1> TAKE k \in 1..Len(Append(s, c))
<1>1. CASE k = Len(s) + 1
  BY <1>1
<1>2. CASE k # Len(s) + 1
  BY <1>2
<1> QED BY <1>1, <1>2

(* The trade a bar closes was entered on an earlier one.                   *)
LEMMA SimulateEquity ==
  ASSUME EquityInv, NEW b \in Candles, NEW signal \in Signals, NEW calm \in BOOLEAN,
         NEW distance \in Distances, SimulateBar(b, signal, calm, distance)
  PROVE  EquityInv'
<1> DEFINE at == i + 1
           t == position[1]
           how == IF position = <<>> THEN <<>> ELSE Exit(t, b, at, signal)
           c == Closed(t, how[1], how[2], at, Slippage)
<1>1. /\ pass = "simulate" /\ i' = at
      /\ trades' = IF how = <<>> THEN trades ELSE Append(trades, c)
      /\ pass' = pass /\ equity' = equity /\ next' = next /\ open' = open
  BY Zenon DEF SimulateBar
<1>2. Inv' /\ i \in 0..Bars /\ Bars \in Nat /\ trades \in Seq(Trade)
  BY SimulateInv, BarsAssumption DEF EquityInv, Inv
<1>3. \A k \in 1..Len(trades) : Lasting(trades[k])
  BY DEF EquityInv
<1>4. ASSUME how # <<>> PROVE c.exited = at /\ c.entered = t.entered /\ t.entered \in Int /\ t.entered <= i
  <2>1. Sound(t, i, last)
    BY <1>4 DEF EquityInv, Inv, PositionSound
  <2>2. c.entered = t.entered /\ c.exited = at
    BY <2>1 DEF Closed, Sound, Trade
  <2>3. t.entered \in 1..Bars /\ t.entered <= i
    BY <2>1, TradeFields DEF Sound
  <2> QED BY <2>2, <2>3, <1>2
<1>5. \A k \in 1..Len(trades') : Lasting(trades'[k])
  <2>1. CASE how = <<>>
    BY <1>1, <1>3, <2>1
  <2>2. CASE how # <<>>
    <3>1. trades' = Append(trades, c)
      BY <1>1, <2>2
    <3>2. c.exited = at /\ c.entered = t.entered /\ t.entered \in Int /\ t.entered <= i
      BY <1>4, <2>2
    <3>3. Lasting(c)
      <4> HIDE DEF c, t
      <4> QED BY <3>2, <1>2 DEF Lasting
    <3> DEFINE a == Append(trades, c)
    <3>4. a \in Seq(Trade)
      BY <1>2, <3>1 DEF Inv
    <3> HIDE DEF c
    <3>5. Len(a) = Len(trades) + 1 /\ a[Len(trades) + 1] = c
      BY <1>2
    <3>6. c \in Trade
      <4>1. Len(trades) + 1 \in 1..Len(a)
        BY <1>2, <3>5
      <4> HIDE DEF a
      <4> QED BY <3>4, <3>5, <4>1
    <3> QED BY <1>2, <1>3, <3>1, <3>3, <3>6, AppendLasting
  <2> QED BY <2>1, <2>2
<1>6. pass' = "simulate" /\ equity' = <<>> /\ open' = <<>> /\ next' = 1
  BY <1>1 DEF EquityInv
<1> HIDE DEF at, how, c, t
<1> QED BY <1>2, <1>5, <1>6 DEF EquityInv

(* The curve starts at the first bar, by which no trade has closed unless it*)
(* is the only one.                                                        *)
LEMMA EndEquity == ASSUME EquityInv, EndOfData PROVE EquityInv'
<1> DEFINE c == Closed(position[1], "end_of_data", last, Bars, 0)
<1>1. /\ pass = "simulate" /\ position' = <<>> /\ pass' = "curve" /\ i' = 1
      /\ trades' = IF position = <<>> THEN trades ELSE Append(trades, c)
      /\ equity' = <<0>> /\ next' = 1 /\ open' = <<>>
  BY DEF EndOfData, EquityInv
<1>2. Inv' /\ Inv /\ Bars \in Nat \ {0} /\ trades \in Seq(Trade) /\ trades' \in Seq(Trade)
  BY EndInv, BarsAssumption DEF EquityInv, Inv
<1>3. \A k \in 1..Len(trades) : Lasting(trades[k])
  BY DEF EquityInv
<1>4. \A k \in 1..Len(trades') : Lasting(trades'[k])
  <2>1. CASE position = <<>>
    BY <1>1, <1>3, <2>1
  <2>2. CASE position # <<>>
    <3>1. position[1] \in Trade
      BY <2>2 DEF EquityInv, Inv, PositionSound, Sound
    <3>2. c.exited = Bars
      BY <3>1 DEF Closed, Trade
    <3>3. trades' = Append(trades, c)
      BY <1>1, <2>2
    <3> HIDE DEF c
    <3> DEFINE a == Append(trades, c)
    <3>4. Len(a) = Len(trades) + 1 /\ a[Len(trades) + 1] = c
      BY <1>2
    <3>5. a \in Seq(Trade)
      BY <1>2, <3>3
    <3>6. c \in Trade
      <4>1. Len(trades) + 1 \in 1..Len(a)
        BY <1>2, <3>4
      <4> HIDE DEF a
      <4> QED BY <3>4, <3>5, <4>1
    <3>7. Lasting(c)
      BY <3>2 DEF Lasting
    <3> QED BY <1>2, <1>3, <3>3, <3>6, <3>7, AppendLasting
  <2> QED BY <2>1, <2>2
<1> HIDE DEF c
<1>5. ASSUME NEW k \in 1..Len(trades')
      PROVE  trades'[k].exited >= 1 /\ trades'[k].entered >= 1
  <2>1. trades'[k] \in Trade
    BY <1>2, <1>5
  <2> DEFINE t == trades'[k]
  <2>2. Lasting(t) /\ t \in Trade
    BY <1>4, <1>5, <2>1
  <2> HIDE DEF t
  <2>3. t.entered \in 1..Bars /\ t.exited \in 0..Bars /\ (t.exited = Bars \/ t.exited > t.entered)
    BY <2>2, TradeFields DEF Lasting
  <2>4. t.exited >= 1 /\ t.entered >= 1
    BY <1>2, <2>3
  <2> QED BY <2>4 DEF t
<1>6. CurveSound'
  <2>1. Realized' = 0 /\ Len(equity') = 1 /\ Last(equity') = 0
    <3>1. Realized' = next' - 1 - Len(open')
      BY DEF Realized
    <3>2. Len(open') = 0 /\ next' = 1 /\ Len(equity') = 1 /\ equity'[1] = 0
      BY <1>1
    <3>3. Last(equity') = equity'[Len(equity')]
      BY DEF Last
    <3> QED BY <3>1, <3>2, <3>3
  <2>2. ProfitOf(trades', 0) = 0
    BY <1>2, ProfitOfNone
  <2>3. \A k \in 1..0 : FALSE
    OBVIOUS
  <2>4. Len(open') = 0 /\ (next' <= Len(trades') => next' \in 1..Len(trades'))
    BY <1>1, <1>2
  <2> QED BY <1>1, <1>2, <1>5, <2>1, <2>2, <2>3, <2>4 DEF CurveSound
<1> QED BY <1>1, <1>2, <1>4, <1>6 DEF EquityInv

(* A bar of the curve realizes at most one trade, and no second one can be *)
(* due: the next trade was entered when the one before closed, and lasts.  *)
LEMMA CurveEquity == ASSUME EquityInv, CurveBar PROVE EquityInv'
<1> DEFINE at == i + 1
           realize == open # <<>> /\ open[1].exited <= at
           take == Free(realize) /\ next <= Len(trades) /\ trades[next].entered <= at
           gain == IF realize THEN open[1].pnl ELSE 0
<1>1. /\ pass = "curve" /\ i < Bars /\ i' = at
      /\ equity' = Append(equity, Last(equity) + gain)
      /\ open' = IF take THEN <<trades[next]>> ELSE IF realize THEN <<>> ELSE open
      /\ next' = IF take THEN next + 1 ELSE next
      /\ trades' = trades /\ pass' = pass
  BY Zenon DEF CurveBar
<1>2. /\ Inv' /\ Inv /\ CurveSound
      /\ \A k \in 1..Len(trades) : Lasting(trades[k])
  BY <1>1, CurveInv DEF EquityInv
<1>3. /\ trades \in Seq(Trade) /\ next \in 1..Len(trades) + 1 /\ equity \in Seq(Int)
      /\ i \in 0..Bars /\ Bars \in Nat /\ open \in Positions
      /\ \A k \in 1..Len(trades) - 1 : trades[k].exited <= trades[k + 1].entered
  BY <1>2, BarsAssumption DEF Inv, TradesSound
<1>4. \A k \in 1..Len(trades) : trades[k].exited \in Int /\ trades[k].entered \in Int
        /\ trades[k].pnl \in Int
  <2>1. \A k \in 1..Len(trades) : trades[k] \in Trade
    BY <1>3
  <2> QED BY <2>1, TradeFields
<1>5. ASSUME NEW k \in 1..Len(trades), trades[k].entered >= i
      PROVE  trades[k].exited >= at
  <2>1. Lasting(trades[k]) /\ trades[k].exited \in Int /\ trades[k].entered \in Int
    BY <1>2, <1>4
  <2> QED BY <2>1, <1>1, <1>3, <1>5 DEF Lasting
<1>6. ASSUME NEW k \in Realized + 2..Len(trades)
      PROVE  trades[k].exited >= at
  <2>1. Realized \in Nat /\ \A l \in Realized + 1..Len(trades) : trades[l].exited >= i
    BY <1>2 DEF CurveSound
  <2>2. k - 1 \in Realized + 1..Len(trades) /\ k - 1 \in 1..Len(trades) - 1
        /\ k \in 1..Len(trades) /\ k - 1 \in 1..Len(trades) /\ (k - 1) + 1 = k
    BY <1>3, <1>6, <2>1
  <2>3. trades[k - 1].exited >= i /\ trades[k - 1].exited <= trades[k].entered
    BY <1>3, <2>1, <2>2
  <2>4. trades[k].entered >= i
    BY <1>3, <1>4, <2>2, <2>3
  <2> QED BY <1>5, <2>2, <2>4
<1>7. /\ equity' # <<>> /\ Len(equity') = i' /\ i' >= 1
      /\ Last(equity') = Last(equity) + gain
  <2>1. Len(equity) = i /\ i >= 1
    BY <1>2 DEF CurveSound
  <2>2. Last(equity) + gain \in Int
    <3>1. equity' \in Seq(Int) /\ i \in Nat
      BY <1>2, <1>3 DEF Inv
    <3>2. Len(equity') = Len(equity) + 1 /\ equity'[Len(equity) + 1] = Last(equity) + gain
      BY <1>1, <1>3
    <3> HIDE DEF gain
    <3> QED BY <3>1, <3>2, <2>1
  <2> HIDE DEF gain
  <2> QED BY <1>1, <1>3, <2>1, <2>2 DEF Last
<1>8. CASE realize
  <2>1. /\ Len(open) = 1 /\ next > 1 /\ open[1] = trades[next - 1]
        /\ Realized = next - 2 /\ Realized \in Nat
        /\ Realized + 1 = next - 1 /\ next - 1 \in 1..Len(trades)
    <3>1. /\ Len(open) = 1 /\ next > 1 /\ open[1] = trades[next - 1]
          /\ Realized \in 0..Len(trades)
      BY <1>2, <1>8 DEF CurveSound
    <3>2. Realized = next - 1 - Len(open) /\ next \in Int /\ next <= Len(trades) + 1
          /\ Len(trades) \in Nat
      BY <1>3 DEF Realized
    <3>3. Realized = next - 2 /\ Realized \in Nat /\ Realized + 1 = next - 1
          /\ next - 1 \in 1..Len(trades)
      BY <3>1, <3>2
    <3> QED BY <3>1, <3>3
  <2>2. Realized' = Realized + 1
    BY <1>1, <1>3, <1>8, <2>1 DEF Realized
  <2>3. Last(equity') = ProfitOf(trades, Realized + 1)
    <3>1. ProfitOf(trades, Realized + 1) = ProfitOf(trades, Realized) + trades[Realized + 1].pnl
      BY <1>3, <2>1, ProfitGrows
    <3>2. Last(equity) = ProfitOf(trades, Realized) /\ gain = trades[Realized + 1].pnl
      BY <1>2, <1>8, <2>1 DEF CurveSound
    <3> QED BY <1>7, <3>1, <3>2
  <2>4. \A k \in 1..Realized + 1 : trades[k].exited <= at
    <3>1. \A k \in 1..Realized : trades[k].exited <= i /\ trades[k].exited \in Int
      BY <1>2, <1>3, <1>4, <2>1 DEF CurveSound
    <3>2. trades[Realized + 1].exited <= at
      BY <1>8, <2>1
    <3>3. \A k \in 1..Realized + 1 : k \in 1..Realized \/ k = Realized + 1
      BY <2>1
    <3> QED BY <1>3, <3>1, <3>2, <3>3
  <2>5. \A k \in (Realized + 1) + 1..Len(trades) : trades[k].exited >= at
    BY <1>6, <2>1
  <2>6. /\ open' # <<>> => Len(open') = 1 /\ next' > 1 /\ open'[1] = trades[next' - 1]
        /\ open' = <<>> => Len(open') = 0 /\ (next' <= Len(trades) => trades[next'].entered >= at)
    <3>1. CASE take
      BY <1>1, <1>3, <3>1
    <3>2. CASE ~take
      <4>1. open' = <<>> /\ next' = next
        BY <1>1, <1>8, <3>2
      <4>2. next <= Len(trades) => ~(trades[next].entered <= at)
        BY <1>8, <3>2 DEF Free
      <4>3. next <= Len(trades) => trades[next].entered >= at
        BY <1>3, <1>4, <4>2
      <4> QED BY <4>1, <4>3
    <3> QED BY <3>1, <3>2
  <2> HIDE DEF realize, take, gain
  <2>7. CurveSound'
    BY <1>1, <1>3, <1>7, <2>1, <2>2, <2>3, <2>4, <2>5, <2>6 DEF CurveSound
  <2> QED BY <1>1, <1>2, <2>7 DEF EquityInv
<1>9. CASE ~realize
  <2>1. Realized \in 0..Len(trades) /\ (open # <<>> => Len(open) = 1 /\ open[1] = trades[next - 1])
    BY <1>2 DEF CurveSound
  <2>2. Realized' = Realized
    <3>1. CASE take
      <4>1. open = <<>> /\ Len(open) = 0
        BY <1>2, <1>9, <3>1 DEF Free, CurveSound
      <4> QED BY <1>1, <1>3, <3>1, <4>1 DEF Realized
    <3>2. CASE ~take
      BY <1>1, <1>9, <3>2 DEF Realized
    <3> QED BY <3>1, <3>2
  <2>3. Last(equity') = ProfitOf(trades, Realized)
    <3>1. Last(equity) \in Int
      BY <1>2, <1>3 DEF CurveSound, Last
    <3> QED BY <1>2, <1>7, <1>9, <3>1 DEF CurveSound
  <2>4. \A k \in 1..Realized : trades[k].exited <= at
    <3>1. \A k \in 1..Realized : trades[k].exited <= i /\ trades[k].exited \in Int
      BY <1>2, <1>3, <1>4, <2>1 DEF CurveSound
    <3> QED BY <1>3, <3>1
  <2>5. \A k \in Realized + 1..Len(trades) : trades[k].exited >= at
    <3>1. ASSUME Realized + 1 \in 1..Len(trades) PROVE trades[Realized + 1].exited >= at
      <4>1. CASE open = <<>>
        <5>1. Realized + 1 = next /\ trades[next].entered >= i
          BY <1>2, <1>3, <3>1, <4>1 DEF CurveSound, Realized
        <5> QED BY <1>5, <3>1, <5>1
      <4>2. CASE open # <<>>
        <5>1. Realized + 1 = next - 1 /\ open[1] = trades[next - 1]
          <6>1. Len(open) = 1 /\ open[1] = trades[next - 1]
            BY <2>1, <4>2
          <6>2. Realized = next - 1 - Len(open) /\ next \in Int
            BY <1>3 DEF Realized
          <6> QED BY <6>1, <6>2
        <5>2. ~(trades[Realized + 1].exited <= at)
          BY <1>9, <4>2, <5>1
        <5> QED BY <1>3, <1>4, <3>1, <5>2
      <4> QED BY <4>1, <4>2
    <3>2. \A k \in Realized + 1..Len(trades) :
            k \in Realized + 2..Len(trades) \/ (k = Realized + 1 /\ k \in 1..Len(trades))
      BY <1>3, <2>1
    <3> QED BY <1>6, <3>1, <3>2
  <2>6. /\ open' # <<>> => Len(open') = 1 /\ next' > 1 /\ open'[1] = trades[next' - 1]
        /\ open' = <<>> => Len(open') = 0 /\ (next' <= Len(trades) => trades[next'].entered >= at)
    <3>1. CASE take
      BY <1>1, <1>3, <3>1
    <3>2. CASE ~take /\ open # <<>>
      BY <1>1, <1>2, <1>9, <3>2 DEF CurveSound
    <3>3. CASE ~take /\ open = <<>>
      <4>1. open' = <<>> /\ next' = next
        BY <1>1, <1>9, <3>3
      <4>2. next <= Len(trades) => ~(trades[next].entered <= at)
        BY <3>3 DEF Free
      <4>3. next <= Len(trades) => trades[next].entered >= at
        BY <1>3, <1>4, <4>2
      <4> QED BY <4>1, <4>3
    <3> QED BY <3>1, <3>2, <3>3
  <2> HIDE DEF realize, take, gain
  <2>7. CurveSound'
    BY <1>1, <1>3, <1>7, <2>1, <2>2, <2>3, <2>4, <2>5, <2>6 DEF CurveSound
  <2> QED BY <1>1, <1>2, <2>7 DEF EquityInv
<1> QED BY <1>8, <1>9

(* Every step keeps the invariant.                                         *)
LEMMA NextEquity == EquityInv /\ [Next]_vars => EquityInv'
<1> SUFFICES ASSUME EquityInv, [Next]_vars PROVE EquityInv'
  OBVIOUS
<1>0. Inv'
  BY NextInv DEF EquityInv
<1>1. CASE Simulate
  <2>1. PICK b \in Candles, signal \in Signals, calm \in BOOLEAN, distance \in Distances :
          SimulateBar(b, signal, calm, distance)
    BY <1>1 DEF Simulate
  <2> QED BY <2>1, SimulateEquity
<1>2. CASE EndOfData
  BY <1>2, EndEquity
<1>3. CASE CurveBar
  BY <1>3, CurveEquity
<1>4. CASE Return
  BY <1>0, <1>4 DEF Return, EquityInv, CurveSound, Realized
<1>5. CASE UNCHANGED vars
  BY <1>0, <1>5 DEF vars, EquityInv, CurveSound, Realized
<1> QED BY <1>1, <1>2, <1>3, <1>4, <1>5 DEF Next

(* The equity of a bar is the profit of a prefix of the trades that holds  *)
(* every trade closed before that bar and none closed after it.            *)
THEOREM EquityFollows == Spec => []EquityLagsOneBar
<1>1. ASSUME EquityInv PROVE EquityLagsOneBar
  <2> SUFFICES ASSUME equity # <<>>
      PROVE \E k \in ClosedBy(Len(equity) - 1)..ClosedBy(Len(equity)) : Last(equity) = Profit(k)
    BY DEF EquityLagsOneBar
  <2>1. CurveSound /\ trades \in Seq(Trade) /\ i \in Nat
    BY <1>1, BarsAssumption DEF EquityInv, Inv
  <2> DEFINE D == 1..Len(trades)
             r == Realized
             before == {k \in D : trades[k].exited <= i - 1}
             by == {k \in D : trades[k].exited <= i}
  <2>2. r \in 0..Len(trades) /\ Len(trades) \in Nat /\ DOMAIN trades = D
    BY <2>1 DEF CurveSound
  <2>3. \A k \in D : trades[k].exited \in Int
    <3>1. \A k \in D : trades[k] \in Trade
      BY <2>1
    <3> QED BY <3>1, TradeFields
  <2>4. before \subseteq 1..r /\ 1..r \subseteq by /\ by \subseteq D
    <3>1. ASSUME NEW k \in before PROVE k \in 1..r
      <4>1. k \notin r + 1..Len(trades)
        BY <2>1, <2>3, <3>1 DEF CurveSound
      <4> QED BY <2>2, <3>1, <4>1
    <3>2. ASSUME NEW k \in 1..r PROVE k \in by
      BY <2>1, <2>2, <3>2 DEF CurveSound
    <3> QED BY <3>1, <3>2
  <2> HIDE DEF before, by, r
  <2>5. IsFiniteSet(1..r) /\ Cardinality(1..r) = r
    <3>1. r \in Nat
      BY <2>2
    <3>2. Cardinality(1..r) = IF 1 > r THEN 0 ELSE r - 1 + 1
      BY <3>1, FS_Interval
    <3> QED BY <3>1, <3>2, FS_Interval
  <2>6. IsFiniteSet(D)
    BY <2>2, FS_Interval
  <2> HIDE DEF D
  <2>7. IsFiniteSet(by) /\ Cardinality(by) \in Nat /\ Cardinality(before) \in Nat
        /\ r <= Cardinality(by) /\ Cardinality(before) <= r
    <3>1. by \in SUBSET D /\ 1..r \in SUBSET by /\ before \in SUBSET (1..r)
      BY <2>4
    <3>2. IsFiniteSet(by) /\ Cardinality(1..r) <= Cardinality(by)
      BY <3>1, <2>6, FS_Subset
    <3>3. IsFiniteSet(before) /\ Cardinality(before) <= Cardinality(1..r)
      BY <3>1, <2>5, FS_Subset
    <3> QED BY <3>2, <3>3, <2>5, FS_CardinalityType
  <2>8. ClosedBy(Len(equity)) = Cardinality(by)
        /\ ClosedBy(Len(equity) - 1) = Cardinality(before)
    BY <2>1, <2>2 DEF ClosedBy, CurveSound, by, before
  <2>9. Last(equity) = Profit(r)
    BY <2>1 DEF CurveSound, Profit, ProfitOf, r
  <2>10. r \in Cardinality(before)..Cardinality(by)
    BY <2>2, <2>7
  <2> QED BY <2>8, <2>9, <2>10
<1> QED BY <1>1, EquityInit, NextEquity, PTL DEF Spec

=============================================================================
