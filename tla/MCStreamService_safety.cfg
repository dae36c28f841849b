\* Two clients and a chart over three subscriptions.
SPECIFICATION FairStreamSpec
CONSTANTS
  Absent = Absent
  c1 = c1
  c2 = c2
  h1 = h1
  eur = eur
  usd = usd
  eurM1 = eurM1
  eurM5 = eurM5
  usdM1 = usdM1
  Clients <- TwoAndChart
  Charts <- OneChart
  Keys <- ThreeKeys
  Symbols <- TwoSymbols
  SymbolOf <- KeySymbols
  Minute <- MinuteKeys
  Instrument <- ChartSymbols
  MaxTicks = 2
  MaxRequests = 2
  MaxFailures = 1
INVARIANTS StreamCoversSubscriptions RegistriesAgree NoSendToDead NoTickTwice
PROPERTY SubscribedIsStreamed
\* The manager is stopped and every connection has ended.
CHECK_DEADLOCK FALSE
