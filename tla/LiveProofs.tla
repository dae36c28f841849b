----------------------------- MODULE LiveProofs -----------------------------
(***************************************************************************)
(* Theorems about what happens while markets are open: StreamService, the  *)
(* prices, for any clients, charts, symbols and subscription keys; and     *)
(* LiveExecution, the trades, for every set of signals, runs, audits and   *)
(* prices, any correlation and any number of faults.                       *)
(***************************************************************************)
EXTENDS StreamService, LiveExecution, FiniteSetTheorems, TLAPS

(***************************************************************************)
(* Live prices                                                             *)
(***************************************************************************)
(***************************************************************************)
(* The inductive invariant                                                 *)
(***************************************************************************)

Typed ==
  /\ phase \in {"new", "running", "stopped"}
  /\ clients \in [Keys -> (SUBSET Clients) \cup {Absent}]
  /\ registered \in [Clients -> (SUBSET Symbols) \cup {Absent}]
  /\ handler \in [Clients -> {"new", "reply", "loop", "done"}]
  /\ stream \in StreamTask
  /\ builder \in [Keys -> Nat]
  /\ due \in [Keys -> Nat]
  /\ spent \in [ticks : 0..MaxTicks, requests : 0..MaxRequests, failures : 0..MaxFailures]

(* There is a stream task only while the manager runs.                     *)
StreamWhileRunning == stream.at # "none" => phase = "running"

(* A broadcast is about a symbol, and the keys still to be updated have a  *)
(* tick due.                                                               *)
TickUnderWay ==
  stream.at = "send" =>
    /\ stream.symbol \in Symbols
    /\ \A k \in stream.todo : builder[k] < due[k]

(* The connection manager does not know the chart clients.                 *)
ChartsUnknown == \A c \in Charts : registered[c] = Absent

DueIsReceived == \A k \in Keys : due[k] <= spent.ticks

Inv ==
  /\ Typed
  /\ StreamWhileRunning
  /\ TickUnderWay
  /\ ChartsUnknown
  /\ DueIsReceived
  /\ StreamCoversSubscriptions
  /\ RegistriesAgree
  /\ NoSendToDead
  /\ NoTickTwice

LEMMA TaskTypes ==
  /\ NewTask \in StreamTask /\ NewTask.at = "connect"
  /\ NoTask \in StreamTask /\ NoTask.at = "none"
BY DEF NewTask, NoTask, StreamTask

LEMMA InitInv == StreamInit => Inv
<1> SUFFICES ASSUME StreamInit PROVE Inv
  OBVIOUS
<1>1. Typed
  BY TaskTypes, BoundAssumption DEF StreamInit, Typed
<1>2. \A c \in Clients : registered[c] = Absent /\ handler[c] = "new"
  BY DEF StreamInit
<1>3. Charts \subseteq Clients
  BY ClientAssumption
<1> QED BY <1>1, <1>2, <1>3, TaskTypes
        DEF StreamInit, Inv, StreamWhileRunning, TickUnderWay, ChartsUnknown, DueIsReceived,
            StreamCoversSubscriptions, RegistriesAgree, IsRegistered, NoSendToDead, NoTickTwice

(***************************************************************************)
(* Steps of the stream task                                                *)
(***************************************************************************)

(* The part of the invariant that is about the task and its builders.      *)
TaskInv ==
  /\ stream \in StreamTask
  /\ builder \in [Keys -> Nat]
  /\ StreamWhileRunning
  /\ TickUnderWay
  /\ StreamCoversSubscriptions
  /\ NoTickTwice

(* The rest of it.                                                         *)
ClientInv ==
  /\ clients \in [Keys -> (SUBSET Clients) \cup {Absent}]
  /\ registered \in [Clients -> (SUBSET Symbols) \cup {Absent}]
  /\ handler \in [Clients -> {"new", "reply", "loop", "done"}]
  /\ ChartsUnknown
  /\ RegistriesAgree
  /\ NoSendToDead

LEMMA Parts ==
  Inv <=> /\ phase \in {"new", "running", "stopped"}
          /\ due \in [Keys -> Nat]
          /\ spent \in [ticks : 0..MaxTicks, requests : 0..MaxRequests, failures : 0..MaxFailures]
          /\ DueIsReceived
          /\ TaskInv
          /\ ClientInv
BY DEF Inv, Typed, TaskInv, ClientInv

(* The loop over the builders keeps the invariant if each of its keys has  *)
(* a tick due.                                                             *)
LEMMA UpdateInv ==
  ASSUME TaskInv, NEW s \in Symbols, NEW keys \in SUBSET Keys,
         UpdateBuilders(s, keys),
         stream.at \in {"open", "send"},
         phase' = phase, clients' = clients,
         due \in [Keys -> Nat], due' \in [Keys -> Nat],
         \A k \in Keys : due'[k] >= due[k],
         \A k \in keys : builder[k] < due'[k]
  PROVE  TaskInv'
<1>1. /\ stream' \in StreamTask
      /\ stream'.at \in {"open", "send"}
      /\ stream'.symbols = stream.symbols
      /\ stream'.at = "send" => stream'.symbol = s
      /\ stream'.todo \subseteq keys
  <2>0. Receivers(s) \in SUBSET Clients /\ stream \in StreamTask
    BY DEF Receivers, TaskInv
  <2>1. CASE stream' = Idle
    BY <2>0, <2>1 DEF Idle, NewTask, StreamTask
  <2>2. ASSUME NEW what \in {"candle", "tick"}, NEW rest \in SUBSET keys,
               stream' = Broadcasting(what, s, rest)
        PROVE  /\ stream' \in StreamTask /\ stream'.at = "send" /\ stream'.symbols = stream.symbols
               /\ stream'.symbol = s /\ stream'.todo \subseteq keys
    BY <2>0, <2>2 DEF Broadcasting, StreamTask
  <2> QED BY <2>1, <2>2 DEF UpdateBuilders
<1>2. builder' = [k \in Keys |-> builder[k] + (IF k \in keys \ stream'.todo THEN 1 ELSE 0)]
  BY DEF UpdateBuilders
<1>3. builder \in [Keys -> Nat] /\ (\A k \in Keys : builder[k] <= due[k])
  BY DEF TaskInv, NoTickTwice
<1>4. builder' \in [Keys -> Nat]
  BY <1>2, <1>3
<1>5. NoTickTwice'
  <2>1. ASSUME NEW k \in Keys PROVE builder'[k] <= due'[k]
    <3>1. builder[k] \in Nat /\ due'[k] \in Nat /\ due[k] \in Nat /\ builder[k] <= due[k] /\ due'[k] >= due[k]
      BY <1>3
    <3>2. CASE k \in keys \ stream'.todo
      BY <1>2, <3>1, <3>2
    <3>3. CASE k \notin keys \ stream'.todo
      BY <1>2, <3>1, <3>3
    <3> QED BY <3>2, <3>3
  <2> QED BY <2>1 DEF NoTickTwice
<1>6. TickUnderWay'
  <2>1. ASSUME NEW k \in stream'.todo PROVE builder'[k] < due'[k]
    BY <1>1, <1>2, <1>3
  <2> QED BY <1>1, <2>1 DEF TickUnderWay
<1>7. StreamWhileRunning'
  BY DEF TaskInv, StreamWhileRunning
<1>8. StreamCoversSubscriptions'
  BY <1>1 DEF TaskInv, StreamCoversSubscriptions, SubscribedSymbols, Subscribed
<1> QED BY <1>1, <1>4, <1>5, <1>6, <1>7, <1>8 DEF TaskInv

LEMMA TickInv == ASSUME Inv, NEW s \in Symbols, ReceiveTick(s) PROVE Inv'
<1> USE Parts
<1>1. /\ spent' = [spent EXCEPT !.ticks = @ + 1] /\ spent.ticks < MaxTicks
      /\ due' = [k \in Keys |-> due[k] + (IF k \in KeysOf(s) THEN 1 ELSE 0)]
      /\ due \in [Keys -> Nat] /\ builder \in [Keys -> Nat]
      /\ spent \in [ticks : 0..MaxTicks, requests : 0..MaxRequests, failures : 0..MaxFailures]
      /\ UNCHANGED <<phase, clients, registered, handler>>
  BY DEF ReceiveTick, TaskInv
<1>2. spent' \in [ticks : 0..MaxTicks, requests : 0..MaxRequests, failures : 0..MaxFailures]
      /\ spent'.ticks = spent.ticks + 1 /\ spent.ticks \in Nat
  BY <1>1, BoundAssumption
<1>3. due' \in [Keys -> Nat] /\ \A k \in Keys : due'[k] >= due[k] /\ due'[k] <= due[k] + 1
  BY <1>1
<1>4. DueIsReceived'
  BY <1>1, <1>2, <1>3 DEF DueIsReceived
<1>5. KeysOf(s) \in SUBSET Keys
  BY DEF KeysOf, Subscribed
<1>6. \A k \in KeysOf(s) : builder[k] < due'[k]
  BY <1>1, <1>5 DEF TaskInv, NoTickTwice
<1>7. UpdateBuilders(s, KeysOf(s)) /\ stream.at \in {"open", "send"}
  BY DEF ReceiveTick
<1>8. TaskInv'
  BY <1>1, <1>3, <1>5, <1>6, <1>7, UpdateInv
<1>9. ClientInv'
  BY <1>1 DEF ClientInv, ChartsUnknown, RegistriesAgree, IsRegistered, KeysOf, Subscribed,
     NoSendToDead
<1> QED BY <1>1, <1>2, <1>3, <1>4, <1>8, <1>9 DEF Inv, Typed, TaskInv, ClientInv

LEMMA FinishInv == ASSUME Inv, FinishBroadcast PROVE Inv'
<1> USE Parts
<1>1. /\ stream.at = "send"
      /\ registered' = [c \in Clients |-> IF c \in stream.failed THEN Absent ELSE registered[c]]
      /\ UNCHANGED <<phase, clients, handler, due, spent>>
  BY DEF FinishBroadcast
<1>2. TaskInv'
  <2>1. CASE stream' = Idle /\ UNCHANGED builder
    <3>1. stream' \in StreamTask /\ stream'.at = "open" /\ stream'.symbols = stream.symbols
      BY <2>1 DEF Idle, NewTask, StreamTask, TaskInv
    <3> QED BY <1>1, <2>1, <3>1
            DEF TaskInv, StreamWhileRunning, TickUnderWay, StreamCoversSubscriptions,
                SubscribedSymbols, Subscribed, NoTickTwice
  <2>2. CASE UpdateBuilders(stream.symbol, stream.todo)
    <3>1. stream.symbol \in Symbols /\ stream.todo \in SUBSET Keys
          /\ \A k \in stream.todo : builder[k] < due[k]
      BY <1>1 DEF TaskInv, TickUnderWay, StreamTask
    <3>2. due' \in [Keys -> Nat] /\ due \in [Keys -> Nat] /\ due' = due /\ \A k \in Keys : due'[k] >= due[k]
      BY <1>1
    <3> QED BY <1>1, <2>2, <3>1, <3>2, UpdateInv
  <2> QED BY <2>1, <2>2 DEF FinishBroadcast
<1>3. \A c \in Clients : registered'[c] = Absent \/ registered'[c] = registered[c]
  BY <1>1
<1>4. ClientInv'
  <2>1. registered' \in [Clients -> (SUBSET Symbols) \cup {Absent}]
    BY <1>1 DEF ClientInv
  <2>2. ChartsUnknown' /\ NoSendToDead'
    BY <1>1, <1>3, ClientAssumption DEF ClientInv, ChartsUnknown, NoSendToDead
  <2>3. RegistriesAgree'
    BY <1>1, <1>3 DEF ClientInv, RegistriesAgree, IsRegistered, KeysOf, Subscribed
  <2> QED BY <1>1, <2>1, <2>2, <2>3 DEF ClientInv
<1> QED BY <1>1, <1>2, <1>4 DEF Inv, Typed, TaskInv, ClientInv, DueIsReceived

(* The task connects, fails or sends: nothing but the task changes, and it *)
(* covers the subscriptions when it is open.                               *)
LEMMA TaskStep ==
  ASSUME Inv, stream' \in StreamTask,
         UNCHANGED <<phase, clients, registered, handler, builder, due>>,
         spent' \in [ticks : 0..MaxTicks, requests : 0..MaxRequests, failures : 0..MaxFailures],
         spent'.ticks = spent.ticks,
         stream'.at = "none" \/ phase = "running",
         stream'.at = "send" => stream.at = "send" /\ stream'.symbol = stream.symbol
                                  /\ stream'.todo = stream.todo,
         stream'.at \in {"open", "send"} => SubscribedSymbols \subseteq stream'.symbols
  PROVE  Inv'
<1> USE Parts
<1>1. TaskInv'
  BY DEF TaskInv, StreamWhileRunning, TickUnderWay, StreamCoversSubscriptions,
         SubscribedSymbols, Subscribed, NoTickTwice
<1>2. ClientInv'
  BY DEF ClientInv, ChartsUnknown, RegistriesAgree, IsRegistered, KeysOf, Subscribed,
     NoSendToDead
<1> QED BY <1>1, <1>2 DEF Inv, Typed, TaskInv, ClientInv, DueIsReceived

LEMMA OpenInv == ASSUME Inv, OpenStream PROVE Inv'
<1>1. SubscribedSymbols \subseteq Symbols
  BY KeyAssumption DEF SubscribedSymbols, Subscribed
<1>2. stream' \in StreamTask /\ stream'.at = "open" /\ stream'.symbols = SubscribedSymbols
  BY <1>1 DEF OpenStream, Inv, Typed, StreamTask
<1> QED BY <1>2, TaskStep DEF OpenStream, Inv, Typed, StreamWhileRunning

LEMMA ErrorInv == ASSUME Inv, StreamError PROVE Inv'
<1>1. stream' \in StreamTask /\ stream'.at = "backoff"
  BY DEF StreamError, NewTask, StreamTask
<1>2. /\ spent' \in [ticks : 0..MaxTicks, requests : 0..MaxRequests, failures : 0..MaxFailures]
      /\ spent'.ticks = spent.ticks
  BY BoundAssumption DEF StreamError, Inv, Typed
<1> QED BY <1>1, <1>2, TaskStep DEF StreamError, Inv, StreamWhileRunning

LEMMA ReconnectInv == ASSUME Inv, Reconnect PROVE Inv'
BY TaskTypes, TaskStep DEF Reconnect, Inv, Typed, StreamWhileRunning

LEMMA StartInv == ASSUME Inv, StartManager \/ StopManager PROVE Inv'
<1> USE Parts
<1>1. /\ stream' \in StreamTask /\ stream'.at \in {"none", "connect"}
      /\ stream'.at = "connect" => phase' = "running"
      /\ phase' \in {"new", "running", "stopped"}
      /\ UNCHANGED <<clients, registered, handler, builder, due, spent>>
  BY TaskTypes DEF StartManager, StopManager
<1>2. TaskInv'
  BY <1>1 DEF TaskInv, StreamWhileRunning, TickUnderWay, StreamCoversSubscriptions, NoTickTwice
<1>3. ClientInv'
  BY <1>1 DEF ClientInv, ChartsUnknown, RegistriesAgree, IsRegistered, KeysOf, Subscribed,
     NoSendToDead
<1> QED BY <1>1, <1>2, <1>3 DEF Inv, Typed, TaskInv, ClientInv, DueIsReceived

LEMMA SendInv == ASSUME Inv, NEW c \in Clients, SendTo(c) PROVE Inv'
<1>1. /\ stream.at = "send" /\ stream \in StreamTask
      /\ UNCHANGED <<phase, clients, registered, handler, builder, due, spent>>
      /\ spent \in [ticks : 0..MaxTicks, requests : 0..MaxRequests, failures : 0..MaxFailures]
      /\ SubscribedSymbols \subseteq stream.symbols /\ phase = "running"
  BY DEF SendTo, Inv, Typed, StreamCoversSubscriptions, StreamWhileRunning
<1>2. /\ stream' \in StreamTask /\ stream'.at = "send" /\ stream'.symbols = stream.symbols
      /\ stream'.symbol = stream.symbol /\ stream'.todo = stream.todo
  <2>1. CASE stream' = [stream EXCEPT !.targets = @ \ {c}]
    BY <1>1, <2>1 DEF StreamTask
  <2>2. CASE stream' = [stream EXCEPT !.targets = @ \ {c}, !.failed = @ \cup {c}]
    BY <1>1, <2>2 DEF StreamTask
  <2> QED BY <2>1, <2>2 DEF SendTo
<1> QED BY <1>1, <1>2, TaskStep

(***************************************************************************)
(* Steps of the connections                                                *)
(***************************************************************************)

(* A handler moves on and spends, at most, a request.                      *)
Moves(c) ==
  /\ handler[c] # "done" /\ handler' \in [Clients -> {"new", "reply", "loop", "done"}]
  /\ \A d \in Clients \ {c} : handler'[d] = handler[d]
  /\ UNCHANGED <<phase, builder, due>>
  /\ spent' \in [ticks : 0..MaxTicks, requests : 0..MaxRequests, failures : 0..MaxFailures]
  /\ spent'.ticks = spent.ticks

LEMMA SubscribeInv ==
  ASSUME Inv, NEW c \in Clients, NEW k \in Keys, Moves(c), Subscribe(c, k), handler'[c] # "done"
  PROVE  Inv'
<1> USE Parts
<1>1. /\ clients' = [clients EXCEPT ![k] = IF @ = Absent THEN {c} ELSE @ \cup {c}]
      /\ registered' =
           [registered EXCEPT ![c] = IF @ = Absent THEN Absent ELSE @ \cup {SymbolOf[k]}]
      /\ clients \in [Keys -> (SUBSET Clients) \cup {Absent}]
      /\ registered \in [Clients -> (SUBSET Symbols) \cup {Absent}]
      /\ SymbolOf[k] \in Symbols /\ SymbolOf \in [Keys -> Symbols]
  BY KeyAssumption DEF Subscribe, ClientInv
<1>2. /\ clients' \in [Keys -> (SUBSET Clients) \cup {Absent}]
      /\ clients'[k] # Absent /\ c \in clients'[k]
      /\ \A j \in Keys : clients[j] # Absent => clients'[j] # Absent /\ clients[j] \subseteq clients'[j]
  BY <1>1, AbsentAssumption
<1>3. /\ registered' \in [Clients -> (SUBSET Symbols) \cup {Absent}]
      /\ \A d \in Clients \ {c} : registered'[d] = registered[d]
      /\ registered[c] = Absent => registered'[c] = Absent
      /\ registered[c] # Absent => registered'[c] = registered[c] \cup {SymbolOf[k]}
  BY <1>1
<1>4. TaskInv'
  <2>1. CASE phase = "running"
    BY <2>1, TaskTypes DEF Moves, Subscribe, Restart, TaskInv, StreamWhileRunning, TickUnderWay,
                           StreamCoversSubscriptions, NoTickTwice
  <2>2. CASE phase # "running"
    BY <2>2 DEF Moves, Subscribe, Restart, TaskInv, StreamWhileRunning, TickUnderWay,
                StreamCoversSubscriptions, NoTickTwice, StreamTask
  <2> QED BY <2>1, <2>2
<1>5. ChartsUnknown'
  BY <1>3, ClientAssumption DEF ClientInv, ChartsUnknown
<1>6. NoSendToDead'
  BY <1>3 DEF Moves, ClientInv, NoSendToDead
<1>7. RegistriesAgree'
  <2> SUFFICES ASSUME NEW d \in Clients, NEW s \in Symbols, IsRegistered(d, s)'
               PROVE  \E j \in KeysOf(s)' : d \in clients'[j]
    BY DEF RegistriesAgree
  <2>1. CASE IsRegistered(d, s)
    <3>1. PICK j \in KeysOf(s) : d \in clients[j]
      BY <2>1 DEF ClientInv, RegistriesAgree
    <3> QED BY <1>2, <3>1 DEF KeysOf, Subscribed
  <2>2. CASE d = c /\ s = SymbolOf[k]
    BY <1>2, <2>2 DEF KeysOf, Subscribed
  <2> QED BY <1>3, <2>1, <2>2 DEF IsRegistered
<1>8. ClientInv'
  BY <1>2, <1>3, <1>5, <1>6, <1>7 DEF Moves, ClientInv
<1> QED BY <1>4, <1>8 DEF Moves, Inv, Typed, TaskInv, ClientInv, DueIsReceived

(* A client leaves a key, or is no longer registered at all.               *)
LEMMA LeaveInv ==
  ASSUME Inv, NEW c \in Clients, Moves(c), UNCHANGED stream,
         handler'[c] = "done" => registered'[c] = Absent,
         registered' \in [Clients -> (SUBSET Symbols) \cup {Absent}],
         \A d \in Clients \ {c} : registered'[d] = registered[d],
         c \in Charts => registered'[c] = Absent,
         clients' \in [Keys -> (SUBSET Clients) \cup {Absent}],
         Subscribed' = Subscribed,
         \A k \in Keys, d \in Clients \ {c} : d \in clients[k] => d \in clients'[k] \/ clients[k] = Absent,
         \A s \in Symbols : IsRegistered(c, s)' => \E k \in KeysOf(s) : c \in clients'[k]
  PROVE  Inv'
<1> USE Parts
<1>1. TaskInv'
  BY DEF Moves, TaskInv, StreamWhileRunning, TickUnderWay, StreamCoversSubscriptions,
         SubscribedSymbols, NoTickTwice
<1>2. \A s \in Symbols : KeysOf(s)' = KeysOf(s)
  BY DEF KeysOf
<1>3. RegistriesAgree'
  <2> SUFFICES ASSUME NEW d \in Clients, NEW s \in Symbols, IsRegistered(d, s)'
               PROVE  \E j \in KeysOf(s)' : d \in clients'[j]
    BY DEF RegistriesAgree
  <2>1. CASE d = c
    BY <1>2, <2>1
  <2>2. CASE d # c
    <3>1. IsRegistered(d, s)
      BY <2>2 DEF IsRegistered
    <3>2. PICK j \in KeysOf(s) : d \in clients[j]
      BY <3>1 DEF ClientInv, RegistriesAgree
    <3> QED BY <1>2, <2>2, <3>2 DEF KeysOf, Subscribed
  <2> QED BY <2>1, <2>2
<1>4. ChartsUnknown' /\ NoSendToDead'
  BY ClientAssumption DEF Moves, ClientInv, ChartsUnknown, NoSendToDead
<1>5. ClientInv'
  BY <1>3, <1>4 DEF Moves, ClientInv
<1> QED BY <1>1, <1>5 DEF Moves, Inv, Typed, TaskInv, ClientInv, DueIsReceived

LEMMA UnsubscribeInv ==
  ASSUME Inv, NEW c \in Clients, NEW k \in Keys, Moves(c), Unsubscribe(c, k),
         handler'[c] = "done" => c \in Charts
  PROVE  Inv'
<1>1. /\ clients' = [clients EXCEPT ![k] = IF @ = Absent THEN Absent ELSE @ \ {c}]
      /\ registered' = [registered EXCEPT ![c] = IF @ = Absent \/ clients[k] = Absent THEN @
                                                ELSE @ \ {SymbolOf[k]}]
      /\ UNCHANGED stream
      /\ clients \in [Keys -> (SUBSET Clients) \cup {Absent}]
      /\ registered \in [Clients -> (SUBSET Symbols) \cup {Absent}]
  BY DEF Unsubscribe, Inv, Typed
<1>2. /\ clients' \in [Keys -> (SUBSET Clients) \cup {Absent}]
      /\ \A j \in Keys : clients'[j] = Absent <=> clients[j] = Absent
      /\ \A j \in Keys \ {k} : clients'[j] = clients[j]
      /\ clients[k] # Absent => clients'[k] = clients[k] \ {c}
      /\ clients[k] = Absent => clients'[k] = Absent
  BY <1>1, AbsentAssumption
<1>3. Subscribed' = Subscribed
  BY <1>2 DEF Subscribed
<1>4. /\ registered' \in [Clients -> (SUBSET Symbols) \cup {Absent}]
      /\ \A d \in Clients \ {c} : registered'[d] = registered[d]
      /\ registered[c] = Absent => registered'[c] = Absent
  BY <1>1
<1>5. c \in Charts => registered'[c] = Absent
  BY <1>4 DEF Inv, ChartsUnknown
<1>6. ASSUME NEW s \in Symbols, IsRegistered(c, s)'
      PROVE  \E j \in KeysOf(s) : c \in clients'[j]
  <2>1. registered[c] # Absent /\ registered'[c] # Absent /\ s \in registered'[c]
    BY <1>4, <1>6 DEF IsRegistered
  <2>2. s \in registered[c] /\ (clients[k] # Absent => s # SymbolOf[k])
    BY <1>1, <2>1
  <2>3. PICK j \in KeysOf(s) : c \in clients[j]
    BY <2>1, <2>2 DEF IsRegistered, Inv, RegistriesAgree
  <2>4. j # k
    BY <2>2, <2>3 DEF KeysOf, Subscribed
  <2> QED BY <1>2, <2>3, <2>4 DEF KeysOf, Subscribed
<1>7. \A j \in Keys, d \in Clients \ {c} : d \in clients[j] => d \in clients'[j] \/ clients[j] = Absent
  BY <1>2
<1> QED BY <1>1, <1>2, <1>3, <1>4, <1>5, <1>6, <1>7, LeaveInv

(* A connection is registered without symbols, or disconnected.            *)
LEMMA RegisterInv ==
  ASSUME Inv, NEW c \in Clients, c \notin Charts, Moves(c), UNCHANGED <<clients, stream>>,
         \/ handler'[c] # "done" /\ registered' = [registered EXCEPT ![c] = {}]
         \/ registered' = [registered EXCEPT ![c] = Absent]
  PROVE  Inv'
<1>1. /\ registered' \in [Clients -> (SUBSET Symbols) \cup {Absent}]
      /\ \A d \in Clients \ {c} : registered'[d] = registered[d]
      /\ registered'[c] \in {{}, Absent}
      /\ handler'[c] = "done" => registered'[c] = Absent
  BY DEF Inv, Typed
<1>2. \A s \in Symbols : ~IsRegistered(c, s)'
  BY <1>1 DEF IsRegistered
<1>3. Subscribed' = Subscribed /\ clients' \in [Keys -> (SUBSET Clients) \cup {Absent}]
  BY DEF Subscribed, Inv, Typed
<1> QED BY <1>1, <1>2, <1>3, LeaveInv

LEMMA ConnectionInv ==
  ASSUME Inv, NEW c \in Clients,
         \/ Connect(c) \/ ConnectChart(c) \/ SendReply(c) \/ Close(c)
         \/ \E k \in Keys : ReceiveSubscribe(c, k) \/ ReceiveUnsubscribe(c, k)
  PROVE  Inv'
<1>1. Minute \in [Symbols -> Keys] /\ (c \in Charts => Minute[Instrument[c]] \in Keys)
  BY KeyAssumption, ClientAssumption
<1>2. handler \in [Clients -> {"new", "reply", "loop", "done"}]
      /\ spent \in [ticks : 0..MaxTicks, requests : 0..MaxRequests, failures : 0..MaxFailures]
  BY DEF Inv, Typed
<1>3. CASE Connect(c)
  <2>1. Moves(c) /\ handler'[c] # "done"
    BY <1>2, <1>3 DEF Connect, Moves
  <2> QED BY <1>3, <2>1, RegisterInv DEF Connect
<1>4. CASE ConnectChart(c)
  <2>1. Moves(c) /\ handler'[c] # "done"
    BY <1>2, <1>4 DEF ConnectChart, Moves
  <2> QED BY <1>1, <1>4, <2>1, SubscribeInv DEF ConnectChart
<1>5. CASE SendReply(c)
  <2>1. handler' \in [Clients -> {"new", "reply", "loop", "done"}]
        /\ \A d \in Clients : handler'[d] = "done" => handler[d] = "done"
    BY <1>2, <1>5 DEF SendReply
  <2> QED BY <1>5, <2>1
          DEF SendReply, Inv, Typed, StreamWhileRunning, TickUnderWay, ChartsUnknown, DueIsReceived,
              StreamCoversSubscriptions, SubscribedSymbols, RegistriesAgree, IsRegistered, KeysOf,
              Subscribed, NoSendToDead, NoTickTwice
<1>6. CASE Close(c)
  <2>1. Moves(c) /\ handler'[c] = "done"
    BY <1>2, <1>6 DEF Close, Moves
  <2>2. CASE c \in Charts
    BY <1>1, <1>6, <2>1, <2>2, UnsubscribeInv DEF Close
  <2>3. CASE c \notin Charts
    BY <1>6, <2>1, <2>3, RegisterInv DEF Close
  <2> QED BY <2>2, <2>3
<1>7. ASSUME NEW k \in Keys, Receives(c), UNCHANGED <<phase, builder, due>>
      PROVE  Moves(c) /\ handler'[c] # "done"
  <2>1. spent' \in [ticks : 0..MaxTicks, requests : 0..MaxRequests, failures : 0..MaxFailures]
        /\ spent'.ticks = spent.ticks
    BY <1>2, <1>7, BoundAssumption DEF Receives
  <2> QED BY <1>2, <1>7, <2>1 DEF Receives, Moves
<1>8. ASSUME NEW k \in Keys, ReceiveSubscribe(c, k) PROVE Inv'
  BY <1>7, <1>8, SubscribeInv DEF ReceiveSubscribe
<1>9. ASSUME NEW k \in Keys, ReceiveUnsubscribe(c, k) PROVE Inv'
  BY <1>7, <1>9, UnsubscribeInv DEF ReceiveUnsubscribe
<1> QED BY <1>3, <1>4, <1>5, <1>6, <1>8, <1>9

LEMMA NextInv == Inv /\ [StreamNext]_streamVars => Inv'
<1> SUFFICES ASSUME Inv, [StreamNext]_streamVars PROVE Inv'
  OBVIOUS
<1>1. CASE UNCHANGED streamVars
  BY <1>1 DEF streamVars, Inv, Typed, StreamWhileRunning, TickUnderWay, ChartsUnknown, DueIsReceived,
              StreamCoversSubscriptions, SubscribedSymbols, RegistriesAgree, IsRegistered, KeysOf,
              Subscribed, NoSendToDead, NoTickTwice
<1> QED BY <1>1, StartInv, ConnectionInv, TickInv, OpenInv, ReconnectInv, SendInv, FinishInv,
           ErrorInv
        DEF StreamNext, StreamStep

LEMMA Inductive == StreamSpec => []Inv
BY InitInv, NextInv, PTL DEF StreamSpec

(***************************************************************************)
(* The theorems                                                            *)
(***************************************************************************)

(* Every reachable state is well typed (StreamService.StreamTypeOK); no builder  *)
(* counts more ticks than were received.                                   *)
THEOREM StreamTypeCorrect == StreamSpec => []StreamTypeOK
<1>1. Inv => StreamTypeOK
  <2> SUFFICES ASSUME Inv PROVE StreamTypeOK
    OBVIOUS
  <2>1. ASSUME NEW k \in Keys PROVE builder[k] \in 0..MaxTicks /\ due[k] \in 0..MaxTicks
    <3>1. /\ builder[k] \in Nat /\ due[k] \in Nat /\ spent.ticks \in 0..MaxTicks /\ MaxTicks \in Nat
          /\ builder[k] <= due[k] /\ due[k] <= spent.ticks
      BY BoundAssumption DEF Inv, Typed, DueIsReceived, NoTickTwice
    <3> QED BY <3>1
  <2>2. builder \in [Keys -> 0..MaxTicks] /\ due \in [Keys -> 0..MaxTicks]
    BY <2>1 DEF Inv, Typed
  <2> QED BY <2>2 DEF Inv, Typed, StreamTypeOK
<1> QED BY <1>1, Inductive, PTL

(* The open connection asks for every symbol that is subscribed to         *)
(* (_start_stream_task, _stream_loop).                                     *)
THEOREM StreamCovers == StreamSpec => []StreamCoversSubscriptions
<1>1. Inv => StreamCoversSubscriptions
  BY DEF Inv
<1> QED BY <1>1, Inductive, PTL

(* Who is registered for a symbol is a client of one of its subscriptions  *)
(* (subscribe_instrument, unsubscribe_instrument, broadcast).              *)
THEOREM RegistriesAlwaysAgree == StreamSpec => []RegistriesAgree
<1>1. Inv => RegistriesAgree
  BY DEF Inv
<1> QED BY <1>1, Inductive, PTL

(* A connection whose handler has ended gets no more broadcasts            *)
(* (handle_websocket, disconnect).                                         *)
THEOREM DeadAreForgotten == StreamSpec => []NoSendToDead
<1>1. Inv => NoSendToDead
  BY DEF Inv
<1> QED BY <1>1, Inductive, PTL

(* No builder takes a tick twice, whatever is cancelled where (_process_tick). *)
THEOREM TicksOnce == StreamSpec => []NoTickTwice
<1>1. Inv => NoTickTwice
  BY DEF Inv
<1> QED BY <1>1, Inductive, PTL

(***************************************************************************)
(* Live trades                                                             *)
(***************************************************************************)
(***************************************************************************)
(* Types                                                                   *)
(***************************************************************************)

LEMMA KeyInKeys == ASSUME NEW s \in Signals PROVE Key(s) \in TradeKeys
BY DEF TradeKeys

(* What a write leaves of the table is a table.                            *)
LEMMA WriteType ==
  ASSUME TypeOK, NEW k \in TradeKeys, NEW status \in Statuses, NEW price \in Prices \cup {None},
         Write(k, status, price)
  PROVE  /\ row' \in [TradeKeys -> Row \cup {None}]
         /\ torn' \subseteq TradeKeys
         /\ faults' \in 0..MaxFaults
<1>1. CASE Upsert(k, status, price) /\ UNCHANGED <<torn, faults>>
  <2> DEFINE old == IF row[k] = None THEN NewRow ELSE row[k]
  <2>1. old \in Row
    BY DEF TypeOK, NewRow, Row, Statuses
  <2>2. [old EXCEPT !.status = status, !.entry = IF price = None THEN @ ELSE price] \in Row
    BY <2>1 DEF Row
  <2> HIDE DEF old
  <2>3. row' = [row EXCEPT ![k] =
                  [old EXCEPT !.status = status, !.entry = IF price = None THEN @ ELSE price]]
    BY <1>1 DEF Upsert, old
  <2> QED BY <1>1, <2>2, <2>3 DEF TypeOK
<1>2. CASE ~(Upsert(k, status, price) /\ UNCHANGED <<torn, faults>>)
  BY <1>2, ExecutionBounds DEF Write, TypeOK
<1> QED BY <1>1, <1>2

LEMMA SettleType ==
  ASSUME TypeOK, NEW k \in TradeKeys, NEW status \in Statuses, Settle(k, status)
  PROVE  /\ row' \in [TradeKeys -> Row \cup {None}]
         /\ torn' \subseteq TradeKeys
         /\ faults' \in 0..MaxFaults
<1>1. CASE row[k] # None
  <2>0. row[k] \in Row
    BY <1>1 DEF TypeOK
  <2>1. [row[k] EXCEPT !.status = status] \in Row
    BY <2>0 DEF Row
  <2>2. [row EXCEPT ![k].status = status] = [row EXCEPT ![k] = [row[k] EXCEPT !.status = status]]
    BY DEF TypeOK
  <2>3. row' \in {row, [row EXCEPT ![k] = [row[k] EXCEPT !.status = status]]}
    BY <2>2 DEF Settle
  <2>4. row' \in [TradeKeys -> Row \cup {None}]
    BY <2>1, <2>3 DEF TypeOK
  <2>5. torn' \subseteq TradeKeys /\ faults' \in 0..MaxFaults
    BY ExecutionBounds DEF Settle, TypeOK
  <2> QED BY <2>4, <2>5
<1>2. CASE row[k] = None
  BY <1>2, ExecutionBounds DEF Settle, TypeOK
<1> QED BY <1>1, <1>2

(* What a run forgets at its end leaves its variables well typed.          *)
LEMMA ForgetType ==
  ASSUME TypeOK, NEW r \in Runs, Forget(r), pc' = [pc EXCEPT ![r] = "end"]
  PROVE  /\ todo' \in [Runs -> [Signals -> Nat]]
         /\ cur' \in [Runs -> Signals \cup {None}]
         /\ \A q \in Runs : cur'[q] # None <=> pc'[q] \in {"logged", "answered"}
         /\ success' \in [Runs -> BOOLEAN]
         /\ positions' \in [Runs -> SUBSET Signals]
         /\ fills' \in [Runs -> [Signals -> Nat]]
BY DEF TypeOK, Forget

LEMMA InitTypeOK == Init => TypeOK
BY ExecutionBounds, NoneIsNoSignal DEF Init, TypeOK, Mode

(* A row is taken up of a signal that has one.                             *)
LEMMA TakeType ==
  ASSUME TypeOK, NEW r \in Runs, NEW s \in Waiting(r), todo' = [todo EXCEPT ![r][s] = @ - 1]
  PROVE  /\ s \in Signals
         /\ todo[r][s] \in Nat /\ todo[r][s] > 0
         /\ todo' \in [Runs -> [Signals -> Nat]]
BY DEF TypeOK, Waiting

LEMMA NextTypeOK == TypeOK /\ [Next]_vars => TypeOK'
<1> SUFFICES ASSUME TypeOK, [Next]_vars PROVE TypeOK'
  OBVIOUS
<1> USE NoneIsNoSignal
<1>1. ASSUME NEW r \in Runs, StartRun(r) PROVE TypeOK'
  <2>1. PICK chosen \in [day.signals -> 0..MaxSignals] :
          todo' = [todo EXCEPT ![r] =
                     [s \in Signals |-> IF s \in day.signals THEN chosen[s] ELSE 0]]
    BY <1>1 DEF StartRun
  <2>2. [s \in Signals |-> IF s \in day.signals THEN chosen[s] ELSE 0] \in [Signals -> Nat]
    BY ExecutionBounds
  <2>3. todo' \in [Runs -> [Signals -> Nat]]
    BY <2>1, <2>2 DEF TypeOK
  <2> QED BY <1>1, <2>3 DEF StartRun, tableVars, TypeOK
<1>2. ASSUME NEW r \in Runs, SkipSignal(r) \/ VetoSignal(r) PROVE TypeOK'
  <2>1. PICK s \in Waiting(r) :
          todo' = [todo EXCEPT ![r][s] = @ - 1] /\ Write(Key(s), "SKIPPED", None)
    BY <1>2 DEF SkipSignal, VetoSignal
  <2>2. s \in Signals /\ todo' \in [Runs -> [Signals -> Nat]]
    BY <2>1, TakeType
  <2>3. row' \in [TradeKeys -> Row \cup {None}] /\ torn' \subseteq TradeKeys /\ faults' \in 0..MaxFaults
    BY <2>1, <2>2, KeyInKeys, WriteType DEF Statuses
  <2>4. UNCHANGED <<day, pc, mode, cur, success, positions, fills, audit, placed>>
    BY <1>2 DEF SkipSignal, VetoSignal
  <2> QED BY <2>2, <2>3, <2>4 DEF TypeOK
<1>3. ASSUME NEW r \in Runs, PreLog(r) PROVE TypeOK'
  <2>1. PICK s \in Waiting(r), price \in Prices :
          /\ todo' = [todo EXCEPT ![r][s] = @ - 1]
          /\ cur' = [cur EXCEPT ![r] = s]
          /\ Write(Key(s), "PENDING", price)
    BY <1>3 DEF PreLog
  <2>2. s \in Signals /\ todo' \in [Runs -> [Signals -> Nat]]
    BY <2>1, TakeType
  <2>3. row' \in [TradeKeys -> Row \cup {None}] /\ torn' \subseteq TradeKeys /\ faults' \in 0..MaxFaults
    BY <2>1, <2>2, KeyInKeys, WriteType DEF Statuses
  <2>4. /\ pc' = [pc EXCEPT ![r] = "logged"]
        /\ UNCHANGED <<day, mode, success, positions, fills, audit, placed>>
    BY <1>3 DEF PreLog
  <2> QED BY <2>1, <2>2, <2>3, <2>4 DEF TypeOK
<1>4. ASSUME NEW r \in Runs, SendOrder(r) PROVE TypeOK'
  <2>1. PICK answer \in Answers :
          /\ fills' = [fills EXCEPT ![r][cur[r]] = IF Filled(r, answer) THEN @ + 1 ELSE @]
          /\ placed' = IF mode[r].dry \/ Filled(r, answer)
                       THEN placed \cup {Key(cur[r])} ELSE placed
          /\ success' = [success EXCEPT ![r] = Success(mode[r].dry, answer)]
    BY <1>4 DEF SendOrder
  <2>2. cur[r] \in Signals /\ mode[r].dry \in BOOLEAN
    BY <1>4 DEF SendOrder, TypeOK, Mode
  <2>3. placed' \subseteq TradeKeys
    BY <2>1, <2>2, KeyInKeys DEF TypeOK
  <2>4. fills' \in [Runs -> [Signals -> Nat]]
    BY <2>1, <2>2 DEF TypeOK
  <2>5. success' \in [Runs -> BOOLEAN]
    BY <2>1, <2>2 DEF TypeOK, Success
  <2> QED BY <1>4, <2>3, <2>4, <2>5 DEF SendOrder, TypeOK
<1>5. ASSUME NEW r \in Runs, PostLog(r) PROVE TypeOK'
  <2>1. cur[r] \in Signals
    BY <1>5 DEF PostLog, TypeOK
  <2>2. row' \in [TradeKeys -> Row \cup {None}] /\ torn' \subseteq TradeKeys /\ faults' \in 0..MaxFaults
    BY <1>5, <2>1, KeyInKeys, SettleType DEF PostLog, Statuses
  <2> QED BY <1>5, <2>1, <2>2 DEF PostLog, TypeOK
<1>6. ASSUME NEW r \in Runs, EndRun(r) PROVE TypeOK'
  <2>1. pc' = [pc EXCEPT ![r] = "end"] /\ Forget(r) /\ UNCHANGED <<day, tableVars, mode, audit>>
    BY <1>6 DEF EndRun
  <2> QED BY <2>1, ForgetType DEF tableVars, TypeOK
<1>7. ASSUME NEW r \in Runs, Kill(r) PROVE TypeOK'
  <2>1. /\ pc' = [pc EXCEPT ![r] = "end"] /\ Forget(r)
        /\ UNCHANGED <<day, row, placed, mode, audit>>
    BY <1>7 DEF Kill
  <2>2. torn' \subseteq TradeKeys /\ faults' \in 0..MaxFaults
    BY <1>7, KeyInKeys, ExecutionBounds DEF Kill, TypeOK
  <2> QED BY <2>1, <2>2, ForgetType DEF TypeOK
<1>8. ASSUME NEW a \in Audits, SelectRows(a) PROVE TypeOK'
  <2>1. PICK until : audit' = [audit EXCEPT ![a] =
          [at   |-> "rows",
           rows |-> {[key |-> k, entry |-> row[k].entry] : k \in
                       {k \in TradeKeys : row[k] # None /\ k[1] <= until /\ row[k].outcome = None}}]]
    BY <1>8 DEF SelectRows
  <2>2. \A k \in TradeKeys : row[k] # None => row[k].entry \in Prices \cup {None}
    BY DEF TypeOK, Row
  <2>3. {[key |-> k, entry |-> row[k].entry] : k \in
           {k \in TradeKeys : row[k] # None /\ k[1] <= until /\ row[k].outcome = None}}
          \in SUBSET Judged
    BY <2>2 DEF Judged
  <2> QED BY <1>8, <2>1, <2>3 DEF SelectRows, tableVars, runVars, TypeOK
<1>9. ASSUME NEW a \in Audits, JudgeRow(a) PROVE TypeOK'
  <2>1. PICK j \in audit[a].rows, verdict \in {0, 1, None} :
          /\ audit' = [audit EXCEPT ![a].rows = @ \ {j}]
          /\ row' = IF verdict = None THEN row
                    ELSE [k \in TradeKeys |-> IF Hits(k, j) THEN [row[k] EXCEPT !.outcome = verdict]
                                         ELSE row[k]]
    BY <1>9 DEF JudgeRow
  <2>2. \A k \in TradeKeys : Hits(k, j) => [row[k] EXCEPT !.outcome = verdict] \in Row
    BY <2>1 DEF Hits, TypeOK, Row
  <2>3. row' \in [TradeKeys -> Row \cup {None}]
    BY <2>1, <2>2 DEF TypeOK
  <2> QED BY <1>9, <2>1, <2>3 DEF JudgeRow, runVars, TypeOK
<1>10. ASSUME NEW a \in Audits, AbortAudit(a) \/ EndAudit(a) PROVE TypeOK'
  <2>1. CASE AbortAudit(a)
    BY <2>1 DEF AbortAudit, tableVars, runVars, TypeOK
  <2>2. CASE EndAudit(a)
    BY <2>2 DEF EndAudit, tableVars, runVars, TypeOK
  <2> QED BY <1>10, <2>1, <2>2
<1>11. CASE UNCHANGED vars
  BY <1>11 DEF vars, tableVars, runVars, TypeOK
<1> QED BY <1>1, <1>2, <1>3, <1>4, <1>5, <1>6, <1>7, <1>8, <1>9, <1>10, <1>11
        DEF Next, RunStep, AuditStep

(* Every reachable state is well typed, for any signals, runs and audits   *)
(* (the table fact_live_trades and the variables of run and auditor).      *)
THEOREM TypeCorrect == Spec => []TypeOK
BY InitTypeOK, NextTypeOK, PTL DEF Spec

(***************************************************************************)
(* Orders                                                                  *)
(***************************************************************************)

(* Every row of a signal its run has loaded is still to be taken up, at the*)
(* order, or behind one that was filled at most once.                      *)
AtOrder(r, s) == IF pc[r] = "logged" /\ cur[r] = s THEN 1 ELSE 0

RowsCounted ==
  \A r \in Runs, s \in Signals :
    /\ pc[r] = "new" => fills[r][s] = 0
    /\ fills[r][s] + todo[r][s] + AtOrder(r, s) <= JoinRows(s)

SentInv == TypeOK /\ RowsCounted

LEMMA JoinRowsType == ASSUME TypeOK, NEW s \in Signals PROVE JoinRows(s) \in Nat /\ JoinRows(s) >= 1
<1>1. day.outcomes \in [Signals -> Nat]
  BY DayAssumption DEF TypeOK
<1> QED BY <1>1 DEF JoinRows

LEMMA SentInitial == Init => SentInv
<1> SUFFICES ASSUME Init, NEW r \in Runs, NEW s \in Signals
             PROVE  fills[r][s] = 0 /\ fills[r][s] + todo[r][s] + AtOrder(r, s) <= JoinRows(s)
  BY InitTypeOK DEF SentInv, RowsCounted
<1>1. JoinRows(s) \in Nat
  BY InitTypeOK, JoinRowsType
<1>2. fills[r][s] = 0 /\ todo[r][s] = 0 /\ AtOrder(r, s) = 0
  BY DEF Init, AtOrder
<1> QED BY <1>1, <1>2

(* Taking up a row leaves the others where they are.                       *)
LEMMA TakenCounted ==
  ASSUME SentInv, NEW r \in Runs, NEW s \in Waiting(r), todo' = [todo EXCEPT ![r][s] = @ - 1],
         UNCHANGED <<day, fills>>, pc[r] = "next", \A q \in Runs \ {r} : pc'[q] = pc[q],
         \A q \in Runs \ {r} : cur'[q] = cur[q],
         pc'[r] = "next" \/ (pc'[r] = "logged" /\ cur'[r] = s)
  PROVE  RowsCounted'
<1> SUFFICES ASSUME NEW q \in Runs, NEW t \in Signals
             PROVE  /\ pc'[q] = "new" => fills'[q][t] = 0
                    /\ fills'[q][t] + todo'[q][t] + AtOrder(q, t)' <= JoinRows(t)'
  BY DEF RowsCounted
<1>1. /\ pc[q] = "new" => fills[q][t] = 0
      /\ fills[q][t] + todo[q][t] + AtOrder(q, t) <= JoinRows(t)
      /\ fills[q][t] \in Nat /\ todo[q][t] \in Nat /\ JoinRows(t) \in Nat
      /\ s \in Signals /\ todo[r][s] \in Nat /\ todo[r][s] > 0
  <2>1. TypeOK /\ RowsCounted
    BY DEF SentInv
  <2>2. s \in Signals /\ todo[r][s] \in Nat /\ todo[r][s] > 0
    BY <2>1, TakeType
  <2>3. JoinRows(t) \in Nat
    BY <2>1, JoinRowsType
  <2>4. fills[q][t] \in Nat /\ todo[q][t] \in Nat
    BY <2>1 DEF TypeOK
  <2> QED BY <2>1, <2>2, <2>3, <2>4 DEF RowsCounted
<1>2. fills'[q][t] = fills[q][t] /\ JoinRows(t)' = JoinRows(t)
  BY DEF JoinRows
<1>3. CASE q # r
  <2>1. pc'[q] = pc[q] /\ cur'[q] = cur[q]
    BY <1>3
  <2>2. todo'[q][t] = todo[q][t] /\ AtOrder(q, t)' = AtOrder(q, t)
    BY <1>3, <2>1 DEF AtOrder, SentInv, TypeOK
  <2> QED BY <1>1, <1>2, <2>1, <2>2
<1>4. CASE q = r /\ t # s
  <2>1. todo'[q][t] = todo[q][t] /\ AtOrder(q, t)' = 0 /\ AtOrder(q, t) = 0 /\ pc'[q] # "new"
    BY <1>4 DEF AtOrder, SentInv, TypeOK
  <2> QED BY <1>1, <1>2, <2>1
<1>5. CASE q = r /\ t = s
  <2>1. todo'[q][t] = todo[q][t] - 1 /\ AtOrder(q, t)' \in {0, 1} /\ AtOrder(q, t) = 0
        /\ pc'[q] # "new"
    BY <1>5 DEF AtOrder, SentInv, TypeOK
  <2> QED BY <1>1, <1>2, <2>1
<1> QED BY <1>3, <1>4, <1>5

LEMMA SentStep == SentInv /\ [Next]_vars => SentInv'
<1> SUFFICES ASSUME SentInv, [Next]_vars PROVE RowsCounted'
  BY NextTypeOK DEF SentInv
<1> USE NoneIsNoSignal
<1>1. ASSUME NEW r \in Runs, StartRun(r) PROVE RowsCounted'
  <2>1. PICK chosen \in [day.signals -> 0..MaxSignals] :
          /\ Loads(chosen)
          /\ todo' = [todo EXCEPT ![r] =
                        [s \in Signals |-> IF s \in day.signals THEN chosen[s] ELSE 0]]
    BY <1>1 DEF StartRun
  <2>2. /\ pc[r] = "new" /\ pc' = [pc EXCEPT ![r] = "next"]
        /\ UNCHANGED <<day, fills, cur>>
    BY <1>1 DEF StartRun
  <2> SUFFICES ASSUME NEW q \in Runs, NEW s \in Signals
               PROVE  /\ pc'[q] = "new" => fills'[q][s] = 0
                      /\ fills'[q][s] + todo'[q][s] + AtOrder(q, s)' <= JoinRows(s)'
    BY DEF RowsCounted
  <2>3. JoinRows(s) \in Nat /\ JoinRows(s)' = JoinRows(s) /\ fills[q][s] \in Nat
    BY <2>2, JoinRowsType DEF JoinRows, SentInv, TypeOK
  <2>4. CASE q = r
    <3>1. todo'[r][s] = IF s \in day.signals THEN chosen[s] ELSE 0
      BY <2>1 DEF SentInv, TypeOK
    <3>2. s \in day.signals => chosen[s] \in Nat /\ chosen[s] <= JoinRows(s)
      <4> HAVE s \in day.signals
      <4>1. chosen[s] \in Nat
        BY ExecutionBounds
      <4>2. chosen[s] <= JoinRows(s) \/ chosen[s] <= 0
        BY <2>1 DEF Loads
      <4> QED BY <2>3, <4>1, <4>2
    <3>3. fills'[q][s] = 0 /\ AtOrder(q, s)' = 0
      BY <2>2, <2>4 DEF SentInv, TypeOK, RowsCounted, AtOrder
    <3> QED BY <2>3, <2>4, <3>1, <3>2, <3>3
  <2>5. CASE q # r
    <3>1. /\ todo'[q][s] = todo[q][s] /\ fills'[q][s] = fills[q][s] /\ pc'[q] = pc[q]
          /\ AtOrder(q, s)' = AtOrder(q, s)
      BY <2>1, <2>2, <2>5 DEF SentInv, TypeOK, AtOrder
    <3> QED BY <2>3, <3>1 DEF SentInv, RowsCounted
  <2> QED BY <2>4, <2>5
<1>2. ASSUME NEW r \in Runs, SkipSignal(r) \/ VetoSignal(r) PROVE RowsCounted'
  <2>1. /\ \E s \in Waiting(r) : todo' = [todo EXCEPT ![r][s] = @ - 1]
        /\ pc[r] = "next"
        /\ UNCHANGED <<day, pc, cur, fills>>
    BY <1>2 DEF SkipSignal, VetoSignal
  <2> QED BY <2>1, TakenCounted
<1>3. ASSUME NEW r \in Runs, PreLog(r) PROVE RowsCounted'
  <2>1. /\ \E s \in Waiting(r) :
             todo' = [todo EXCEPT ![r][s] = @ - 1] /\ cur' = [cur EXCEPT ![r] = s]
        /\ pc[r] = "next"
        /\ pc' = [pc EXCEPT ![r] = "logged"]
        /\ UNCHANGED <<day, fills>>
    BY <1>3 DEF PreLog
  <2>2. PICK s \in Waiting(r) :
          todo' = [todo EXCEPT ![r][s] = @ - 1] /\ cur' = [cur EXCEPT ![r] = s]
    BY <2>1
  <2>3. /\ \A q \in Runs \ {r} : pc'[q] = pc[q] /\ cur'[q] = cur[q]
        /\ pc'[r] = "logged" /\ cur'[r] = s
    BY <2>1, <2>2 DEF SentInv, TypeOK
  <2> QED BY <2>1, <2>2, <2>3, TakenCounted
<1>4. ASSUME NEW r \in Runs, SendOrder(r) PROVE RowsCounted'
  <2>1. /\ cur[r] \in Signals
        /\ pc[r] = "logged"
        /\ pc' = [pc EXCEPT ![r] = "answered"]
        /\ UNCHANGED <<day, todo, cur>>
    BY <1>4 DEF SendOrder, SentInv, TypeOK
  <2>2. PICK answer \in Answers :
          fills' = [fills EXCEPT ![r][cur[r]] = IF Filled(r, answer) THEN @ + 1 ELSE @]
    BY <1>4 DEF SendOrder
  <2> SUFFICES ASSUME NEW q \in Runs, NEW s \in Signals
               PROVE  /\ pc'[q] = "new" => fills'[q][s] = 0
                      /\ fills'[q][s] + todo'[q][s] + AtOrder(q, s)' <= JoinRows(s)'
    BY DEF RowsCounted
  <2>3. /\ pc[q] = "new" => fills[q][s] = 0
        /\ fills[q][s] + todo[q][s] + AtOrder(q, s) <= JoinRows(s)
        /\ fills[q][s] \in Nat /\ todo[q][s] \in Nat /\ JoinRows(s) \in Nat
        /\ JoinRows(s)' = JoinRows(s) /\ todo'[q][s] = todo[q][s]
    BY <2>1, JoinRowsType DEF SentInv, RowsCounted, TypeOK, JoinRows
  <2>4. CASE q = r /\ s = cur[r]
    <3>1. fills'[q][s] \in {fills[q][s], fills[q][s] + 1} /\ pc'[q] = "answered"
      BY <2>1, <2>2, <2>4 DEF SentInv, TypeOK
    <3>2. AtOrder(q, s) = 1 /\ AtOrder(q, s)' = 0
      BY <2>1, <2>4, <3>1 DEF AtOrder
    <3> QED BY <2>3, <3>1, <3>2
  <2>5. CASE ~(q = r /\ s = cur[r])
    <3>1. fills'[q][s] = fills[q][s] /\ AtOrder(q, s)' = AtOrder(q, s)
      BY <2>1, <2>2, <2>5 DEF SentInv, TypeOK, AtOrder
    <3>2. pc'[q] = "new" => pc[q] = "new"
      BY <2>1 DEF SentInv, TypeOK
    <3> QED BY <2>3, <3>1, <3>2
  <2> QED BY <2>4, <2>5
<1>5. ASSUME NEW r \in Runs, PostLog(r) PROVE RowsCounted'
  <2>1. /\ pc[r] = "answered" /\ pc' = [pc EXCEPT ![r] = "next"]
        /\ UNCHANGED <<day, todo, fills>>
        /\ \A q \in Runs \ {r} : cur'[q] = cur[q]
    BY <1>5 DEF PostLog, SentInv, TypeOK
  <2>2. \A q \in Runs, s \in Signals :
          AtOrder(q, s)' = AtOrder(q, s) /\ JoinRows(s)' = JoinRows(s)
            /\ (pc'[q] = "new" => pc[q] = "new")
    BY <2>1 DEF AtOrder, JoinRows, SentInv, TypeOK
  <2> QED BY <2>1, <2>2 DEF SentInv, RowsCounted
<1>6. ASSUME NEW r \in Runs, EndRun(r) \/ Kill(r) PROVE RowsCounted'
  <2>1. Forget(r) /\ pc' = [pc EXCEPT ![r] = "end"] /\ UNCHANGED day
    BY <1>6 DEF EndRun, Kill
  <2> SUFFICES ASSUME NEW q \in Runs, NEW s \in Signals
               PROVE  /\ pc'[q] = "new" => fills'[q][s] = 0
                      /\ fills'[q][s] + todo'[q][s] + AtOrder(q, s)' <= JoinRows(s)'
    BY DEF RowsCounted
  <2>2. JoinRows(s)' = JoinRows(s) /\ JoinRows(s) \in Nat
    BY <2>1, JoinRowsType DEF JoinRows, SentInv
  <2>3. CASE q = r
    <3>1. fills'[q][s] = 0 /\ todo'[q][s] = 0 /\ AtOrder(q, s)' = 0
      BY <2>1, <2>3 DEF Forget, AtOrder, SentInv, TypeOK
    <3> QED BY <2>2, <3>1
  <2>4. CASE q # r
    <3>1. /\ fills'[q][s] = fills[q][s] /\ todo'[q][s] = todo[q][s] /\ pc'[q] = pc[q]
          /\ AtOrder(q, s)' = AtOrder(q, s)
      BY <2>1, <2>4 DEF Forget, AtOrder, SentInv, TypeOK
    <3> QED BY <2>2, <3>1 DEF SentInv, RowsCounted
  <2> QED BY <2>3, <2>4
<1>7. ASSUME UNCHANGED <<day, runVars>> PROVE RowsCounted'
  <2>1. \A q \in Runs, s \in Signals :
          AtOrder(q, s)' = AtOrder(q, s) /\ JoinRows(s)' = JoinRows(s)
    BY <1>7 DEF AtOrder, JoinRows, runVars
  <2> QED BY <1>7, <2>1 DEF SentInv, RowsCounted, runVars
<1>8. ASSUME NEW a \in Audits, SelectRows(a) \/ AuditStep(a) PROVE RowsCounted'
  <2>1. UNCHANGED <<day, runVars>>
    BY <1>8 DEF SelectRows, AuditStep, JudgeRow, AbortAudit, EndAudit
  <2> QED BY <2>1, <1>7
<1>9. CASE UNCHANGED vars
  BY <1>7, <1>9 DEF vars
<1> QED BY <1>1, <1>2, <1>3, <1>4, <1>5, <1>6, <1>8, <1>9 DEF Next, RunStep

(* A run has a signal filled no more often than its query has rows of it,  *)
(* also if an answer was lost or a write failed: it never sends an order   *)
(* again (ExecutionPipeline.process_signal).                               *)
THEOREM NoSecondFill == Spec => []FilledOncePerRow
<1>1. SentInv => FilledOncePerRow
  <2> SUFFICES ASSUME SentInv, NEW r \in Runs, NEW s \in Signals
               PROVE  fills[r][s] <= JoinRows(s)
    BY DEF FilledOncePerRow
  <2>1. /\ fills[r][s] \in Nat /\ todo[r][s] \in Nat /\ JoinRows(s) \in Nat
        /\ AtOrder(r, s) \in {0, 1}
    BY JoinRowsType DEF SentInv, TypeOK, AtOrder
  <2>2. fills[r][s] + todo[r][s] + AtOrder(r, s) <= JoinRows(s)
    BY DEF SentInv, RowsCounted
  <2> QED BY <2>1, <2>2
<1> QED BY SentInitial, SentStep, <1>1, PTL DEF Spec

(***************************************************************************)
(* The status of a row                                                     *)
(***************************************************************************)

(* What a write makes of the rows: one of them gets a status, unless the   *)
(* write failed, and an outcome stays.                                     *)
LEMMA WriteEffect ==
  ASSUME TypeOK, NEW k \in TradeKeys, NEW status \in Statuses, NEW price \in Prices \cup {None},
         Write(k, status, price)
  PROVE  /\ \A l \in TradeKeys \ {k} : row'[l] = row[l]
         /\ \/ row' = row /\ torn' = torn \cup {k}
            \/ row'[k].status = status /\ torn' = torn
         /\ row[k] # None => row'[k].outcome = row[k].outcome
<1>1. CASE Upsert(k, status, price) /\ UNCHANGED <<torn, faults>>
  <2> DEFINE old == IF row[k] = None THEN NewRow ELSE row[k]
  <2>1. old \in Row
    BY DEF TypeOK, NewRow, Row, Statuses
  <2>2. row' = [row EXCEPT ![k] =
                  [old EXCEPT !.status = status, !.entry = IF price = None THEN @ ELSE price]]
    BY <1>1 DEF Upsert
  <2>3. row[k] # None => old = row[k]
    OBVIOUS
  <2> HIDE DEF old
  <2> QED BY <1>1, <2>1, <2>2, <2>3 DEF TypeOK, Row
<1>2. CASE ~(Upsert(k, status, price) /\ UNCHANGED <<torn, faults>>)
  BY <1>2 DEF Write
<1> QED BY <1>1, <1>2

(* A row settled is not PENDING any more.                                  *)
LEMMA SettleEffect ==
  ASSUME TypeOK, NEW k \in TradeKeys, NEW status \in Statuses \ {"PENDING"}, Settle(k, status)
  PROVE  /\ \A l \in TradeKeys \ {k} : row'[l] = row[l]
         /\ \/ row' = row /\ torn' = torn \cup {k}
            \/ /\ torn' = torn
               /\ row'[k] = row[k] \/ row'[k].status = status
               /\ row'[k] # None => row'[k].status # "PENDING"
         /\ row[k] # None => row'[k].outcome = row[k].outcome
<1>1. CASE row[k] # None /\ row[k].status = "PENDING"
  <2>1. row[k] \in Row
    BY <1>1 DEF TypeOK
  <2>2. [row EXCEPT ![k].status = status] = [row EXCEPT ![k] = [row[k] EXCEPT !.status = status]]
    BY DEF TypeOK
  <2> QED BY <1>1, <2>1, <2>2 DEF Settle, TypeOK, Row
<1>2. CASE ~(row[k] # None /\ row[k].status = "PENDING")
  BY <1>2 DEF Settle, TypeOK
<1> QED BY <1>1, <1>2

(* The audit leaves status and price of every row as they are.             *)
LEMMA AuditEffect ==
  ASSUME TypeOK, NEW a \in Audits, SelectRows(a) \/ AuditStep(a)
  PROVE  /\ \A k \in TradeKeys : row'[k] # None =>
               /\ row[k] # None
               /\ row'[k].status = row[k].status
               /\ row'[k].entry = row[k].entry
         /\ UNCHANGED <<placed, torn, faults, runVars>>
<1>1. CASE JudgeRow(a)
  <2>1. PICK j \in audit[a].rows, verdict \in {0, 1, None} :
          row' = IF verdict = None THEN row
                 ELSE [k \in TradeKeys |-> IF Hits(k, j) THEN [row[k] EXCEPT !.outcome = verdict]
                                      ELSE row[k]]
    BY <1>1 DEF JudgeRow
  <2>2. \A k \in TradeKeys : Hits(k, j) =>
          /\ row[k] # None
          /\ [row[k] EXCEPT !.outcome = verdict].status = row[k].status
          /\ [row[k] EXCEPT !.outcome = verdict].entry = row[k].entry
    BY DEF Hits, TypeOK, Row
  <2> QED BY <1>1, <2>1, <2>2 DEF JudgeRow
<1>2. CASE ~JudgeRow(a)
  BY <1>2 DEF SelectRows, AuditStep, AbortAudit, EndAudit, tableVars
<1> QED BY <1>1, <1>2

PendingInv == TypeOK /\ PendingIsExplained

LEMMA PendingStep == PendingInv /\ [Next]_vars => PendingInv'
<1> SUFFICES ASSUME PendingInv, [Next]_vars PROVE PendingIsExplained'
  BY NextTypeOK DEF PendingInv
<1> USE NoneIsNoSignal DEF PendingInv, PendingIsExplained
<1> DEFINE working(r, k) == pc[r] \in {"logged", "answered"} /\ Key(cur[r]) = k
<1>1. ASSUME NEW r \in Runs, StartRun(r) PROVE PendingIsExplained'
  BY <1>1 DEF StartRun, tableVars, TypeOK
<1>2. ASSUME NEW r \in Runs, SkipSignal(r) \/ VetoSignal(r) PROVE PendingIsExplained'
  <2>1. PICK s \in Waiting(r) : Write(Key(s), "SKIPPED", None)
    BY <1>2 DEF SkipSignal, VetoSignal
  <2>2. Key(s) \in TradeKeys
    BY KeyInKeys DEF Waiting
  <2>3. /\ \A l \in TradeKeys \ {Key(s)} : row'[l] = row[l]
        /\ \/ row' = row /\ torn' = torn \cup {Key(s)}
           \/ row'[Key(s)].status = "SKIPPED" /\ torn' = torn
    BY <2>1, <2>2, WriteEffect DEF Statuses
  <2>4. UNCHANGED <<pc, cur>>
    BY <1>2 DEF SkipSignal, VetoSignal
  <2> QED BY <2>3, <2>4
<1>3. ASSUME NEW r \in Runs, PreLog(r) PROVE PendingIsExplained'
  <2>1. PICK s \in Waiting(r), price \in Prices :
          cur' = [cur EXCEPT ![r] = s] /\ Write(Key(s), "PENDING", price)
    BY <1>3 DEF PreLog
  <2>2. Key(s) \in TradeKeys
    BY KeyInKeys DEF Waiting
  <2>3. /\ \A l \in TradeKeys \ {Key(s)} : row'[l] = row[l]
        /\ \/ row' = row /\ torn' = torn \cup {Key(s)}
           \/ row'[Key(s)].status = "PENDING" /\ torn' = torn
    BY <2>1, <2>2, WriteEffect DEF Statuses
  <2>4. pc[r] = "next" /\ pc' = [pc EXCEPT ![r] = "logged"]
    BY <1>3 DEF PreLog
  <2>5. pc'[r] = "logged" /\ Key(cur'[r]) = Key(s)
    BY <2>1, <2>4 DEF TypeOK
  <2>6. \A q \in Runs \ {r} : pc'[q] = pc[q] /\ cur'[q] = cur[q]
    BY <2>1, <2>4 DEF TypeOK
  <2> QED BY <2>3, <2>4, <2>5, <2>6
<1>4. ASSUME NEW r \in Runs, SendOrder(r) PROVE PendingIsExplained'
  BY <1>4 DEF SendOrder, TypeOK
<1>5. ASSUME NEW r \in Runs, PostLog(r) PROVE PendingIsExplained'
  <2> DEFINE k == Key(cur[r])
  <2>1. k \in TradeKeys
    BY <1>5, KeyInKeys DEF PostLog, TypeOK
  <2>2. PICK status \in Statuses \ {"PENDING"} : Settle(k, status)
    BY <1>5 DEF PostLog, Statuses
  <2> HIDE DEF k
  <2>3. /\ \A l \in TradeKeys \ {k} : row'[l] = row[l]
        /\ \/ row' = row /\ torn' = torn \cup {k}
           \/ torn' = torn /\ (row'[k] # None => row'[k].status # "PENDING")
    BY <2>1, <2>2, SettleEffect
  <2>4. \A q \in Runs \ {r} : pc'[q] = pc[q] /\ cur'[q] = cur[q]
    BY <1>5 DEF PostLog, TypeOK
  <2>5. \A l \in TradeKeys \ {k} : ~working(r, l)
    BY DEF k
  <2> QED BY <2>3, <2>4, <2>5
<1>6. ASSUME NEW r \in Runs, EndRun(r) PROVE PendingIsExplained'
  BY <1>6 DEF EndRun, Forget, tableVars, TypeOK
<1>7. ASSUME NEW r \in Runs, Kill(r) PROVE PendingIsExplained'
  <2>1. /\ row' = row
        /\ torn' = IF cur[r] = None THEN torn ELSE torn \cup {Key(cur[r])}
        /\ \A q \in Runs \ {r} : pc'[q] = pc[q] /\ cur'[q] = cur[q]
    BY <1>7 DEF Kill, Forget, TypeOK
  <2>2. \A k \in TradeKeys : working(r, k) => k \in torn'
    BY <2>1 DEF TypeOK
  <2> QED BY <2>1, <2>2
<1>8. ASSUME NEW a \in Audits, SelectRows(a) \/ AuditStep(a) PROVE PendingIsExplained'
  <2>1. /\ \A k \in TradeKeys : row'[k] # None => row[k] # None /\ row'[k].status = row[k].status
        /\ UNCHANGED <<torn, pc, cur>>
    BY <1>8, AuditEffect DEF runVars
  <2> QED BY <2>1
<1>9. CASE UNCHANGED vars
  BY <1>9 DEF vars, tableVars, runVars
<1> QED BY <1>1, <1>2, <1>3, <1>4, <1>5, <1>6, <1>7, <1>8, <1>9 DEF Next, RunStep

(* A row is left PENDING by a kill or a failed write only: whoever writes  *)
(* the row before an order settles it after (process_signal).              *)
THEOREM PendingExplained == Spec => []PendingIsExplained
<1>1. Init => PendingInv
  <2> SUFFICES ASSUME Init PROVE PendingIsExplained
    BY InitTypeOK DEF PendingInv
  <2> QED BY DEF Init, PendingIsExplained
<1>2. PendingInv => PendingIsExplained
  BY DEF PendingInv
<1> QED BY <1>1, <1>2, PendingStep, PTL DEF Spec

(* An answer that counts as success is one of an order that was placed.    *)
SuccessIsPlaced == \A r \in Runs : success[r] => cur[r] # None /\ Key(cur[r]) \in placed

ExecutedInv == TypeOK /\ SuccessIsPlaced /\ ExecutedIsReal

LEMMA ExecutedStep == ExecutedInv /\ [Next]_vars => ExecutedInv'
<1> SUFFICES ASSUME ExecutedInv, [Next]_vars PROVE SuccessIsPlaced' /\ ExecutedIsReal'
  BY NextTypeOK DEF ExecutedInv
<1> USE NoneIsNoSignal DEF ExecutedInv, SuccessIsPlaced, ExecutedIsReal
<1>1. ASSUME NEW r \in Runs, StartRun(r) PROVE SuccessIsPlaced' /\ ExecutedIsReal'
  BY <1>1 DEF StartRun, tableVars
<1>2. ASSUME NEW r \in Runs, SkipSignal(r) \/ VetoSignal(r)
      PROVE  SuccessIsPlaced' /\ ExecutedIsReal'
  <2>1. PICK s \in Waiting(r) : Write(Key(s), "SKIPPED", None)
    BY <1>2 DEF SkipSignal, VetoSignal
  <2>2. Key(s) \in TradeKeys
    BY KeyInKeys DEF Waiting
  <2>3. /\ \A l \in TradeKeys \ {Key(s)} : row'[l] = row[l]
        /\ row' = row \/ row'[Key(s)].status = "SKIPPED"
    BY <2>1, <2>2, WriteEffect DEF Statuses
  <2>4. UNCHANGED <<cur, success, placed>>
    BY <1>2 DEF SkipSignal, VetoSignal
  <2> QED BY <2>3, <2>4
<1>3. ASSUME NEW r \in Runs, PreLog(r) PROVE SuccessIsPlaced' /\ ExecutedIsReal'
  <2>1. PICK s \in Waiting(r), price \in Prices :
          cur' = [cur EXCEPT ![r] = s] /\ Write(Key(s), "PENDING", price)
    BY <1>3 DEF PreLog
  <2>2. Key(s) \in TradeKeys
    BY KeyInKeys DEF Waiting
  <2>3. /\ \A l \in TradeKeys \ {Key(s)} : row'[l] = row[l]
        /\ row' = row \/ row'[Key(s)].status = "PENDING"
    BY <2>1, <2>2, WriteEffect DEF Statuses
  <2>4. cur[r] = None /\ UNCHANGED <<success, placed>>
    BY <1>3 DEF PreLog, TypeOK
  <2>5. ~success[r] /\ \A q \in Runs \ {r} : cur'[q] = cur[q]
    BY <2>1, <2>4 DEF TypeOK
  <2> QED BY <2>3, <2>4, <2>5
<1>4. ASSUME NEW r \in Runs, SendOrder(r) PROVE SuccessIsPlaced' /\ ExecutedIsReal'
  <2>1. PICK answer \in Answers :
          /\ placed' = IF mode[r].dry \/ Filled(r, answer)
                       THEN placed \cup {Key(cur[r])} ELSE placed
          /\ success' = [success EXCEPT ![r] = Success(mode[r].dry, answer)]
    BY <1>4 DEF SendOrder
  <2>2. cur[r] # None /\ UNCHANGED <<cur, row>>
    BY <1>4 DEF SendOrder, TypeOK
  <2>3. success'[r] => Key(cur[r]) \in placed'
    BY <2>1 DEF Success, TypeOK
  <2>4. placed \subseteq placed' /\ \A q \in Runs \ {r} : success'[q] = success[q]
    BY <2>1 DEF TypeOK
  <2> QED BY <2>2, <2>3, <2>4
<1>5. ASSUME NEW r \in Runs, PostLog(r) PROVE SuccessIsPlaced' /\ ExecutedIsReal'
  <2> DEFINE k == Key(cur[r])
             status == IF success[r] THEN "EXECUTED" ELSE "FAILED"
  <2>1. k \in TradeKeys /\ status \in Statuses \ {"PENDING"}
    BY <1>5, KeyInKeys DEF PostLog, TypeOK, Statuses
  <2>2. Settle(k, status)
    BY <1>5 DEF PostLog
  <2>3. status = "EXECUTED" => k \in placed
    OBVIOUS
  <2> HIDE DEF k, status
  <2>4. /\ \A l \in TradeKeys \ {k} : row'[l] = row[l]
        /\ row' = row \/ row'[k] = row[k] \/ row'[k].status = status
    BY <2>1, <2>2, SettleEffect
  <2>5. /\ UNCHANGED placed
        /\ success'[r] = FALSE
        /\ \A q \in Runs \ {r} : success'[q] = success[q] /\ cur'[q] = cur[q]
    BY <1>5 DEF PostLog, TypeOK
  <2> QED BY <2>3, <2>4, <2>5
<1>6. ASSUME NEW r \in Runs, EndRun(r) \/ Kill(r) PROVE SuccessIsPlaced' /\ ExecutedIsReal'
  <2>1. /\ UNCHANGED <<row, placed>>
        /\ success'[r] = FALSE
        /\ \A q \in Runs \ {r} : success'[q] = success[q] /\ cur'[q] = cur[q]
    BY <1>6 DEF EndRun, Kill, Forget, tableVars, TypeOK
  <2> QED BY <2>1
<1>7. ASSUME NEW a \in Audits, SelectRows(a) \/ AuditStep(a)
      PROVE  SuccessIsPlaced' /\ ExecutedIsReal'
  <2>1. /\ \A k \in TradeKeys : row'[k] # None => row[k] # None /\ row'[k].status = row[k].status
        /\ UNCHANGED <<placed, success, cur>>
    BY <1>7, AuditEffect DEF runVars
  <2> QED BY <2>1
<1>8. CASE UNCHANGED vars
  BY <1>8 DEF vars, tableVars, runVars
<1> QED BY <1>1, <1>2, <1>3, <1>4, <1>5, <1>6, <1>7, <1>8 DEF Next, RunStep

(* A row says EXECUTED only of a key whose order was filled or simulated,  *)
(* whichever of the runs that share the key wrote it.                      *)
THEOREM ExecutedReal == Spec => []ExecutedIsReal
<1>1. Init => ExecutedInv
  <2> SUFFICES ASSUME Init PROVE SuccessIsPlaced /\ ExecutedIsReal
    BY InitTypeOK DEF ExecutedInv
  <2> QED BY DEF Init, SuccessIsPlaced, ExecutedIsReal
<1>2. ExecutedInv => ExecutedIsReal
  BY DEF ExecutedInv
<1> QED BY <1>1, <1>2, ExecutedStep, PTL DEF Spec

(***************************************************************************)
(* The outcome of a row                                                    *)
(***************************************************************************)

(* What a step changes of outcomes was judged for the row's entry price.   *)
Judges ==
  \A k \in TradeKeys :
    row[k] # None /\ row'[k].outcome # row[k].outcome =>
      \E a \in Audits : \E j \in audit[a].rows : j.entry = row'[k].entry

LEMMA JudgesStep == TypeOK /\ [Next]_vars => Judges
<1> SUFFICES ASSUME TypeOK, [Next]_vars,
                    NEW k \in TradeKeys, row[k] # None, row'[k].outcome # row[k].outcome
             PROVE  \E a \in Audits : \E j \in audit[a].rows : j.entry = row'[k].entry
  BY DEF Judges
<1>1. ASSUME NEW r \in Runs, SkipSignal(r) \/ VetoSignal(r) PROVE FALSE
  <2>1. PICK s \in Waiting(r) : Write(Key(s), "SKIPPED", None)
    BY <1>1 DEF SkipSignal, VetoSignal
  <2>2. Key(s) \in TradeKeys
    BY KeyInKeys DEF Waiting
  <2> QED BY <2>1, <2>2, WriteEffect DEF Statuses
<1>2. ASSUME NEW r \in Runs, PreLog(r) PROVE FALSE
  <2>1. PICK s \in Waiting(r), price \in Prices : Write(Key(s), "PENDING", price)
    BY <1>2 DEF PreLog
  <2>2. Key(s) \in TradeKeys
    BY KeyInKeys DEF Waiting
  <2> QED BY <2>1, <2>2, WriteEffect DEF Statuses
<1>3. ASSUME NEW r \in Runs, PostLog(r) PROVE FALSE
  <2>1. PICK status \in Statuses \ {"PENDING"} : Settle(Key(cur[r]), status)
    BY <1>3 DEF PostLog, Statuses
  <2>2. Key(cur[r]) \in TradeKeys
    BY <1>3, KeyInKeys DEF PostLog, TypeOK
  <2> QED BY <2>1, <2>2, SettleEffect
<1>4. ASSUME NEW a \in Audits, JudgeRow(a)
      PROVE  \E j \in audit[a].rows : j.entry = row'[k].entry
  <2>1. PICK j \in audit[a].rows, verdict \in {0, 1, None} :
          row' = IF verdict = None THEN row
                 ELSE [l \in TradeKeys |-> IF Hits(l, j) THEN [row[l] EXCEPT !.outcome = verdict]
                                      ELSE row[l]]
    BY <1>4 DEF JudgeRow
  <2>2. Hits(k, j) /\ row'[k] = [row[k] EXCEPT !.outcome = verdict]
    BY <2>1
  <2>3. row'[k].entry = row[k].entry
    BY <2>2 DEF TypeOK, Row
  <2> QED BY <2>2, <2>3 DEF Hits
<1>5. (\E r \in Runs : SkipSignal(r) \/ VetoSignal(r) \/ PreLog(r) \/ PostLog(r))
        \/ (\E a \in Audits : JudgeRow(a))
  BY DEF Next, RunStep, AuditStep, StartRun, SendOrder, EndRun, Kill, SelectRows, AbortAudit,
         EndAudit, vars, tableVars
<1> QED BY <1>1, <1>2, <1>3, <1>4, <1>5

(* The auditor gives an outcome to rows with the price it judged, also if  *)
(* runs rewrote the rows since it read them (trade_auditor.main).          *)
THEOREM OutcomesFit == Spec => OutcomeFitsPrice
<1>1. TypeOK /\ [Next]_vars => [Judges]_vars
  BY JudgesStep
<1>2. Spec => [][Judges]_vars
  BY InitTypeOK, NextTypeOK, <1>1, PTL DEF Spec
<1> QED BY <1>2 DEF OutcomeFitsPrice, Judges
=============================================================================
