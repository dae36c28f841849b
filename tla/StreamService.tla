---------------------------- MODULE StreamService ----------------------------
(***************************************************************************)
(* The live price service (src/layer5): OandaStreamManager with its        *)
(* subscriptions and candle builders, WebSocketConnectionManager, and the  *)
(* two WebSocket endpoints.                                                *)
(*                                                                         *)
(* Everything runs in one asyncio event loop, so a step of the model is    *)
(* what runs between two suspensions: subscribing and unsubscribing never  *)
(* suspend (what they await is uncontended), sending to a client does.     *)
(* A stream task that is cancelled is at a suspension and does nothing     *)
(* more.  A subscription key is a symbol and a granularity; prices are     *)
(* left out, a builder is the number of ticks it has taken.                *)
(***************************************************************************)
EXTENDS Naturals, FiniteSets

CONSTANTS Clients,      \* client ids; a connection has one of its own
          Charts,       \* those of the chart endpoint
          Keys,         \* subscription keys
          Symbols,
          SymbolOf,     \* SymbolOf[k]: the symbol of key k
          Minute,       \* Minute[s]: the M1 key of symbol s
          Instrument,   \* Instrument[c]: the symbol in chart client c's URL
          Absent,
          MaxTicks,     \* bound: ticks received
          MaxRequests,  \* bound: subscribe and unsubscribe messages
          MaxFailures   \* bound: failures of the upstream connection

ASSUME ClientAssumption ==
  /\ Charts \subseteq Clients
  /\ Instrument \in [Charts -> Symbols]
ASSUME KeyAssumption ==
  /\ SymbolOf \in [Keys -> Symbols]
  /\ Minute \in [Symbols -> Keys]
  /\ \A s \in Symbols : SymbolOf[Minute[s]] = s
ASSUME AbsentAssumption ==
  /\ \A S \in SUBSET Clients : S # Absent
  /\ \A S \in SUBSET Symbols : S # Absent
ASSUME BoundAssumption == {MaxTicks, MaxRequests, MaxFailures} \subseteq Nat

VARIABLES
  phase,      \* the manager: "new", "running" or "stopped"
  clients,    \* clients[k]: clients of subscription k, Absent without one
  registered, \* registered[c]: symbols broadcast to c, Absent if c is not
              \* an active connection
  handler,    \* handler[c]: where the handler of connection c is
  stream,     \* the stream task that has not been cancelled
  builder,    \* builder[k]: ticks the candle builder of k has taken
  due,        \* due[k]: ticks received for k (history)
  spent       \* spent.ticks, .requests, .failures: against the bounds

streamVars == <<phase, clients, registered, handler, stream, builder, due, spent>>

StreamTask ==
  [at      : {"none", "connect", "open", "send", "backoff"},
   symbols : SUBSET Symbols,            \* symbols of the open connection
   symbol  : Symbols \cup {Absent},       \* the tick being handled
   todo    : SUBSET Keys,               \* its keys not updated yet
   what    : {"candle", "tick"},        \* the broadcast under way
   targets : SUBSET Clients,            \* clients it has still to reach
   failed  : SUBSET Clients]

NewTask ==
  [at |-> "connect", symbols |-> {}, symbol |-> Absent, todo |-> {},
   what |-> "tick", targets |-> {}, failed |-> {}]
NoTask == [NewTask EXCEPT !.at = "none"]

StreamTypeOK ==
  /\ phase \in {"new", "running", "stopped"}
  /\ clients \in [Keys -> (SUBSET Clients) \cup {Absent}]
  /\ registered \in [Clients -> (SUBSET Symbols) \cup {Absent}]
  /\ handler \in [Clients -> {"new", "reply", "loop", "done"}]
  /\ stream \in StreamTask
  /\ builder \in [Keys -> 0..MaxTicks]
  /\ due \in [Keys -> 0..MaxTicks]
  /\ spent \in [ticks : 0..MaxTicks, requests : 0..MaxRequests, failures : 0..MaxFailures]

StreamInit ==
  /\ phase = "new"
  /\ clients = [k \in Keys |-> Absent]
  /\ registered = [c \in Clients |-> Absent]
  /\ handler = [c \in Clients |-> "new"]
  /\ stream = NoTask
  /\ builder = [k \in Keys |-> 0]
  /\ due = [k \in Keys |-> 0]
  /\ spent = [ticks |-> 0, requests |-> 0, failures |-> 0]

Subscribed == {k \in Keys : clients[k] # Absent}
SubscribedSymbols == {SymbolOf[k] : k \in Subscribed}
KeysOf(s) == {k \in Subscribed : SymbolOf[k] = s}
IsRegistered(c, s) == registered[c] # Absent /\ s \in registered[c]
Receivers(s) == {c \in Clients : IsRegistered(c, s)}

(***************************************************************************)
(* Manager                                                                 *)
(***************************************************************************)
StartManager ==
  /\ phase = "new"
  /\ phase' = "running"
  /\ stream' = IF Subscribed = {} THEN NoTask ELSE NewTask
  /\ UNCHANGED <<clients, registered, handler, builder, due, spent>>

(* Both tasks are cancelled; the current candles are closed.               *)
StopManager ==
  /\ phase = "running"
  /\ phase' = "stopped"
  /\ stream' = NoTask
  /\ UNCHANGED <<clients, registered, handler, builder, due, spent>>

(* Mutant: the running stream is left alone.                               *)
RestartNever == UNCHANGED stream

(* _start_stream_task, if running: the old task is cancelled where it is.  *)
Restart == IF phase = "running" THEN stream' = NewTask ELSE UNCHANGED stream

(* subscribe_instrument; a client the connection manager does not know is  *)
(* not registered for the symbol.                                          *)
Subscribe(c, k) ==
  /\ clients' = [clients EXCEPT ![k] = IF @ = Absent THEN {c} ELSE @ \cup {c}]
  /\ registered' =
       [registered EXCEPT ![c] = IF @ = Absent THEN Absent ELSE @ \cup {SymbolOf[k]}]
  /\ Restart

(* Mutant: the connection manager is not told.                             *)
UnsubscribeHubOnly(c, k) ==
  /\ clients' = [clients EXCEPT ![k] = IF @ = Absent THEN Absent ELSE @ \ {c}]
  /\ UNCHANGED <<registered, stream>>

(* unsubscribe_instrument with a client id, as all its callers have one:   *)
(* the subscription stays, also without clients.                           *)
Unsubscribe(c, k) ==
  /\ clients' = [clients EXCEPT ![k] = IF @ = Absent THEN Absent ELSE @ \ {c}]
  /\ registered' =
       [registered EXCEPT ![c] = IF @ = Absent \/ clients[k] = Absent THEN @
                                 ELSE @ \ {SymbolOf[k]}]
  /\ UNCHANGED stream

(***************************************************************************)
(* Connections                                                             *)
(***************************************************************************)

(* handle_websocket registers the connection and sends a welcome message.  *)
Connect(c) ==
  /\ handler[c] = "new"
  /\ c \notin Charts
  /\ registered' = [registered EXCEPT ![c] = {}]
  /\ handler' = [handler EXCEPT ![c] = "reply"]
  /\ UNCHANGED <<phase, clients, stream, builder, due, spent>>

(* oanda_chart_stream subscribes to the instrument of its URL.             *)
ConnectChart(c) ==
  /\ handler[c] = "new"
  /\ c \in Charts
  /\ Subscribe(c, Minute[Instrument[c]])
  /\ handler' = [handler EXCEPT ![c] = "reply"]
  /\ UNCHANGED <<phase, builder, due, spent>>

(* The reply is sent.                                                      *)
SendReply(c) ==
  /\ handler[c] = "reply"
  /\ handler' = [handler EXCEPT ![c] = "loop"]
  /\ UNCHANGED <<phase, clients, registered, stream, builder, due, spent>>

(* handle_websocket checks _running before it receives a message, the      *)
(* chart endpoint does not.                                                *)
Receives(c) ==
  /\ handler[c] = "loop"
  /\ c \in Charts \/ phase = "running"
  /\ spent.requests < MaxRequests
  /\ spent' = [spent EXCEPT !.requests = @ + 1]
  /\ handler' = [handler EXCEPT ![c] = "reply"]

ReceiveSubscribe(c, k) ==
  /\ Receives(c)
  /\ Subscribe(c, k)
  /\ UNCHANGED <<phase, builder, due>>

(* The chart endpoint unsubscribes from M1 whatever the message says.      *)
ReceiveUnsubscribe(c, k) ==
  /\ Receives(c)
  /\ c \in Charts => k = Minute[SymbolOf[k]]
  /\ Unsubscribe(c, k)
  /\ UNCHANGED <<phase, builder, due>>

(* Mutant: the connection stays registered.                                *)
CloseUnclean(c) ==
  /\ handler[c] \in {"reply", "loop"}
  /\ handler' = [handler EXCEPT ![c] = "done"]
  /\ UNCHANGED <<phase, clients, registered, stream, builder, due, spent>>

(* The client is gone, sends something invalid, or the manager has         *)
(* stopped.  handle_websocket disconnects and only then asks for the       *)
(* symbols to unsubscribe from: there are none left.  The chart endpoint   *)
(* unsubscribes from the instrument of its URL.                            *)
Close(c) ==
  /\ handler[c] \in {"reply", "loop"}
  /\ handler' = [handler EXCEPT ![c] = "done"]
  /\ IF c \in Charts
       THEN Unsubscribe(c, Minute[Instrument[c]])
       ELSE /\ registered' = [registered EXCEPT ![c] = Absent]
            /\ UNCHANGED <<clients, stream>>
  /\ UNCHANGED <<phase, builder, due, spent>>

(***************************************************************************)
(* The stream task                                                         *)
(***************************************************************************)
OpenStream ==
  /\ stream.at = "connect"
  /\ stream' = [stream EXCEPT !.at = "open", !.symbols = SubscribedSymbols]
  /\ UNCHANGED <<phase, clients, registered, handler, builder, due, spent>>

(* Mutant: an error ends the loop.                                         *)
StreamErrorFatal ==
  /\ stream.at \in {"connect", "open"}
  /\ spent.failures < MaxFailures
  /\ spent' = [spent EXCEPT !.failures = @ + 1]
  /\ stream' = NoTask
  /\ UNCHANGED <<phase, clients, registered, handler, builder, due>>

(* Connecting fails or the stream raises: sleep, then connect again.       *)
StreamError ==
  /\ stream.at \in {"connect", "open"}
  /\ spent.failures < MaxFailures
  /\ spent' = [spent EXCEPT !.failures = @ + 1]
  /\ stream' = [NewTask EXCEPT !.at = "backoff"]
  /\ UNCHANGED <<phase, clients, registered, handler, builder, due>>

Reconnect ==
  /\ stream.at = "backoff"
  /\ stream' = NewTask
  /\ UNCHANGED <<phase, clients, registered, handler, builder, due, spent>>

Broadcasting(what, s, todo) ==
  [stream EXCEPT !.at = "send", !.what = what, !.symbol = s, !.todo = todo,
                 !.targets = Receivers(s)]

Idle == [NewTask EXCEPT !.at = "open", !.symbols = stream.symbols]

(* Mutant: after a candle the loop starts over.                            *)
UpdateBuildersAgain(s, todo) ==
  /\ \/ stream' = IF Receivers(s) = {} THEN Idle ELSE Broadcasting("tick", s, {})
     \/ /\ Receivers(s) # {}
        /\ \E rest \in SUBSET KeysOf(s), k \in KeysOf(s) :
             /\ k \notin rest
             /\ builder[k] > 0
             /\ stream' = Broadcasting("candle", s, rest)
  /\ builder' = [k \in Keys |-> builder[k] + (IF k \in KeysOf(s) \ stream'.todo THEN 1 ELSE 0)]

(* The loop over the subscriptions, from the keys in todo on: it suspends  *)
(* only where a builder closes a candle and there is someone to send it    *)
(* to, and after the last builder for the tick itself.                     *)
UpdateBuilders(s, todo) ==
  /\ \/ /\ Receivers(s) = {}
        /\ stream' = Idle
     \/ /\ Receivers(s) # {}
        /\ stream' = Broadcasting("tick", s, {})
     \/ /\ Receivers(s) # {}
        /\ \E rest \in SUBSET todo, k \in todo :
             /\ k \notin rest
             /\ builder[k] > 0               \* the first tick opens a candle
             /\ stream' = Broadcasting("candle", s, rest)
  /\ builder' = [k \in Keys |-> builder[k] + (IF k \in todo \ stream'.todo THEN 1 ELSE 0)]

ReceiveTick(s) ==
  /\ stream.at = "open"
  /\ s \in stream.symbols
  /\ spent.ticks < MaxTicks
  /\ spent' = [spent EXCEPT !.ticks = @ + 1]
  /\ due' = [k \in Keys |-> due[k] + (IF k \in KeysOf(s) THEN 1 ELSE 0)]
  /\ UpdateBuilders(s, KeysOf(s))
  /\ UNCHANGED <<phase, clients, registered, handler>>

(* broadcast sends to one client after the other; a client that has        *)
(* unsubscribed meanwhile is passed over, one that has disconnected can    *)
(* only fail.                                                              *)
SendTo(c) ==
  /\ stream.at = "send"
  /\ c \in stream.targets
  /\ \/ stream' = [stream EXCEPT !.targets = @ \ {c}]
     \/ /\ registered[c] = Absent \/ IsRegistered(c, stream.symbol)
        /\ stream' = [stream EXCEPT !.targets = @ \ {c}, !.failed = @ \cup {c}]
  /\ UNCHANGED <<phase, clients, registered, handler, builder, due, spent>>

(* The clients that failed are disconnected, behind their handlers' backs; *)
(* then the loop over the subscriptions goes on, or the tick is done.      *)
FinishBroadcast ==
  /\ stream.at = "send"
  /\ stream.targets = {}
  /\ registered' = [c \in Clients |-> IF c \in stream.failed THEN Absent ELSE registered[c]]
  /\ IF stream.what = "tick"
       THEN stream' = Idle /\ UNCHANGED builder
       ELSE UpdateBuilders(stream.symbol, stream.todo)
  /\ UNCHANGED <<phase, clients, handler, due, spent>>

(***************************************************************************)
(* Specification                                                           *)
(***************************************************************************)
StreamStep ==
  \/ OpenStream
  \/ Reconnect
  \/ \E c \in Clients : SendTo(c)
  \/ FinishBroadcast

StreamNext ==
  \/ StartManager \/ StopManager
  \/ \E c \in Clients : Connect(c) \/ ConnectChart(c) \/ SendReply(c) \/ Close(c)
  \/ \E c \in Clients, k \in Keys : ReceiveSubscribe(c, k) \/ ReceiveUnsubscribe(c, k)
  \/ \E s \in Symbols : ReceiveTick(s)
  \/ StreamStep \/ StreamError

StreamSpec == StreamInit /\ [][StreamNext]_streamVars

(* The event loop runs the stream task, a send to a client returns or      *)
(* raises, the backoff sleep ends, and the upstream accepts after at most  *)
(* MaxFailures failures.                                                   *)
FairStreamSpec == StreamSpec /\ WF_streamVars(StreamStep)

(***************************************************************************)
(* Safety                                                                  *)
(***************************************************************************)

(* The open connection asks for every symbol somebody has subscribed to,   *)
(* whatever came between.                                                  *)
StreamCoversSubscriptions ==
  stream.at \in {"open", "send"} => SubscribedSymbols \subseteq stream.symbols

(* The two registries agree: a client that gets a symbol's broadcasts is a *)
(* client of one of its subscriptions.                                     *)
RegistriesAgree ==
  \A c \in Clients, s \in Symbols :
    IsRegistered(c, s) => \E k \in KeysOf(s) : c \in clients[k]

(* A connection whose handler has ended gets no more broadcasts.           *)
NoSendToDead == \A c \in Clients : handler[c] = "done" => registered[c] = Absent

(* No builder takes a tick twice, or one from before its subscription.     *)
NoTickTwice == \A k \in Keys : builder[k] <= due[k]

(***************************************************************************)
(* Liveness                                                                *)
(***************************************************************************)

(* While the manager runs, a symbol that is subscribed to is streamed in   *)
(* the end, through errors, restarts and clients that hang up.             *)
SubscribedIsStreamed ==
  \A k \in Keys :
    phase = "running" /\ k \in Subscribed
      ~> phase # "running" \/ (stream.at = "open" /\ SymbolOf[k] \in stream.symbols)

(***************************************************************************)
(* Said of the code, and not so: TLC refutes each of these (README.md).     *)
(***************************************************************************)

(* A tick updates all subscriptions of its symbol.                         *)
TickReachesAll == stream.at \in {"connect", "open"} => \A k \in Keys : builder[k] = due[k]

(* A connection that has ended is no client of any subscription.           *)
NoGhostClients ==
  \A c \in Clients : handler[c] = "done" => \A k \in Subscribed : c \notin clients[k]
==============================================================================
