----------------------------- MODULE ChartStream -----------------------------
(***************************************************************************)
(* The browser's end of the price stream: useChartStream                   *)
(* (src/layer5/frontend/src/hooks/useChartStream.ts) as the chart's view   *)
(* uses it, with the React renders that call it.                           *)
(*                                                                         *)
(* The hook makes a WebSocket whenever the effect of connect() runs, and   *)
(* again from a timer after a socket has closed.  A socket's handlers      *)
(* close over the symbol and the count of attempts of the render that made *)
(* them; the refs are shared by all of them.  Between two handlers stand   *)
(* the close events still to come from replaced sockets, the timers that   *)
(* are armed, and the render and effects a changed state asks for.         *)
(*                                                                         *)
(* A socket is a number of 1..Sockets, taken again when nothing refers to  *)
(* it any more.  Prices are left out, and so is the constructor of         *)
(* WebSocket failing, as the address does not depend on the state.         *)
(***************************************************************************)
EXTENDS Integers

CONSTANTS Views,         \* symbols with their timeframes
          Off,           \* the view of a chart that is not in real time
          MaxAttempts,   \* maxReconnectAttempts
          Sockets        \* bound: sockets that something refers to at one time

ASSUME HookAssumption ==
  Off \notin Views /\ MaxAttempts \in Nat /\ Sockets \in Nat \ {0}

VARIABLES
  mounted,
  view,        \* what the chart asks for: symbol, timeframe, enabled
  attempts,    \* the state reconnectAttempts
  status,      \* the state connectionState
  shown,       \* view and attempts of the last render
  effectDue,   \* that render's effects have still to run
  wsRef,       \* a socket, or 0
  manual,      \* isManualDisconnectRef
  timerRef,    \* reconnectTimeoutRef: the socket whose closing set it, or 0
  armedTimers, \* the sockets whose closing armed a timer
  ripe,        \* those of them whose delay may be over
  sock,        \* sock[s]: the connection of socket s
  closure      \* closure[s]: the view and attempts that s's handlers see

hookVars == <<mounted, view, attempts, status, shown, effectDue, wsRef, manual,
              timerRef, armedTimers, ripe, sock, closure>>

Ids      == 1..Sockets
Contexts == [view : Views \cup {Off}, attempts : Nat]
Now      == [view |-> view, attempts |-> attempts]
Alive    == {"connecting", "open"}
Live     == {s \in Ids : sock[s] \in Alive}

\* Nothing is left for React to do.
Settled == mounted => ~effectDue /\ shown = Now

\* A delay is 3 s or more and a frame is not: what is armed while a render is
\* due does not fire before its effects.
Ripen == ripe' = IF Settled' THEN armedTimers' ELSE ripe \cap armedTimers'

\* A socket that is gone and has no timer is forgotten, with its closure.
Unused == [view |-> Off, attempts |-> 0]
Keep(cl) == closure' = [s \in Ids |-> IF sock'[s] = "none" /\ s \notin armedTimers'
                                       THEN Unused ELSE cl[s]]

HookInit ==
  /\ mounted = TRUE /\ view \in Views \cup {Off}
  /\ attempts = 0 /\ status = "disconnected"
  /\ shown = Now /\ effectDue = TRUE
  /\ wsRef = 0 /\ manual = FALSE /\ timerRef = 0
  /\ armedTimers = {} /\ ripe = {}
  /\ sock = [s \in Ids |-> "none"]
  /\ closure = [s \in Ids |-> Unused]

\* setConnectionState, which an unmounted component ignores.
Shows(x) == status' = IF mounted THEN x ELSE status

\* wsRef.current.close(): its close event is still to come.
CloseCurrent ==
  [s \in Ids |-> IF s # wsRef THEN sock[s]
                 ELSE IF sock[s] = "open" THEN "closing"
                 ELSE IF sock[s] = "connecting" THEN "aborting" ELSE sock[s]]

\* Mutant: the connection before is left open.
ConnectOver(c, timers, held) ==
  \E s \in Ids :
    /\ sock[s] = "none" /\ s \notin timers /\ s # held
    /\ sock' = [sock EXCEPT ![s] = "connecting"]
    /\ Keep([closure EXCEPT ![s] = c])
    /\ wsRef' = s /\ manual' = FALSE
    /\ Shows("connecting")

\* connect() of the render c, with the timers of `timers' and the ref `held'
\* in being.
Connect(c, timers, held) ==
  \E s \in Ids :
    /\ sock[s] = "none" /\ s \notin timers /\ s # held
    /\ \A r \in 1..(s - 1) : sock[r] # "none" \/ r \in timers \/ r = held
    /\ sock' = [CloseCurrent EXCEPT ![s] = "connecting"]
    /\ Keep([closure EXCEPT ![s] = c])
    /\ wsRef' = s /\ manual' = FALSE
    /\ Shows("connecting")

\* disconnect(), when nothing connects after it.
Disconnect ==
  /\ sock' = CloseCurrent /\ wsRef' = 0 /\ manual' = TRUE
  /\ Shows("disconnected")
  /\ Keep(closure)

-----------------------------------------------------------------------------
\* The user picks a symbol or a timeframe, or turns the stream on or off.
ChangeView(v) ==
  /\ mounted /\ v # view
  /\ view' = v
  /\ UNCHANGED <<mounted, attempts, status, shown, effectDue, wsRef, manual,
                 timerRef, armedTimers, sock, closure>>
  /\ Ripen

\* A render of which connect() is a new function, so that its effect is due.
Renders ==
  /\ mounted /\ ~effectDue /\ shown # Now
  /\ shown' = Now /\ effectDue' = TRUE
  /\ UNCHANGED <<mounted, view, attempts, status, wsRef, manual, timerRef, armedTimers,
                 sock, closure>>
  /\ Ripen

\* The effect's cleanup, disconnect(), and the effect: connect() if enabled.
\* (On the first render there is no cleanup, and nothing to clean up.)
RunEffects ==
  /\ mounted /\ effectDue
  /\ effectDue' = FALSE
  /\ armedTimers' = armedTimers \ {timerRef} /\ timerRef' = 0
  /\ IF shown.view = Off THEN Disconnect
     ELSE Connect(shown, armedTimers \ {timerRef}, 0)
  /\ UNCHANGED <<mounted, view, attempts, shown>>
  /\ Ripen

\* The chart goes away; React has run the effects it owed.
Unmount ==
  /\ mounted /\ ~effectDue
  /\ mounted' = FALSE
  /\ armedTimers' = armedTimers \ {timerRef} /\ timerRef' = 0
  /\ Disconnect
  /\ UNCHANGED <<view, attempts, shown, effectDue>>
  /\ Ripen

-----------------------------------------------------------------------------
\* onopen.
Opened(s) ==
  /\ sock[s] = "connecting"
  /\ sock' = [sock EXCEPT ![s] = "open"]
  /\ Shows("connected")
  /\ attempts' = IF mounted THEN 0 ELSE attempts
  /\ UNCHANGED <<mounted, view, shown, effectDue, wsRef, manual, timerRef, armedTimers,
                 closure>>
  /\ Ripen

\* Is onclose preceded by onerror?  Always if the connection never stood,
\* never if the hook closed it, otherwise perhaps.
ErrorBefore(s) == IF sock[s] \in {"connecting", "aborting"} THEN {TRUE}
                  ELSE IF sock[s] = "closing" THEN {FALSE} ELSE BOOLEAN

\* Mutant: the attempt is counted and no timer is armed.
ClosedRetryUnarmed(s, failed) ==
  /\ ~manual /\ closure[s].attempts < MaxAttempts
  /\ attempts' = IF mounted THEN attempts + 1 ELSE attempts
  /\ Shows(IF failed THEN "error" ELSE status)
  /\ UNCHANGED <<armedTimers, timerRef>>

\* onclose of a socket that may be tried again: a timer that calls the
\* connect() of the socket's own render.
ClosedRetry(s, failed) ==
  /\ ~manual /\ closure[s].attempts < MaxAttempts
  /\ attempts' = IF mounted THEN attempts + 1 ELSE attempts
  /\ armedTimers' = armedTimers \cup {s} /\ timerRef' = s
  /\ Shows(IF failed THEN "error" ELSE status)

\* onclose of a socket that is not tried again.
ClosedLast(s) ==
  /\ manual \/ closure[s].attempts >= MaxAttempts
  /\ Shows(IF closure[s].attempts >= MaxAttempts THEN "error" ELSE "disconnected")
  /\ UNCHANGED <<attempts, armedTimers, timerRef>>

\* onerror and onclose: the server or the network ended the connection, it
\* was never made, or the hook's own close() is done.
Closed(s) ==
  /\ sock[s] # "none"
  /\ sock' = [sock EXCEPT ![s] = "none"]
  /\ \/ \E failed \in ErrorBefore(s) : ClosedRetry(s, failed)
     \/ ClosedLast(s)
  /\ Keep(closure)
  /\ UNCHANGED <<mounted, view, shown, effectDue, wsRef, manual>>
  /\ Ripen

\* The timer that the closing of s armed.
TimerFires(s) ==
  /\ s \in ripe
  /\ armedTimers' = armedTimers \ {s}
  /\ Connect(closure[s], armedTimers \ {s}, timerRef)
  /\ UNCHANGED <<mounted, view, attempts, shown, effectDue, timerRef>>
  /\ Ripen

HookNext ==
  \/ \E v \in Views \cup {Off} : ChangeView(v)
  \/ Renders \/ RunEffects \/ Unmount
  \/ \E s \in Ids : Opened(s) \/ Closed(s) \/ TimerFires(s)

HookSpec == HookInit /\ [][HookNext]_hookVars

\* React renders and runs effects, timers fire, an attempt to connect ends in
\* one way or the other, and so does a close().  Nothing has to be dropped.
Ends(s) == sock[s] # "open" /\ (Opened(s) \/ Closed(s))
Fairness ==
  /\ WF_hookVars(Renders) /\ WF_hookVars(RunEffects)
  /\ \A s \in Ids : WF_hookVars(TimerFires(s)) /\ WF_hookVars(Ends(s))
FairHookSpec == HookSpec /\ Fairness
-----------------------------------------------------------------------------
(* Properties.                                                              *)

HookTypeOK ==
  /\ mounted \in BOOLEAN /\ effectDue \in BOOLEAN /\ manual \in BOOLEAN
  /\ view \in Views \cup {Off} /\ attempts \in Nat
  /\ status \in {"disconnected", "connecting", "connected", "error"}
  /\ shown \in Contexts
  /\ wsRef \in Ids \cup {0} /\ timerRef \in Ids \cup {0}
  /\ armedTimers \subseteq Ids /\ ripe \subseteq armedTimers
  /\ sock \in [Ids -> {"none", "connecting", "open", "aborting", "closing"}]
  /\ closure \in [Ids -> Contexts]

\* However late closes, renders and timers interleave, there is never a second
\* connection: whoever connects has the one before closed, and none is lost
\* from wsRef while it stands.
OneLiveSocket == Live \subseteq {wsRef}

\* Tries that are spent: the last render allows no more.
GivenUp == shown.attempts >= MaxAttempts

\* A chart that is to stream and has no connection is going to have one: a
\* render or an effect is due or a timer is armed, or its tries are spent.  In
\* particular no late close of a replaced socket and no cleanup of an effect
\* takes away the only thing that would connect again.
ReconnectPending ==
  mounted /\ view # Off /\ Live = {} /\ Settled => armedTimers # {} \/ GivenUp

\* The chart does not say it is disconnected while a connection stands: no
\* close event of a replaced socket says so over the one that replaced it.
DisconnectedIsTrue ==
  mounted /\ status = "disconnected" => Live = {}

\* As long as tries are left, a chart that is to stream and has no connection
\* tries again, whatever is dropped, clicked or closed late in between.
KeepsTrying ==
  (mounted /\ view # Off /\ Live = {}) ~>
    (Live # {} \/ GivenUp \/ view = Off \/ ~mounted)

-----------------------------------------------------------------------------
(* Said of the code, and not so: TLC refutes each of these (README.md).      *)

\* "Automatic reconnection with exponential backoff" (useChartStream.ts:7):
\* the wait that a drop began is not cut short while the chart shows the same.
\* The count of attempts is a dependency of connect(), so that the render after
\* the drop runs its effect, which clears the timer and connects at once.
BacksOff ==
  [][RunEffects => timerRef \notin armedTimers \/ closure[timerRef].view # shown.view]_hookVars

\* "Automatic reconnection" (useChartStream.ts:7): when nothing is dropped,
\* refused or clicked any more, the chart comes to rest on a connection.  Every
\* connection that opens sets the count back to zero, whose effect closes it;
\* its close event arrives after the next connect() and counts as a drop.
Dropped(s) == s = wsRef /\ sock[s] \in Alive /\ Closed(s)
Settles ==
  <>[][(\A s \in Ids : ~Dropped(s)) /\ UNCHANGED <<view, mounted>>]_hookVars
    => <>[](mounted /\ view # Off => GivenUp \/ \E s \in Ids : sock[s] = "open")

\* "Cleanup on unmount" (useChartStream.ts:282): the chart that went away
\* connects no more.  Two closes in one frame arm two timers, and the ref knows
\* the second only.
UnmountedIsSilent == ~mounted => Live = {}

\* An open connection has subscribed to what the chart shows, once the chart is
\* rendered.  The timer that was left armed connects with its own symbol.
StreamsWhatIsShown ==
  mounted /\ Settled => \A s \in Live : closure[s].view = view
=============================================================================
