---------------------------- MODULE LiveExecution ----------------------------
(***************************************************************************)
(* Live trading: ExecutionPipeline.run (src/layer4_executor), the broker   *)
(* adapter it calls (src/layer7) and the auditor of its trades             *)
(* (src/layer6_auditor).  They meet in the table fact_live_trades.         *)
(*                                                                         *)
(* A pipeline run is a process of its own; so is an audit.  A database     *)
(* write, a call of the broker and the loading of the signals are steps.   *)
(* The table is taken with the columns execution_status and order_id; the  *)
(* confidence of the model and the distances of stop and target are left   *)
(* out.                                                                    *)
(***************************************************************************)
EXTENDS Integers, FiniteSets, FiniteSetsExt

CONSTANTS Signals,       \* what may be rows of fact_signals
          Runs,          \* pipeline runs
          Days,          \* which signals and outcomes of them there are, which runs
                         \* and audits are started
          Audits,        \* auditor runs
          Prices,        \* what an instrument may be quoted at
          MaxSignals,    \* --max-signals
          Correlated(_, _), \* the returns of two assets correlate too much
          HasHistory(_), \* an asset has enough bars to compute that
          None,
          MaxFaults      \* bound: kills and failing database writes

(* A signal is a record with time, asset, strategy, side (1 or -1) and     *)
(* gran.                                                                   *)
ASSUME SignalAssumption ==
  \A s \in Signals : s.time \in Nat /\ s.side \in {1, -1}
ASSUME DayAssumption ==
  Days \subseteq [signals : SUBSET Signals, outcomes : [Signals -> Nat],
                 runs : SUBSET Runs, audits : SUBSET Audits]
ASSUME NoneIsNoSignal == None \notin Signals
ASSUME ExecutionBounds == MaxSignals \in Nat /\ MaxFaults \in Nat

(* uq_livetrades_signal: the granularity is not part of it.                *)
Key(s) == <<s.time, s.asset, s.strategy, s.side>>
TradeKeys == {Key(s) : s \in Signals}
Grans == {s.gran : s \in Signals}

VARIABLES
  day,       \* the one of Days this is
  row,       \* row[k]: the row of fact_live_trades with key k, or None
  pc,        \* pc[r]: where run r is
  mode,      \* mode[r]: its arguments
  todo,      \* todo[r]: how many of the loaded rows of each signal are not taken
             \* up yet
  cur,       \* cur[r]: the signal being processed
  success,   \* success[r]: what execute_broker_order returned
  positions, \* positions[r]: signals in self.open_positions
  fills,     \* fills[r]: signals for which the broker filled an order of r,
             \* with how often (history, while r runs)
  audit,     \* audit[a]: where audit a is and the rows it has still to judge
  placed,    \* keys with an order that was filled or placed (history)
  torn,      \* keys whose log a fault left behind (history)
  faults     \* faults so far

tableVars == <<row, placed, torn, faults>>
runVars   == <<pc, mode, todo, cur, success, positions, fills>>
vars      == <<day, tableVars, runVars, audit>>

Statuses == {"SKIPPED", "PENDING", "EXECUTED", "FAILED"}
Row == [status : Statuses, entry : Prices \cup {None}, outcome : {0, 1, None}]
Mode == [dry : BOOLEAN, gate : BOOLEAN]
Judged == [key : TradeKeys, entry : Prices \cup {None}]

TypeOK ==
  /\ day \in Days
  /\ row \in [TradeKeys -> Row \cup {None}]
  /\ pc \in [Runs -> {"new", "next", "logged", "answered", "end"}]
  /\ mode \in [Runs -> Mode]
  /\ todo \in [Runs -> [Signals -> Nat]]
  /\ cur \in [Runs -> Signals \cup {None}]
  /\ \A r \in Runs : cur[r] # None <=> pc[r] \in {"logged", "answered"}
  /\ success \in [Runs -> BOOLEAN]
  /\ positions \in [Runs -> SUBSET Signals]
  /\ fills \in [Runs -> [Signals -> Nat]]
  /\ audit \in [Audits -> [at : {"new", "rows", "end", "aborted"}, rows : SUBSET Judged]]
  /\ placed \subseteq TradeKeys
  /\ torn \subseteq TradeKeys
  /\ faults \in 0..MaxFaults

Init ==
  /\ day \in Days
  /\ row = [k \in TradeKeys |-> None]
  /\ pc = [r \in Runs |-> "new"]
  /\ mode = [r \in Runs |-> [dry |-> FALSE, gate |-> TRUE]]
  /\ todo = [r \in Runs |-> [s \in Signals |-> 0]]
  /\ cur = [r \in Runs |-> None]
  /\ success = [r \in Runs |-> FALSE]
  /\ positions = [r \in Runs |-> {}]
  /\ fills = [r \in Runs |-> [s \in Signals |-> 0]]
  /\ audit = [a \in Audits |-> [at |-> "new", rows |-> {}]]
  /\ placed = {}
  /\ torn = {}
  /\ faults = 0

(***************************************************************************)
(* Writing the table                                                       *)
(***************************************************************************)
NewRow == [status |-> "PENDING", entry |-> None, outcome |-> None]

(* Insert or, on conflict, update: columns that are not written keep what  *)
(* they hold, whatever state the row was in.                               *)
Upsert(k, status, price) ==
  LET old == IF row[k] = None THEN NewRow ELSE row[k]
  IN  row' = [row EXCEPT ![k] = [old EXCEPT !.status = status,
                                            !.entry  = IF price = None THEN @ ELSE price]]

(* log_skipped_trade and write_pre_execution_log: an error is logged and   *)
(* the run goes on.                                                        *)
Write(k, status, price) ==
  \/ Upsert(k, status, price) /\ UNCHANGED <<torn, faults>>
  \/ faults < MaxFaults /\ faults' = faults + 1
     /\ torn' = torn \cup {k} /\ UNCHANGED row

(* update_post_execution_log touches a PENDING row only.                   *)
Settle(k, status) ==
  \/ /\ row' = IF row[k] # None /\ row[k].status = "PENDING"
               THEN [row EXCEPT ![k].status = status] ELSE row
     /\ UNCHANGED <<torn, faults>>
  \/ faults < MaxFaults /\ faults' = faults + 1
     /\ torn' = torn \cup {k} /\ UNCHANGED row

(***************************************************************************)
(* A pipeline run                                                          *)
(***************************************************************************)

(* The query joins the signals to fact_trade_outcomes, LEFT JOIN: a signal *)
(* comes once for each of its outcomes, and once if it has none.           *)
JoinRows(s) == IF day.outcomes[s] = 0 THEN 1 ELSE day.outcomes[s]

(* The newest rows of a granularity since some time, at most MaxSignals of *)
(* them: also those of signals that were executed before.                  *)
Loads(chosen) ==
  \E g \in Grans, since \in {s.time : s \in Signals} :
    LET eligible == {s \in day.signals : s.gran = g /\ s.time >= since}
        whole    == {s \in eligible : chosen[s] = JoinRows(s)}
        total    == MapThenSumSet(LAMBDA s : chosen[s], day.signals)
    IN  /\ \A s \in day.signals : chosen[s] <= IF s \in eligible THEN JoinRows(s) ELSE 0
        /\ total <= MaxSignals
        /\ total < MaxSignals => whole = eligible
        /\ \A s \in day.signals, t \in eligible \ whole : chosen[s] > 0 => s.time >= t.time

StartRun(r) ==
  /\ pc[r] = "new"
  /\ r \in day.runs
  /\ \E chosen \in [day.signals -> 0..MaxSignals] :
       /\ Loads(chosen)
       /\ todo' = [todo EXCEPT ![r] =
                     [s \in Signals |-> IF s \in day.signals THEN chosen[s] ELSE 0]]
  /\ \E m \in Mode : mode' = [mode EXCEPT ![r] = m]
  /\ pc' = [pc EXCEPT ![r] = "next"]
  /\ UNCHANGED <<day, tableVars, cur, success, positions, fills, audit>>

(* ORDER BY timestamp DESC.                                                *)
Waiting(r) == {s \in Signals : todo[r][s] > 0}
IsNext(r, s) == \A t \in Waiting(r) : s.time >= t.time

(* No regime, not approved by the model, or no valid stop and target.      *)
SkipSignal(r) ==
  /\ pc[r] = "next"
  /\ \E s \in Waiting(r) :
       /\ IsNext(r, s)
       /\ todo' = [todo EXCEPT ![r][s] = @ - 1]
       /\ Write(Key(s), "SKIPPED", None)
  /\ UNCHANGED <<day, pc, mode, cur, success, positions, fills, audit, placed>>

OnAsset(r, s) == {p \in positions[r] : p.asset = s.asset}
CorrelatedWith(r, s) ==
  IF HasHistory(s.asset)
  THEN {p \in positions[r] : HasHistory(p.asset) /\ Correlated(s.asset, p.asset)}
  ELSE {}

(* evaluate_correlation_gate: the number of positions, one per asset, and  *)
(* at most one that correlates with the new one.                           *)
GatePasses(r, s) ==
  /\ 10 * Cardinality(positions[r]) < 25
  /\ OnAsset(r, s) = {}
  /\ Cardinality(CorrelatedWith(r, s)) < 2

VetoSignal(r) ==
  /\ pc[r] = "next"
  /\ mode[r].gate
  /\ \E s \in Waiting(r) :
       /\ IsNext(r, s)
       /\ ~GatePasses(r, s)
       /\ todo' = [todo EXCEPT ![r][s] = @ - 1]
       /\ Write(Key(s), "SKIPPED", None)
  /\ UNCHANGED <<day, pc, mode, cur, success, positions, fills, audit, placed>>

(* The row is written before the order is sent, with the price the stop    *)
(* and the target were computed from.                                      *)
PreLog(r) ==
  /\ pc[r] = "next"
  /\ \E s \in Waiting(r), price \in Prices :
       /\ IsNext(r, s)
       /\ mode[r].gate => GatePasses(r, s)
       /\ todo' = [todo EXCEPT ![r][s] = @ - 1]
       /\ cur' = [cur EXCEPT ![r] = s]
       /\ Write(Key(s), "PENDING", price)
  /\ pc' = [pc EXCEPT ![r] = "logged"]
  /\ UNCHANGED <<day, mode, success, positions, fills, audit, placed>>

(* What execute_trade makes of an order: nothing is sent, or the broker    *)
(* refuses, fills or cancels it, or fills it and the answer is lost, which *)
(* it reports as it does a refusal.                                        *)
Answers == {"none", "filled", "cancelled", "lost"}

(* Mutant: any answer counts as success.                                   *)
SuccessIfAny(dry, answer) == dry \/ answer \in {"filled", "cancelled"}

(* execute_broker_order asks for a key "success", which no answer of the   *)
(* broker has; without an answer the attribute access raises, which counts *)
(* as failure too.                                                         *)
Success(dry, answer) == dry

Filled(r, answer) == ~mode[r].dry /\ answer \in {"filled", "lost"}

(* Mutant: an order without an answer is tried again.                      *)
SendOrderAgain(r) ==
  /\ pc[r] = "logged"
  /\ \E answer \in Answers :
       /\ fills' = [fills EXCEPT ![r][cur[r]] = IF Filled(r, answer) THEN @ + 1 ELSE @]
       /\ placed' = IF mode[r].dry \/ Filled(r, answer) THEN placed \cup {Key(cur[r])} ELSE placed
       /\ success' = [success EXCEPT ![r] = Success(mode[r].dry, answer)]
       /\ pc' = [pc EXCEPT ![r] = IF answer = "lost" THEN "logged" ELSE "answered"]
  /\ UNCHANGED <<day, row, torn, faults, mode, todo, cur, positions, audit>>

SendOrder(r) ==
  /\ pc[r] = "logged"
  /\ \E answer \in Answers :
       /\ fills' = [fills EXCEPT ![r][cur[r]] = IF Filled(r, answer) THEN @ + 1 ELSE @]
       /\ placed' = IF mode[r].dry \/ Filled(r, answer) THEN placed \cup {Key(cur[r])} ELSE placed
       /\ success' = [success EXCEPT ![r] = Success(mode[r].dry, answer)]
  /\ pc' = [pc EXCEPT ![r] = "answered"]
  /\ UNCHANGED <<day, row, torn, faults, mode, todo, cur, positions, audit>>

(* Mutant: only an executed order is settled.                              *)
PostLogIfExecuted(r) ==
  /\ pc[r] = "answered"
  /\ IF success[r] THEN Settle(Key(cur[r]), "EXECUTED") ELSE UNCHANGED <<row, torn, faults>>
  /\ positions' = [positions EXCEPT ![r] = IF success[r] THEN @ \cup {cur[r]} ELSE @]
  /\ cur' = [cur EXCEPT ![r] = None]
  /\ success' = [success EXCEPT ![r] = FALSE]
  /\ pc' = [pc EXCEPT ![r] = "next"]
  /\ UNCHANGED <<day, mode, todo, fills, audit, placed>>

PostLog(r) ==
  /\ pc[r] = "answered"
  /\ Settle(Key(cur[r]), IF success[r] THEN "EXECUTED" ELSE "FAILED")
  /\ positions' = [positions EXCEPT ![r] = IF success[r] THEN @ \cup {cur[r]} ELSE @]
  /\ cur' = [cur EXCEPT ![r] = None]
  /\ success' = [success EXCEPT ![r] = FALSE]
  /\ pc' = [pc EXCEPT ![r] = "next"]
  /\ UNCHANGED <<day, mode, todo, fills, audit, placed>>

(* What a run holds in memory is gone with it.                             *)
Forget(r) ==
  /\ todo' = [todo EXCEPT ![r] = [s \in Signals |-> 0]]
  /\ cur' = [cur EXCEPT ![r] = None]
  /\ success' = [success EXCEPT ![r] = FALSE]
  /\ positions' = [positions EXCEPT ![r] = {}]
  /\ fills' = [fills EXCEPT ![r] = [s \in Signals |-> 0]]

(* The summary raises once signals were loaded; without any the run        *)
(* returns before it.  Either way it is over.                              *)
EndRun(r) ==
  /\ pc[r] = "next"
  /\ Waiting(r) = {}
  /\ pc' = [pc EXCEPT ![r] = "end"]
  /\ Forget(r)
  /\ UNCHANGED <<day, tableVars, mode, audit>>

Kill(r) ==
  /\ pc[r] \in {"next", "logged", "answered"}
  /\ faults < MaxFaults
  /\ faults' = faults + 1
  /\ torn' = IF cur[r] = None THEN torn ELSE torn \cup {Key(cur[r])}
  /\ pc' = [pc EXCEPT ![r] = "end"]
  /\ Forget(r)
  /\ UNCHANGED <<day, row, placed, mode, audit>>

(***************************************************************************)
(* An audit                                                                *)
(***************************************************************************)

(* All rows without an outcome that are old enough, whatever their status; *)
(* they are read once, and each is judged minutes later.                   *)
SelectRows(a) ==
  /\ audit[a].at = "new"
  /\ a \in day.audits
  /\ \E until \in {k[1] : k \in TradeKeys} :
       audit' = [audit EXCEPT ![a] =
         [at   |-> "rows",
          rows |-> {[key |-> k, entry |-> row[k].entry] : k \in
                      {k \in TradeKeys : row[k] # None /\ k[1] <= until /\ row[k].outcome = None}}]]
  /\ UNCHANGED <<day, tableVars, runVars>>

IsOldest(a, j) == j \in audit[a].rows /\ \A i \in audit[a].rows : j.key[1] <= i.key[1]

SameTrade(k, l) == k[1] = l[1] /\ k[2] = l[2] /\ k[3] = l[3]

(* Mutant: the price is not compared.                                      *)
HitsAnyPrice(k, j) == row[k] # None /\ SameTrade(k, j.key)

(* The rows the UPDATE finds: the side is not part of its condition, the   *)
(* price as it was read is.                                                *)
Hits(k, j) == row[k] # None /\ SameTrade(k, j.key) /\ row[k].entry = j.entry

(* Stop or target was hit first, or neither so far, or the candles could   *)
(* not be read: then the row is left for a later audit.                    *)
JudgeRow(a) ==
  /\ audit[a].at = "rows"
  /\ \E j \in audit[a].rows, verdict \in {0, 1, None} :
       /\ IsOldest(a, j)
       /\ j.entry # None
       /\ audit' = [audit EXCEPT ![a].rows = @ \ {j}]
       /\ row' = IF verdict = None THEN row
                 ELSE [k \in TradeKeys |-> IF Hits(k, j) THEN [row[k] EXCEPT !.outcome = verdict]
                                      ELSE row[k]]
  /\ UNCHANGED <<day, placed, torn, faults, runVars>>

(* A row without prices, as a skipped signal has: formatting them raises   *)
(* outside the try statement and the audit is over.                        *)
AbortAudit(a) ==
  /\ audit[a].at = "rows"
  /\ \E j \in audit[a].rows : IsOldest(a, j) /\ j.entry = None
  /\ audit' = [audit EXCEPT ![a] = [at |-> "aborted", rows |-> {}]]
  /\ UNCHANGED <<day, tableVars, runVars>>

EndAudit(a) ==
  /\ audit[a].at = "rows"
  /\ audit[a].rows = {}
  /\ audit' = [audit EXCEPT ![a].at = "end"]
  /\ UNCHANGED <<day, tableVars, runVars>>

RunStep(r) ==
  SkipSignal(r) \/ VetoSignal(r) \/ PreLog(r) \/ SendOrder(r) \/ PostLog(r) \/ EndRun(r)
AuditStep(a) == JudgeRow(a) \/ AbortAudit(a) \/ EndAudit(a)

Next ==
  \/ \E r \in Runs : StartRun(r) \/ RunStep(r) \/ Kill(r)
  \/ \E a \in Audits : SelectRows(a) \/ AuditStep(a)

Spec == Init /\ [][Next]_vars

(***************************************************************************)
(* Properties                                                              *)
(***************************************************************************)

(* A run has a signal filled at most once for every row its query has of   *)
(* it: nothing a run does after a failed or unanswered order sends that    *)
(* order again.                                                            *)
FilledOncePerRow == \A r \in Runs, s \in Signals : fills[r][s] <= JoinRows(s)

(* A row is PENDING only while a run is at work on its signal, unless a    *)
(* kill or a failed write left it behind: whatever overlapping runs of     *)
(* other granularities wrote to the same key.                              *)
PendingIsExplained ==
  \A k \in TradeKeys :
    row[k] # None /\ row[k].status = "PENDING" =>
      \/ k \in torn
      \/ \E r \in Runs : pc[r] \in {"logged", "answered"} /\ Key(cur[r]) = k

(* EXECUTED is written of an order that was filled or simulated, not of    *)
(* one that was refused or cancelled.                                      *)
ExecutedIsReal ==
  \A k \in TradeKeys :
    row[k] # None /\ row[k].status = "EXECUTED" => k \in placed

(* An outcome goes to rows with the entry price it was determined for,     *)
(* also if a pipeline run rewrote the row since the auditor read it.       *)
OutcomeFitsPrice ==
  [][\A k \in TradeKeys :
       row[k] # None /\ row'[k].outcome # row[k].outcome =>
         \E a \in Audits : \E j \in audit[a].rows : j.entry = row'[k].entry]_vars

(***************************************************************************)
(* Said of the code, and not so: TLC refutes them (README.md)              *)
(***************************************************************************)
(* MAX_POSITIONS_PER_ASSET (live_pipeline.py:128): a gated run opens one   *)
(* position per asset. A fill enters the run's book only if the broker's   *)
(* answer has a key that none has (1369).                                  *)
OnePositionPerAsset ==
  \A r \in Runs : mode[r].gate =>
    \A s, t \in Signals :
      s.asset = t.asset /\ fills[r][s] > 0 /\ fills[r][t] > 0 => s = t

(* SKIPPED_DUPLICATE (live_pipeline.py:160): a run does not order a signal *)
(* again. Nothing tells the rows of one signal apart or drops one of them. *)
FilledOncePerRun == \A r \in Runs, s \in Signals : fills[r][s] <= 1
=============================================================================
