----------------------------- MODULE Attribution -----------------------------
(* The research tables of System 1 and their writers, for one instrument and *)
(* timeframe: the regime labels of the bars (hmm_regime), the backtested     *)
(* trades with their out-of-sample tags (persist_trade_outcomes: the loader, *)
(* and the backfill of rows older than the tags), and the attribution that   *)
(* joins the two.  The jobs are separate programs over one database, each    *)
(* may be killed, and nothing keeps two of them apart.  A statement sees     *)
(* what is committed when it starts (PostgreSQL's default isolation).        *)
EXTENDS WalkForward

CONSTANTS
  Labels,     \* the regimes
  Null,       \* no label; no fold yet; no labelling yet
  Unknown,    \* UNKNOWN_REGIME
  Loaders,    \* processes that run the outcome loader
  EntryBars,  \* the bars on which the loaded strategies enter a trade
  Legacy,     \* entry bars of a retired strategy, stored before the tags
  Lookback,   \* lookback_years: the bars a loader backtests
  MaxBars,    \* bound on the bars
  MaxLoads    \* bound on the loads

ASSUME SizesAssumption ==
  /\ Lookback \in Nat \ {0} /\ MaxLoads \in Nat /\ MaxBars \in Nat
  /\ MaxBars > MinTrain + 1
  /\ EntryBars \subseteq 1..MaxBars
  /\ Legacy \subseteq 1..MinTrain + 1
ASSUME LabelsAssumption == {Null, Unknown} \cap Labels = {} /\ Labels # {}

VARIABLES
  raw,       \* the bars so far, each with the label its filtered posterior gives it, if any
  regimes,   \* fact_market_regime_v2.regime_causal
  method,    \* its causal_label_method, the same for all labels of a run
  outcomes,  \* fact_trade_outcomes: rows [load, entry, fold]
  loads,     \* loads begun; a row's load tells who inserted it, 0 is legacy
  loader,    \* the locals of each loader
  backfill,  \* the locals of the backfill and its uncommitted updates
  trades,    \* attribute: Null, or the out-of-sample entries it has read
  cells      \* the regimes in which it found out-of-sample trades

tablesVars == <<raw, regimes, method, outcomes, loads, loader, backfill, trades, cells>>

Bars == 1..MaxBars
NotLoading == [at |-> "idle", load |-> 0, bars |-> 0]
NoFolds == [at |-> "idle", starts |-> {}, left |-> {}, updated |-> {}]

(* default_folds gives none as long as the history is within MinTrain.       *)
HasFolds(n) == OosStarts(1, n) # {}

(* The bars that n bars label: those of the windows, without the warm-up and *)
(* the last bar, or, with no fold, all of them.                              *)
LabelledBars(n) == IF HasFolds(n) THEN OosBars(1, n) ELSE 1..n

(* What the first models of n bars may say: without a fold one model is      *)
(* fitted to the whole history and labels all of it.                         *)
FirstFits(n) ==
  {fit \in [1..n -> Labels \cup {Null}] :
     \A t \in 1..n : fit[t] # Null <=> t \in LabelledBars(n)}

(* The history is still too short for a fold.                                *)
TablesInit ==
  /\ \E n \in 1..MinTrain + 1 :
       /\ raw \in FirstFits(n)
       /\ outcomes = [load : {0}, entry : Legacy \cap 1..n, fold : {Null}]
  /\ regimes = [t \in Bars |-> Null]
  /\ method = Null
  /\ loads = 0
  /\ loader = [l \in Loaders |-> NotLoading]
  /\ backfill = NoFolds
  /\ trades = Null
  /\ cells = {}

(* A new bar.  With folds it puts the bar before it into a window.  The raw  *)
(* label of that one comes from a model fitted before its fold and from the  *)
(* bars up to it, with a fixed seed, and does not change any more; before    *)
(* there are folds, each bar makes another fit of all bars.                  *)
NewBar ==
  /\ Len(raw) < MaxBars
  /\ \/ HasFolds(Len(raw)) /\ \E l \in Labels : raw' = Append([raw EXCEPT ![Len(raw)] = l], Null)
     \/ ~HasFolds(Len(raw)) /\ raw' \in FirstFits(Len(raw) + 1)
  /\ UNCHANGED <<regimes, method, outcomes, loads, loader, backfill, trades, cells>>

-----------------------------------------------------------------------------
(* The regime labels                                                         *)

(* causal_labels: the raw labels, smoothed over all bars that have one.      *)
CausalLabels(n) ==
  LET first == Min(LabelledBars(n))
      smooth == Smooth([k \in 1..Cardinality(LabelledBars(n)) |-> raw[first + k - 1]])
  IN [t \in 1..n |-> IF t \in LabelledBars(n) THEN smooth[t - first + 1] ELSE Null]

(* process_granularity: the upsert of every bar read, in one transaction (a  *)
(* run that is killed before leaves nothing, and one that took long is one   *)
(* that read fewer bars).                                                    *)
WriteRows ==
  /\ regimes' = [t \in Bars |-> IF t <= Len(raw) THEN CausalLabels(Len(raw))[t] ELSE Null]
  /\ method' = IF HasFolds(Len(raw)) THEN "walk_forward" ELSE "filtered"
  /\ UNCHANGED <<raw, outcomes, loads, loader, backfill, trades, cells>>

-----------------------------------------------------------------------------
(* The outcome loader                                                        *)

AppendOutcomes(l) ==
  /\ loader[l].at = "idle" /\ loads < MaxLoads
  /\ loads' = loads + 1
  /\ loader' = [loader EXCEPT ![l] = [at |-> "deleted", load |-> loads + 1, bars |-> Len(raw)]]
  /\ UNCHANGED <<raw, regimes, method, outcomes, backfill, trades, cells>>

(* The old rows of the loaded strategies go first, in a transaction of their *)
(* own.  Rows that a backfill has updated are locked until it ends.          *)
DeleteOutcomes(l) ==
  /\ loader[l].at = "idle" /\ loads < MaxLoads
  /\ \A r \in backfill.updated : r.load = 0
  /\ loads' = loads + 1
  /\ outcomes' = {r \in outcomes : r.load = 0}
  /\ loader' = [loader EXCEPT ![l] = [at |-> "deleted", load |-> loads + 1, bars |-> Len(raw)]]
  /\ UNCHANGED <<raw, regimes, method, backfill, trades, cells>>

(* The rows of a load, with the folds of its own first and last entry        *)
(* (_assign_oos_columns).                                                    *)
Labelled(load, entries) ==
  {[load |-> load, entry |-> t,
    fold |-> Assign(t, OosStarts(Min(entries), Max(entries)))] : t \in entries}

(* The prices are read some time after the delete, and the rows of all the   *)
(* backtests inserted together when they are done.                           *)
InsertOutcomes(l) ==
  /\ loader[l].at = "deleted"
  /\ \E now \in loader[l].bars..Len(raw) :
       LET entries == EntryBars \cap (now - Lookback + 1)..now
       IN outcomes' = outcomes \cup Labelled(loader[l].load, entries)
  /\ loader' = [loader EXCEPT ![l] = NotLoading]
  /\ UNCHANGED <<raw, regimes, method, loads, backfill, trades, cells>>

KillLoader(l) ==
  /\ loader[l].at # "idle"
  /\ loader' = [loader EXCEPT ![l] = NotLoading]
  /\ UNCHANGED <<raw, regimes, method, outcomes, loads, backfill, trades, cells>>

-----------------------------------------------------------------------------
(* The backfill                                                              *)

Entries(rows) == {r.entry : r \in rows}
TableStarts == OosStarts(Min(Entries(outcomes)), Max(Entries(outcomes)))

ReadBounds ==
  /\ backfill.at = "idle" /\ outcomes # {}
  /\ backfill' = [at |-> "updating", starts |-> TableStarts,
                  left |-> TableStarts \cup {0}, updated |-> {}]
  /\ UNCHANGED <<raw, regimes, method, outcomes, loads, loader, trades, cells>>

SameRow(r, q) == r.load = q.load /\ r.entry = q.entry
Overwrite(rows, new) == {r \in rows : \A q \in new : ~SameRow(r, q)} \cup new

InRangeAfter(t, s, later) == s < t /\ \A u \in later : t <= u
InRange(t, s, later) == s <= t /\ \A u \in later : t < u

(* One range UPDATE: the rows before the cutoff (0), then those of one       *)
(* window after the other, the last without an end.                          *)
UpdateRange ==
  LET s == Min(backfill.left)
      later == {u \in backfill.starts : u > s}
      rows == {r \in outcomes : InRange(r.entry, s, later)}
      fold == Cardinality({u \in backfill.starts : u <= s})
  IN /\ backfill.at = "updating" /\ backfill.left # {}
     /\ backfill' = [backfill EXCEPT !.left = @ \ {s},
                       !.updated = Overwrite(@, {[r EXCEPT !.fold = fold] : r \in rows})]
     /\ UNCHANGED <<raw, regimes, method, outcomes, loads, loader, trades, cells>>

CommitBackfill ==
  /\ backfill.at = "updating" /\ backfill.left = {}
  /\ outcomes' = Overwrite(outcomes, backfill.updated)
  /\ backfill' = NoFolds
  /\ UNCHANGED <<raw, regimes, method, loads, loader, trades, cells>>

KillBackfill ==
  /\ backfill.at = "updating"
  /\ backfill' = NoFolds
  /\ UNCHANGED <<raw, regimes, method, outcomes, loads, loader, trades, cells>>

-----------------------------------------------------------------------------
(* The attribution                                                           *)

OutOfSample(rows) == {r \in rows : r.fold \notin {Null, 0}}

(* The gates look at out-of-sample trades only; a row without a tag is       *)
(* in-sample.  An empty table ends the run with an error.  Only the entries  *)
(* matter below: what the metrics of a cell are is left out.                 *)
LoadTrades ==
  /\ trades = Null /\ outcomes # {}
  /\ trades' = Entries(OutOfSample(outcomes))
  /\ cells' = {}
  /\ UNCHANGED <<raw, regimes, method, outcomes, loads, loader, backfill>>

RegimeOfBar(t) == IF regimes[t] = Null THEN Unknown ELSE regimes[t]

(* merge_asof: the label of the last labelled bar at or before the entry,    *)
(* however old.                                                              *)
RegimeAt(t) ==
  LET before == {b \in 1..t : regimes[b] # Null}
  IN IF before = {} THEN Unknown ELSE regimes[Max(before)]

Attribute ==
  /\ trades # Null
  /\ cells' = {RegimeAt(t) : t \in trades}
  /\ trades' = Null
  /\ UNCHANGED <<raw, regimes, method, outcomes, loads, loader, backfill>>

TablesNext ==
  \/ NewBar
  \/ WriteRows
  \/ \E l \in Loaders : DeleteOutcomes(l) \/ InsertOutcomes(l) \/ KillLoader(l)
  \/ ReadBounds \/ UpdateRange \/ CommitBackfill \/ KillBackfill
  \/ LoadTrades \/ Attribute

TablesSpec == TablesInit /\ [][TablesNext]_tablesVars

-----------------------------------------------------------------------------
(* Properties                                                                *)

Rows == [load : 0..MaxLoads, entry : Bars, fold : 0..MaxBars \cup {Null}]

TablesTypeOK ==
  /\ Len(raw) \in 1..MaxBars /\ \A t \in DOMAIN raw : raw[t] \in Labels \cup {Null}
  /\ regimes \in [Bars -> Labels \cup {Null}]
  /\ method \in {Null, "filtered", "walk_forward"}
  /\ outcomes \subseteq Rows /\ loads \in 0..MaxLoads
  /\ loader \in [Loaders -> [at : {"idle", "deleted"},
                             load : 0..loads, bars : 0..Len(raw)]]
  /\ backfill.updated \subseteq Rows /\ backfill.left \subseteq 0..MaxBars
  /\ trades = Null \/ trades \subseteq Bars
  /\ cells \subseteq Labels \cup {Unknown}

(* Loaders that overlap leave a trade in the table more than once, although  *)
(* each starts by deleting, but at most once for each process: a process     *)
(* cannot insert again before it has deleted what everybody inserted.        *)
CopiesBounded ==
  \A t \in EntryBars :
    Cardinality({r \in outcomes : r.entry = t /\ r.load # 0}) <= Cardinality(Loaders)

(* "The INSERT path and backfill_oos agree exactly" when they can: a         *)
(* backfill leaves a load with the tags its insert gives, whatever an older  *)
(* backfill did to them, if the folds of the load's entries are those of the *)
(* table both when the bounds are read and at the commit.                    *)
Spans(rows) == rows # {} /\ OosStarts(Min(Entries(rows)), Max(Entries(rows))) = TableStarts
BackfillAgrees ==
  [][CommitBackfill /\ outcomes # {} /\ backfill.starts = TableStarts =>
       \A load \in 1..MaxLoads :
         LET rows == {r \in outcomes : r.load = load}
         IN Spans(rows) =>
              {r \in outcomes' : r.load = load} = Labelled(load, Entries(rows))]_tablesVars

(* The end of the labelled bars a labelling run of n bars leaves.            *)
Recent(t) ==
  LET labelled == {b \in Bars : regimes[b] # Null}
  IN \/ t > Max(labelled) - (MinBars - 1)
     \/ Cardinality(labelled) < 2 * MinBars - 1

(* Once there are folds, a later run of the labeller changes the label of an *)
(* earlier bar only near the end of what was labelled (the last MinBars - 1  *)
(* bars), or while the whole labelled history is shorter than two segments.  *)
RevisionsAreRecent ==
  [][\A t \in Bars :
       method = "walk_forward" /\ regimes[t] # Null /\ regimes'[t] # regimes[t]
         => Recent(t)]_tablesVars

(* The trades and the labels have their own cutoffs, from the first entry    *)
(* and from the first bar; yet an out-of-sample trade is without a regime    *)
(* only while no bar has a label at all.                                     *)
UnknownMeansUnlabelled ==
  [][(Unknown \in cells' \ cells) => \A t \in Bars : regimes[t] = Null]_tablesVars
-----------------------------------------------------------------------------
(* Said of the code, and not so: TLC refutes it (README.md).                 *)

(* "The smoothed label at bar t depends only on bars 0..t (never future)"    *)
(* (mapping.py:104): later bars leave a causal label unchanged, which is     *)
(* also what test_causal_labels.py:10-11 promises.  A segment shorter than   *)
(* MinBars has the label before it until the next bars prolong it; and the   *)
(* labels of a history without folds are those of one fit of all of it       *)
(* (hmm_regime.py:430-454), so that any of them may change with the next bar *)
(* and all are replaced or, in the warm-up, taken away by the first fold.    *)
LabelsNeverChange ==
  [][\A t \in Bars : regimes[t] # Null => regimes'[t] = regimes[t]]_tablesVars
=============================================================================
