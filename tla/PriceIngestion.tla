--------------------------- MODULE PriceIngestion ---------------------------
(***************************************************************************)
(* Ingestion of one series of bars (src/system1/ingestion): pages of       *)
(* candles are fetched window by window, checked, upserted into            *)
(* fact_market_prices and quarantined, from where the table ends up to the *)
(* time the run was started.                                               *)
(*                                                                         *)
(* A run is a process; the one started later may overlap with it.  Bars    *)
(* are at even times and take Interval to complete.  Of a candle only the  *)
(* time and what the checks make of it are kept: prices that are fine or   *)
(* bad, or none that _normalize_candle could use.  The progress file and   *)
(* the reports, which nothing reads, are left out.                         *)
(***************************************************************************)
EXTENDS Integers, Sequences, FiniteSets, FiniteSetsExt

CONSTANTS Runs,        \* calls of ingest_instrument_granularity for the series
          Market,      \* times at which there is a bar
          Chunk,       \* CONFIG.CHUNK_DAYS: the length of a window
          MaxClock,    \* bound: the time up to which runs are started
          MaxFaults    \* bound: windows that fail, writes that fail, kills,
                       \* and pages out of order

Interval == 2
ASSUME MarketAssumption == Market \subseteq Nat /\ \A t \in Market : t % Interval = 0
ASSUME IngestionBounds ==
  Chunk \in Nat \ {0} /\ MaxClock \in Nat /\ MaxFaults \in Nat

(* What the checks make of the prices of a bar that has them.              *)
Kinds == {"fine", "bad"}
Bar == [time : Market, kind : Kinds]

VARIABLES
  clock,       \* the time at which the last run was started
  stored,      \* times of the rows of the series in fact_market_prices
  quarantine,  \* times with a row in fact_market_prices_quarantine
  pc,          \* pc[r]: where run r is
  from,        \* from[r]: its from_ts
  now,         \* now[r]: when it was started
  page,        \* page[r]: the bars it holds
  failed,      \* times in windows that failed (history)
  dropped,     \* times of complete candles without usable prices (history)
  lost,        \* times of bars a fault kept out of the quarantine (history)
  faults       \* faults so far

ingestVars == <<clock, stored, quarantine, pc, from, now, page, failed, dropped, lost, faults>>

IngestTypeOK ==
  /\ clock \in 0..MaxClock
  /\ stored \subseteq Market
  /\ quarantine \subseteq Market
  /\ pc \in [Runs -> {"new", "window", "checked", "upserted", "end"}]
  /\ from \in [Runs -> Nat]
  /\ now \in [Runs -> 0..MaxClock]
  /\ page \in [Runs -> Seq(Bar)]
  /\ \A r \in Runs : page[r] # <<>> <=> pc[r] \in {"checked", "upserted"}
  /\ failed \subseteq Market
  /\ dropped \subseteq Market
  /\ lost \subseteq Market
  /\ faults \in 0..MaxFaults

IngestInit ==
  /\ clock = 0
  /\ stored = {}
  /\ quarantine = {}
  /\ pc = [r \in Runs |-> "new"]
  /\ from = [r \in Runs |-> 0]
  /\ now = [r \in Runs |-> 0]
  /\ page = [r \in Runs |-> <<>>]
  /\ failed = {}
  /\ dropped = {}
  /\ lost = {}
  /\ faults = 0

(***************************************************************************)
(* The checks of a page (dq.run_dq_checks), by position                    *)
(***************************************************************************)
BadPrices(bars) == {i \in DOMAIN bars : bars[i].kind = "bad"}

(* Earlier than the bar before it, whatever became of that one.            *)
NonMonotonic(bars) ==
  {i \in DOMAIN bars \ {1} : bars[i].time < bars[i - 1].time} \ BadPrices(bars)

(* Not the first with its time, also if that one was quarantined.          *)
Duplicate(bars) ==
  {i \in DOMAIN bars : \E j \in 1..(i - 1) : bars[j].time = bars[i].time}
    \ (BadPrices(bars) \cup NonMonotonic(bars))

Quarantined(bars) == BadPrices(bars) \cup NonMonotonic(bars) \cup Duplicate(bars)
Ok(bars) == DOMAIN bars \ Quarantined(bars)

(***************************************************************************)
(* A run                                                                   *)
(***************************************************************************)

(* get_resume_timestamp: one interval after the last row, quarantined bars *)
(* not counted; the start of the history without any.                      *)
ResumeFrom == IF stored = {} THEN 0 ELSE Max(stored) + Interval

StartSeries(r) ==
  /\ pc[r] = "new"
  /\ clock' \in clock..MaxClock
  /\ from' = [from EXCEPT ![r] = ResumeFrom]
  /\ now' = [now EXCEPT ![r] = clock']
  /\ pc' = [pc EXCEPT ![r] = IF ResumeFrom >= clock' - Interval THEN "end" ELSE "window"]
  /\ UNCHANGED <<stored, quarantine, page, failed, dropped, lost, faults>>

To(r) == Min({from[r] + Chunk, now[r]})
InWindow(r) == {t \in Market : from[r] <= t /\ t < To(r)}

TimesAt(bars, positions) == {bars[i].time : i \in positions}
Times(bars) == TimesAt(bars, DOMAIN bars)

(* What may be answered: a candle for each bar of the window and one more  *)
(* at most, the usable ones in any order, and the times of the others.     *)
FetchedCandles(r) ==
  LET due == InWindow(r)
      most == Cardinality(due) + 1
  IN  {c \in [bars : UNION {[1..n -> [time : due, kind : Kinds]] : n \in 0..most},
              unusable : SUBSET due] :
         /\ Times(c.bars) \cup c.unusable = due
         /\ Len(c.bars) + Cardinality(c.unusable) <= most}

Ordered(c) ==
  /\ \A i, j \in DOMAIN c.bars : i < j => c.bars[i].time < c.bars[j].time
  /\ Times(c.bars) \cap c.unusable = {}

(* Every bar once and in order or, which the checks are for, in another    *)
(* order or one of them twice.                                             *)
Pages(r) == {c \in FetchedCandles(r) : Ordered(c) \/ faults < MaxFaults}

(* A bar that was complete when the run began; a later one may be by now.  *)
Complete(r, t) == t + Interval <= now[r]

(* The retries are used up: the window is given up and the next one taken. *)
SkipWindow(r) ==
  /\ pc[r] = "window"
  /\ from[r] < now[r]
  /\ faults < MaxFaults
  /\ faults' = faults + 1
  /\ from' = [from EXCEPT ![r] = To(r)]
  /\ failed' = failed \cup InWindow(r)
  /\ UNCHANGED <<clock, stored, quarantine, pc, now, page, dropped, lost>>

(* Mutant: an empty window ends with the bar after it.                     *)
FetchPastEnd(r) ==
  /\ pc[r] = "window"
  /\ from[r] < now[r]
  /\ \E c \in Pages(r) :
       /\ page' = [page EXCEPT ![r] = c.bars]
       /\ from' = [from EXCEPT ![r] = IF c.bars = <<>> THEN To(r) + Interval ELSE @]
       /\ pc' = [pc EXCEPT ![r] = IF c.bars = <<>> THEN "window" ELSE "checked"]
       /\ dropped' = dropped \cup {t \in c.unusable : Complete(r, t)}
       /\ faults' = IF Ordered(c) THEN faults ELSE faults + 1
  /\ UNCHANGED <<clock, stored, quarantine, now, failed, lost>>

Fetch(r) ==
  /\ pc[r] = "window"
  /\ from[r] < now[r]
  /\ \E c \in Pages(r) :
       /\ page' = [page EXCEPT ![r] = c.bars]
       /\ from' = [from EXCEPT ![r] = IF c.bars = <<>> THEN To(r) ELSE @]
       /\ pc' = [pc EXCEPT ![r] = IF c.bars = <<>> THEN "window" ELSE "checked"]
       /\ dropped' = dropped \cup {t \in c.unusable : Complete(r, t)}
       /\ faults' = IF Ordered(c) THEN faults ELSE faults + 1
  /\ UNCHANGED <<clock, stored, quarantine, now, failed, lost>>

(* The clean bars are committed in one statement ...                       *)
UpsertBars(r) ==
  /\ pc[r] = "checked"
  /\ stored' = stored \cup TimesAt(page[r], Ok(page[r]))
  /\ pc' = [pc EXCEPT ![r] = "upserted"]
  /\ UNCHANGED <<clock, quarantine, from, now, page, failed, dropped, lost, faults>>

(* ... and the others in another; the next window begins behind the last   *)
(* of all of them.                                                         *)
WriteQuarantine(r) ==
  /\ pc[r] = "upserted"
  /\ quarantine' = quarantine \cup TimesAt(page[r], Quarantined(page[r]))
  /\ from' = [from EXCEPT ![r] = Max(Times(page[r])) + Interval]
  /\ page' = [page EXCEPT ![r] = <<>>]
  /\ pc' = [pc EXCEPT ![r] = "window"]
  /\ UNCHANGED <<clock, stored, now, failed, dropped, lost, faults>>

EndSeries(r) ==
  /\ pc[r] = "window"
  /\ from[r] >= now[r]
  /\ pc' = [pc EXCEPT ![r] = "end"]
  /\ UNCHANGED <<clock, stored, quarantine, from, now, page, failed, dropped, lost, faults>>

(* A kill, or an exception of the database, which ends the whole run.      *)
Fail(r) ==
  /\ pc[r] \in {"window", "checked", "upserted"}
  /\ faults < MaxFaults
  /\ faults' = faults + 1
  /\ lost' = IF pc[r] = "upserted" THEN lost \cup TimesAt(page[r], Quarantined(page[r])) ELSE lost
  /\ page' = [page EXCEPT ![r] = <<>>]
  /\ pc' = [pc EXCEPT ![r] = "end"]
  /\ UNCHANGED <<clock, stored, quarantine, from, now, failed, dropped>>

RunStep(r) == Fetch(r) \/ UpsertBars(r) \/ WriteQuarantine(r) \/ EndSeries(r)

IngestNext ==
  \E r \in Runs : StartSeries(r) \/ RunStep(r) \/ SkipWindow(r) \/ Fail(r)

IngestSpec == IngestInit /\ [][IngestNext]_ingestVars

(***************************************************************************)
(* Properties                                                              *)
(***************************************************************************)

(* Whatever page comes, the clean bars have one row per key: the database  *)
(* refuses an upsert that meets a row twice, which would end the run.      *)
OneRowPerKey ==
  \A r \in Runs : pc[r] = "checked" =>
    \A i, j \in Ok(page[r]) : page[r][i].time = page[r][j].time => i = j

(* Of these bars the database has a row, or a run is about to write one.   *)
OnRecord ==
  stored \cup quarantine \cup
  UNION {TimesAt(page[r], Quarantined(page[r])) : r \in {r \in Runs : pc[r] = "upserted"}}

(* The three ways to pass over a bar.  Nothing in the database tells of    *)
(* any of them: a failed window is a number in the run's manifest, if the  *)
(* run lives to write it, and an unusable candle and a bar that a fault    *)
(* kept out of the quarantine are nowhere.  Only these histories have them.*)
PassedOver == failed \cup dropped \cup lost

(* The next run resumes behind the last row, so that nothing before it is  *)
(* ever fetched again.  What has no row there was passed over in one of    *)
(* the three ways and in no other, in whatever order runs overlap and die: *)
(* no step of another run, no resumed cursor and no order of a page adds a *)
(* fourth.                                                                 *)
GapsExplained == \A t \in Market : t < ResumeFrom => t \in OnRecord \cup PassedOver

(* A run comes to its end: whatever it was answered, it comes back to the  *)
(* head of its loop with a later from_ts, also if all bars of a page were  *)
(* quarantined and its end is still where it was in the table.             *)
EveryPageAdvances ==
  [][\A r \in Runs :
       pc'[r] = "window" /\ (pc[r] = "upserted" \/ from'[r] # from[r]) /\ pc[r] # "new" =>
         from'[r] > from[r]]_ingestVars

(***************************************************************************)
(* Said of the code, and not so                                            *)
(***************************************************************************)

(* Rows "are never silently dropped" (multi_timeframe_ingest.py:8, also    *)
(* dq.py:12): a bar that was fetched, before the point to resume from, has *)
(* a row in one of the two tables or is about to get one.  It need not: a  *)
(* complete candle without usable prices is left out without a trace (62,  *)
(* 218), and a run that dies between its two commits takes the bars it     *)
(* would have quarantined with it (224, 225).                              *)
NeverSilentlyDropped ==
  \A t \in Market \ failed : t < ResumeFrom => t \in OnRecord
=============================================================================
