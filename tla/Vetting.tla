------------------------------ MODULE Vetting ------------------------------
(***************************************************************************)
(* Attribution and vetting of strategies (src/system1/attribution,         *)
(* src/system1/vetting): what the cells of an attribution run come to in   *)
(* the table, which of them pass the gates, their ranks, their shares of   *)
(* the capital, and the two files and the registry that say so.            *)
(*                                                                         *)
(* A cell is one strategy in one regime on one granularity. Its metrics    *)
(* are whole numbers: profit factor, Sharpe and recovery in tenths, win    *)
(* rate and drawdown in percent; one that is infinite or not a number is   *)
(* Missing. A vetting is one of --live; a log-only one writes the same two *)
(* files elsewhere and is left out.                                        *)
(***************************************************************************)
EXTENDS Integers, Sequences, FiniteSets, FiniteSetsExt, SequencesExt

CONSTANTS
  Tables,      \* what an attribution run may find: sets of cells
  Attributors, \* processes of attribute.run
  Vetters,     \* processes of vet.run
  Regimes,     \* REGIMES
  NMin,        \* N_MIN
  Odds,        \* exp of a composite score, up to a factor
  Seats,       \* 1 / MIN_WEIGHT
  Missing,     \* no number, no rows, no file
  MaxRuns,     \* bound: attribution runs
  MaxEnds      \* bound: kills and failing writes

ASSUME VettingAssumption ==
  /\ NMin \in Nat /\ Seats \in Nat \ {0} /\ MaxRuns \in Nat /\ MaxEnds \in Nat
  /\ \A s \in DOMAIN Odds : Odds[s] \in Nat \ {0}
  /\ \A s, t \in DOMAIN Odds : s < t => Odds[s] < Odds[t]

VARIABLES
  stored,    \* fact_strategy_regime_attribution: per run its rows, or Missing
  begun,     \* the run of each attributor's open transaction, or Missing
  vetter,    \* vetter[v]: the run it has read, and what it does next
  map,       \* regime_strategy_map.json
  weights,   \* strategy_weights.json
  registry,  \* the strategies with is_qualified
  settled,   \* the last vetting to write was alone and came to its end
  ends       \* kills and failing writes so far

vetVars == <<stored, begun, vetter, map, weights, registry, settled, ends>>

(***************************************************************************)
(* The attribution                                                         *)
(***************************************************************************)
MaxSharpe == 100     \* MAX_PLAUSIBLE_SHARPE, in tenths
CAP == 1000          \* in tenths

Clip(x, bound) == Max({-bound, Min({bound, x})})

(* validate_metrics; a drawdown out of bounds cannot come about.           *)
Implausible(c) == c.sharpe # Missing /\ Clip(c.sharpe, MaxSharpe) # c.sharpe

(* compute_attribution refuses the whole run for one implausible cell with *)
(* enough trades; of a thin one the Sharpe is clipped.                     *)
Refuses(cells) == \E c \in cells : Implausible(c) /\ c.trades >= NMin

ComputeAttribution(cells) ==
  {[c EXCEPT !.sharpe = IF @ = Missing THEN Missing ELSE Clip(@, MaxSharpe)] : c \in cells}

(* bayesian_shrinkage: the cells whose metrics would have to be shrunk.    *)
LowConfidence(c) == c.trades < NMin

(***************************************************************************)
(* The gates                                                               *)
(***************************************************************************)
(* _load_cells: _cap of what was stored. Missing is what _persist_db       *)
(* stores for a number that is not finite.                                 *)
Cap(x) == IF x = Missing THEN 0 ELSE Clip(x, CAP)

Loaded(c) ==
  [c EXCEPT !.pf = Cap(@), !.sharpe = Cap(@), !.recovery = Cap(@)]

EvaluateGates(c) ==
  /\ ~LowConfidence(c)
  /\ c.pf >= 15 /\ c.sharpe >= 8 /\ c.drawdown <= 25
  /\ c.win >= 40 /\ c.recovery >= 30 /\ c.months >= 60

Passing(cells) == {c \in {Loaded(d) : d \in cells} : EvaluateGates(c)}

(* In hundredths.                                                          *)
CompositeScore(c) == 5 * c.sharpe + 3 * c.pf + 2 * c.recovery - c.drawdown

Before(c, d) ==
  \/ CompositeScore(c) > CompositeScore(d)
  \/ /\ CompositeScore(c) = CompositeScore(d)
     /\ \/ c.trades > d.trades
        \/ c.trades = d.trades /\ c.drawdown < d.drawdown

(* Cells that tie in all three keep the order the database gave them in,   *)
(* which is any.                                                           *)
RankCells(cells) ==
  CHOOSE ranked \in SetToSeqs(cells) :
    \A i, j \in DOMAIN ranked : i < j => ~Before(ranked[j], ranked[i])

(* A row of the table: numbers, or none for three of the metrics.          *)
Metric == Int \cup {Missing}
IsCell(c) ==
  c \in [strategy : {c.strategy}, name : {c.name}, granularity : {c.granularity},
         regime : {c.regime}, trades : Nat, win : Int, pf : Metric, sharpe : Metric,
         drawdown : Int, recovery : Metric, months : Int]

(* Every cell that may pass has odds.                                      *)
ASSUME TablesAssumption ==
  \A cells \in Tables :
    /\ IsFiniteSet(cells) /\ \A c \in cells : IsCell(c)
    /\ ~Refuses(cells) =>
         \A c \in Passing(ComputeAttribution(cells)) : CompositeScore(c) \in DOMAIN Odds

(***************************************************************************)
(* The shares                                                              *)
(***************************************************************************)
Total(w, is) == MapThenSumSet(LAMBDA i : w[i], is)

(* Everybody in pinned gets the floor of 1/seats, the others the rest in   *)
(* proportion; as parts of a whole.                                        *)
ShareOut(w, seats, pinned) ==
  LET base == Total(w, DOMAIN w \ pinned)
  IN  [parts |-> [i \in DOMAIN w |->
         IF i \in pinned THEN base ELSE (seats - Cardinality(pinned)) * w[i]],
       whole |-> seats * base]

Starved(w, seats, pinned) ==
  {i \in DOMAIN w \ pinned :
     (seats - Cardinality(pinned)) * w[i] < Total(w, DOMAIN w \ pinned)}

\* Mutant: who falls below once the others are pinned stays there.
PinnedAtOnce(w, seats) == Starved(w, seats, {})

(* Whoever would get less than the floor is pinned to it, until nobody     *)
(* else falls below.                                                       *)
Pinned(w, seats) ==
  LET after[k \in 0..Len(w)] ==
        IF k = 0 THEN {} ELSE after[k - 1] \cup Starved(w, seats, after[k - 1])
  IN  after[Len(w)]

(* _apply_floor                                                            *)
ApplyFloor(w, seats) == ShareOut(w, seats, Pinned(w, seats))

Variant(c) == <<c.name, c.granularity>>

(* normalized_weights: the floor is at most an equal share. A dictionary,  *)
(* in which a later cell of the same variant takes the earlier one's key.  *)
NormalizedWeights(ranked) ==
  LET w == [i \in DOMAIN ranked |-> Odds[CompositeScore(ranked[i])]]
      shares == ApplyFloor(w, Max({Seats, Len(ranked)}))
      keys == {Variant(ranked[i]) : i \in DOMAIN ranked}
      last(k) == Max({i \in DOMAIN ranked : Variant(ranked[i]) = k})
  IN  [of |-> [k \in keys |-> shares.parts[last(k)]], whole |-> shares.whole]

WeightsNormalized(share) == Total(share.of, DOMAIN share.of) = share.whole

(***************************************************************************)
(* build: the map and the weights of a run. It raises if a cell of no      *)
(* known regime (UNKNOWN) passes, or if the weights do not sum to one.     *)
(***************************************************************************)
InRegime(cells, r) == {c \in Passing(cells) : c.regime = r}
Ranked(cells) == [r \in {c.regime : c \in Passing(cells)} |-> RankCells(InRegime(cells, r))]
Shares(cells) == [r \in DOMAIN Ranked(cells) |-> NormalizedWeights(Ranked(cells)[r])]

Builds(cells) ==
  /\ DOMAIN Ranked(cells) \subseteq Regimes
  /\ \A r \in DOMAIN Shares(cells) : WeightsNormalized(Shares(cells)[r])

Qualified(cells) == {c.strategy : c \in Passing(cells)}

(***************************************************************************)
(* attribute.run: the rows go in by one transaction, whose start is their  *)
(* created_at                                                              *)
(***************************************************************************)
NotVetting == [at |-> "idle", run |-> 0, alone |-> TRUE]

VetInit ==
  /\ stored = <<>>
  /\ begun = [a \in Attributors |-> Missing]
  /\ vetter = [v \in Vetters |-> NotVetting]
  /\ map = Missing /\ weights = Missing /\ registry = {}
  /\ settled = FALSE
  /\ ends = 0

PersistDb(a) ==
  /\ begun[a] = Missing /\ Len(stored) < MaxRuns
  /\ begun' = [begun EXCEPT ![a] = Len(stored) + 1]
  /\ stored' = Append(stored, Missing)
  /\ UNCHANGED <<vetter, map, weights, registry, settled, ends>>

Commit(a) ==
  /\ begun[a] # Missing
  /\ \E cells \in Tables :
       /\ ~Refuses(cells)
       /\ stored' = [stored EXCEPT ![begun[a]] = ComputeAttribution(cells)]
  /\ begun' = [begun EXCEPT ![a] = Missing]
  /\ UNCHANGED <<vetter, map, weights, registry, settled, ends>>

(***************************************************************************)
(* vet.run                                                                 *)
(***************************************************************************)
Committed == {r \in DOMAIN stored : stored[r] # Missing}

(* Without any run the map is empty, and is written.                       *)
Latest == IF Committed = {} THEN 0 ELSE Max(Committed)
CellsOf(run) == IF run = 0 THEN {} ELSE stored[run]

(* The run is read, built and validated. One that raises writes nothing.   *)
Build(v) ==
  /\ vetter[v].at = "idle"
  /\ Builds(CellsOf(Latest))
  /\ LET others == {u \in Vetters : vetter[u].at # "idle"}
     IN  vetter' = [u \in Vetters |->
           IF u = v THEN [at |-> "map", run |-> Latest, alone |-> others = {}]
           ELSE IF u \in others THEN [vetter[u] EXCEPT !.alone = FALSE]
           ELSE vetter[u]]
  /\ UNCHANGED <<stored, begun, map, weights, registry, settled, ends>>

WriteMap(v) ==
  /\ vetter[v].at = "map"
  /\ map' = [run |-> vetter[v].run, regimes |-> Ranked(CellsOf(vetter[v].run))]
  /\ settled' = FALSE
  /\ vetter' = [vetter EXCEPT ![v].at = "weights"]
  /\ UNCHANGED <<stored, begun, weights, registry, ends>>

WriteWeights(v) ==
  /\ vetter[v].at = "weights"
  /\ weights' = [run |-> vetter[v].run, regimes |-> Shares(CellsOf(vetter[v].run))]
  /\ vetter' = [vetter EXCEPT ![v].at = "registry"]
  /\ UNCHANGED <<stored, begun, map, registry, settled, ends>>

(* _update_registry: off for all, on for those in the map, in one          *)
(* transaction.                                                            *)
UpdateRegistry(v) ==
  /\ vetter[v].at = "registry"
  /\ registry' = Qualified(CellsOf(vetter[v].run))
  /\ settled' = vetter[v].alone
  /\ vetter' = [vetter EXCEPT ![v] = NotVetting]
  /\ UNCHANGED <<stored, begun, map, weights, ends>>

(* A kill, a full disk, a database that is gone.                           *)
EndEarly(v) ==
  /\ vetter[v].at # "idle" /\ ends < MaxEnds
  /\ vetter' = [vetter EXCEPT ![v] = NotVetting]
  /\ ends' = ends + 1
  /\ UNCHANGED <<stored, begun, map, weights, registry, settled>>

VetNext ==
  \/ \E a \in Attributors : PersistDb(a) \/ Commit(a)
  \/ \E v \in Vetters : Build(v) \/ WriteMap(v) \/ WriteWeights(v)
                        \/ UpdateRegistry(v) \/ EndEarly(v)

VetSpec == VetInit /\ [][VetNext]_vetVars

-----------------------------------------------------------------------------
(***************************************************************************)
(* Properties                                                              *)
(***************************************************************************)
VetTypeOK ==
  /\ \A r \in DOMAIN stored : stored[r] = Missing \/ ~Refuses(stored[r])
  /\ \A a \in Attributors : begun[a] = Missing \/ begun[a] \in 1..MaxRuns
  /\ \A v \in Vetters : vetter[v].at \in {"idle", "map", "weights", "registry"}
  /\ ends \in 0..MaxEnds

(* The reference for the shares of a regime: they sum to one; everybody    *)
(* has the floor; whoever has more has it in proportion to the odds, and   *)
(* nobody is held at the floor whose proportion is more.                   *)
FairlyShared(ranked, share) ==
  LET seats == Max({Seats, Len(ranked)})
      part(i) == share.of[Variant(ranked[i])]
      odds(i) == Odds[CompositeScore(ranked[i])]
  IN  /\ DOMAIN share.of = {Variant(ranked[i]) : i \in DOMAIN ranked}
      /\ share.whole > 0 /\ Total(share.of, DOMAIN share.of) = share.whole
      /\ \A i \in DOMAIN ranked : seats * part(i) >= share.whole
      /\ \A i, j \in DOMAIN ranked :
           seats * part(i) > share.whole => part(i) * odds(j) <= part(j) * odds(i)

(* What is traded on: a strategy is in the map only with enough trades out *)
(* of sample, a known regime and all gates passed, each in a place and     *)
(* with a share that agree with its score and nobody starved; and once a   *)
(* vetting has ended that no other one met, the map, the weights and the   *)
(* registry tell of one run, whatever was cut short before it.             *)
AllocationSound ==
  /\ map # Missing => \A r \in DOMAIN map.regimes :
       /\ r \in Regimes
       /\ \A i \in DOMAIN map.regimes[r] :
            /\ map.regimes[r][i].trades >= NMin /\ EvaluateGates(map.regimes[r][i])
            /\ i > 1 => CompositeScore(map.regimes[r][i]) <= CompositeScore(map.regimes[r][i - 1])
  /\ (map # Missing /\ weights # Missing /\ map.run = weights.run) =>
       /\ DOMAIN map.regimes = DOMAIN weights.regimes
       /\ \A r \in DOMAIN map.regimes : FairlyShared(map.regimes[r], weights.regimes[r])
  /\ settled =>
       /\ map.run = weights.run
       /\ registry = {c.strategy : c \in UNION {Range(map.regimes[r]) : r \in DOMAIN map.regimes}}

-----------------------------------------------------------------------------
(* Said of the code, and not so: TLC refutes each (README.md).             *)

(* "cap unbounded ratios (inf PF/recovery, huge Sharpe) for ranking/JSON"  *)
(* (vet.py:34): a cell without a loss has a place in the ranking. It is    *)
(* stored as NULL, read as 0, and fails the gate.                          *)
UnboundedRanks ==
  \A r \in Committed : \A c \in stored[r] :
    /\ c.pf = Missing /\ c.recovery = Missing
    /\ EvaluateGates([c EXCEPT !.pf = CAP, !.recovery = CAP, !.sharpe = Cap(@)])
    => EvaluateGates(Loaded(c))
=============================================================================
