--------------------------- MODULE ChampionBundle ---------------------------
(***************************************************************************)
(* Training of the gatekeeper (src/system1/gatekeeper/train.py) and the    *)
(* promotion of what it trained (promote.py): three files, each staged and *)
(* put in place with an os.replace of its own.                             *)
(*                                                                         *)
(* A trainer is one call of train.run: the scheduler makes dry ones, which *)
(* write the proposed bundle, the command line both kinds, beside them.    *)
(* A file is taken for whoever wrote it, and so is its hash.               *)
(***************************************************************************)
EXTENDS Integers, FiniteSets

CONSTANTS Trainers,   \* calls of train.run
          Sizes,      \* numbers of trades in the training frame
          Earlier,    \* who wrote the bundle that is there at the start
          None,
          MaxFaults   \* bound: kills and failing writes

ASSUME EarlierIsNobody == Earlier \notin Trainers /\ None \notin Trainers /\ None # Earlier
ASSUME ChampionBounds == Sizes \subseteq Nat /\ MaxFaults \in Nat

NFolds == 5
Writers == Trainers \cup {Earlier}
Namespaces == {"champion", "proposed_champion"}

(* What the walk-forward folds found: approved and rejected out-of-sample  *)
(* trades, and the fold the thresholds are from (0: no fold ran).          *)
Evidence == [approved : Nat, rejected : Nat, thresholds : 0..NFolds]
Manifest == [by : Writers, model : Writers, pre : Writers, found : Evidence]
Bundle == [model : Writers \cup {None}, pre : Writers \cup {None},
           manifest : Manifest \cup {None}]

VARIABLES
  file,      \* file[ns]: the three files of a namespace
  pc,        \* pc[t]: where trainer t is
  dry,       \* dry[t]: its --dry-run
  found,     \* found[t]: what its folds found
  sha,       \* sha[t]: the hashes it has taken
  overlap,   \* namespaces in which two promotions overlapped (history)
  faults     \* faults so far

vars == <<file, pc, dry, found, sha, overlap, faults>>

Writing == {"hash_model", "pre", "hash_pre", "manifest"}  \* has replaced a file
Promoting == Writing \cup {"model"}
Nothing == [approved |-> 0, rejected |-> 0, thresholds |-> 0]

TypeOK ==
  /\ file \in [Namespaces -> Bundle]
  /\ pc \in [Trainers -> Promoting \cup {"new", "frame", "end"}]
  /\ dry \in [Trainers -> BOOLEAN]
  /\ found \in [Trainers -> Evidence]
  /\ sha \in [Trainers -> [model : Writers \cup {None}, pre : Writers \cup {None}]]
  /\ \A t \in Trainers :
       /\ pc[t] \in {"pre", "hash_pre", "manifest"} => sha[t].model # None
       /\ pc[t] = "manifest" => sha[t].pre # None
  /\ overlap \subseteq Namespaces
  /\ faults \in 0..MaxFaults

NoBundle == [model |-> None, pre |-> None, manifest |-> None]
EarlierBundle ==
  [model |-> Earlier, pre |-> Earlier,
   manifest |-> [by |-> Earlier, model |-> Earlier, pre |-> Earlier,
                 found |-> [approved |-> 1, rejected |-> 1, thresholds |-> NFolds]]]

Init ==
  /\ file \in [Namespaces -> {NoBundle, EarlierBundle}]
  /\ pc = [t \in Trainers |-> "new"]
  /\ dry = [t \in Trainers |-> TRUE]
  /\ found = [t \in Trainers |-> Nothing]
  /\ sha = [t \in Trainers |-> [model |-> None, pre |-> None]]
  /\ overlap = {}
  /\ faults = 0

(***************************************************************************)
(* Training                                                                *)
(***************************************************************************)
Start(t) ==
  /\ pc[t] = "new"
  /\ \E d \in BOOLEAN : dry' = [dry EXCEPT ![t] = d]
  /\ pc' = [pc EXCEPT ![t] = "frame"]
  /\ UNCHANGED <<file, found, sha, overlap, faults>>

(* np.array_split in NFolds + 1 blocks: the first ones are one longer.     *)
BlockSize(n, b) == n \div (NFolds + 1) + (IF b < n % (NFolds + 1) THEN 1 ELSE 0)
TrainSize(n, i) ==
  LET whole == n \div (NFolds + 1)
      extra == n % (NFolds + 1)
  IN  i * whole + (IF i < extra THEN i ELSE extra)

(* Fold i trains on 4/5 of the blocks before it, validates on the rest and *)
(* is skipped if one of the parts is too short.                            *)
FoldRuns(n, i) ==
  LET cut == (8 * TrainSize(n, i)) \div 10
  IN  /\ cut >= 200
      /\ TrainSize(n, i) - cut >= 50
      /\ BlockSize(n, i) >= 50

FoldsRun(n) == {i \in 1..NFolds : FoldRuns(n, i)}

(* What a frame of n trades may lead to: of the trades in the blocks of    *)
(* the folds that ran, none, one in twenty, one in two or all approved.    *)
WalkForward(n) ==
  LET folds == FoldsRun(n)
      part(i) == IF i \in folds THEN BlockSize(n, i) ELSE 0
      seen == part(1) + part(2) + part(3) + part(4) + part(5)
  IN  {[approved   |-> a,
        rejected   |-> seen - a,
        thresholds |-> IF folds = {} THEN 0
                       ELSE CHOOSE i \in folds : \A j \in folds : j <= i] :
         a \in {0, seen \div 20, (seen + 19) \div 20, seen \div 2, seen}}

(* Mutant: no out-of-sample trade at all is let pass.                      *)
DegenerateIfAny(e) ==
  LET all == e.approved + e.rejected
  IN  all > 0 /\ (100 * e.approved < 5 * all \/ 100 * e.approved > 60 * all)

(* is_degenerate of the approval rate, which is 0 without trades.          *)
Degenerate(e) ==
  LET all == e.approved + e.rejected
  IN  all = 0 \/ 100 * e.approved < 5 * all \/ 100 * e.approved > 60 * all

(* The frame is built, the folds run, the rate is checked and the final    *)
(* model fitted on all of the frame: nothing is written so far.            *)
Train(t) ==
  /\ pc[t] = "frame"
  /\ \E n \in Sizes : \E e \in WalkForward(n) :
       /\ found' = [found EXCEPT ![t] = e]
       /\ pc' = [pc EXCEPT ![t] = IF Degenerate(e) THEN "end" ELSE "model"]
  /\ UNCHANGED <<file, dry, sha, overlap, faults>>

(***************************************************************************)
(* Promotion                                                               *)
(***************************************************************************)
Space(t) == IF dry[t] THEN "proposed_champion" ELSE "champion"

Others(t) == {u \in Trainers \ {t} : pc[u] \in Writing /\ dry[u] = dry[t]}

ReplaceModel(t) ==
  /\ pc[t] = "model"
  /\ file' = [file EXCEPT ![Space(t)].model = t]
  /\ overlap' = IF Others(t) = {} THEN overlap ELSE overlap \cup {Space(t)}
  /\ pc' = [pc EXCEPT ![t] = "hash_model"]
  /\ UNCHANGED <<dry, found, sha, faults>>

(* The hash is taken of the file in place, not of what was staged.         *)
HashModel(t) ==
  /\ pc[t] = "hash_model"
  /\ sha' = [sha EXCEPT ![t].model = file[Space(t)].model]
  /\ pc' = [pc EXCEPT ![t] = "pre"]
  /\ UNCHANGED <<file, dry, found, overlap, faults>>

ReplacePreprocessor(t) ==
  /\ pc[t] = "pre"
  /\ file' = [file EXCEPT ![Space(t)].pre = t]
  /\ pc' = [pc EXCEPT ![t] = "hash_pre"]
  /\ UNCHANGED <<dry, found, sha, overlap, faults>>

(* Mutant: the manifest gets the hash of the preprocessor it replaced.     *)
HashPreprocessorTooEarly(t) ==
  /\ pc[t] = "hash_pre"
  /\ sha' = [sha EXCEPT ![t].pre =
       IF file[Space(t)].manifest = None THEN t ELSE file[Space(t)].manifest.pre]
  /\ pc' = [pc EXCEPT ![t] = "manifest"]
  /\ UNCHANGED <<file, dry, found, overlap, faults>>

HashPreprocessor(t) ==
  /\ pc[t] = "hash_pre"
  /\ sha' = [sha EXCEPT ![t].pre = file[Space(t)].pre]
  /\ pc' = [pc EXCEPT ![t] = "manifest"]
  /\ UNCHANGED <<file, dry, found, overlap, faults>>

ReplaceManifest(t) ==
  /\ pc[t] = "manifest"
  /\ file' = [file EXCEPT ![Space(t)].manifest =
                [by |-> t, model |-> sha[t].model, pre |-> sha[t].pre, found |-> found[t]]]
  /\ pc' = [pc EXCEPT ![t] = "end"]
  /\ UNCHANGED <<dry, found, sha, overlap, faults>>

(* The process is killed, or a write raises: the staged file is removed,   *)
(* the files that are in place stay, and nothing goes on.                  *)
Fail(t) ==
  /\ pc[t] \in Promoting
  /\ faults < MaxFaults
  /\ faults' = faults + 1
  /\ pc' = [pc EXCEPT ![t] = "end"]
  /\ UNCHANGED <<file, dry, found, sha, overlap>>

Next ==
  \E t \in Trainers :
    \/ Start(t) \/ Train(t)
    \/ ReplaceModel(t) \/ HashModel(t) \/ ReplacePreprocessor(t)
    \/ HashPreprocessor(t) \/ ReplaceManifest(t) \/ Fail(t)

Spec == Init /\ [][Next]_vars

(***************************************************************************)
(* Properties                                                              *)
(***************************************************************************)
HashesFit(b) == b.manifest # None /\ b.model = b.manifest.model /\ b.pre = b.manifest.pre
Whole(b) == b.manifest # None /\ b.model = b.manifest.by /\ b.pre = b.manifest.by

(* At every moment, also while a promotion is at work, the hashes in the   *)
(* manifest tell a bundle of one training from one that is being replaced  *)
(* or that a kill or a failed write left behind, as long as no two         *)
(* promotions into one namespace have overlapped.                          *)
HashesTellTorn ==
  \A ns \in Namespaces \ overlap : HashesFit(file[ns]) <=> Whole(file[ns])

(* Dry runs leave the champion alone, and only a training whose folds ran, *)
(* gave thresholds and approved between 5 % and 60 % of the out-of-sample  *)
(* trades leaves a file in either bundle.                                  *)
BundleIsEarned ==
  \A ns \in Namespaces, t \in Trainers :
    t \in {file[ns].model, file[ns].pre} =>
      /\ Space(t) = ns
      /\ found[t].thresholds \in 1..NFolds
      /\ LET all == found[t].approved + found[t].rejected
         IN  20 * found[t].approved >= all /\ 5 * found[t].approved <= 3 * all

(***************************************************************************)
(* Said of the code, and not so: TLC refutes each of these (README.md).     *)
(***************************************************************************)

Idle(ns) == \A t \in Trainers : pc[t] \in Writing => Space(t) # ns

(* promote.py: a crash mid-write can never leave a torn champion bundle.   *)
NeverTorn ==
  \A ns \in Namespaces \ overlap :
    Idle(ns) /\ file[ns].model # None => Whole(file[ns])
=============================================================================
