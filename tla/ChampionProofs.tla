--------------------------- MODULE ChampionProofs ---------------------------
(***************************************************************************)
(* Theorems about what the layers hand to the live system: ChampionBundle, *)
(* for every set of trainers, every frame size and every number of faults; *)
(* Attribution, for every history, fold design, set of loaders and         *)
(* entries; and Vetting, for any tables, odds, seats, attributors and      *)
(* vetters.                                                                *)
(***************************************************************************)
EXTENDS ChampionBundle, Attribution, Vetting, FiniteSetTheorems, FunctionTheorems,
        WellFoundedInduction, SequenceTheorems, TLAPS

(***************************************************************************)
(* The walk-forward and its verdict                                        *)
(***************************************************************************)

(* The evidence of a training the degeneracy check lets pass.              *)
Sound(e) ==
  LET all == e.approved + e.rejected
  IN  e.thresholds \in 1..NFolds /\ 20 * e.approved >= all /\ 5 * e.approved <= 3 * all

(* A block has a natural number of trades.                                 *)
LEMMA BlockSizeType ==
  ASSUME NEW n \in Nat, NEW b \in Nat
  PROVE  BlockSize(n, b) \in Nat
BY DEF BlockSize, NFolds

(* The last of some folds is one of them.                                  *)
LEMMA LastFold ==
  ASSUME NEW folds \in SUBSET (1..NFolds), folds # {}
  PROVE  (CHOOSE f \in folds : \A g \in folds : g <= f) \in 1..NFolds
<1>1. \E f \in folds : \A g \in folds : g <= f
  <2>1. CASE 5 \in folds BY <2>1 DEF NFolds
  <2>2. CASE 5 \notin folds /\ 4 \in folds BY <2>2 DEF NFolds
  <2>3. CASE 5 \notin folds /\ 4 \notin folds /\ 3 \in folds BY <2>3 DEF NFolds
  <2>4. CASE 5 \notin folds /\ 4 \notin folds /\ 3 \notin folds /\ 2 \in folds
    BY <2>4 DEF NFolds
  <2>5. CASE 5 \notin folds /\ 4 \notin folds /\ 3 \notin folds /\ 2 \notin folds
    <3>1. PICK f \in folds : TRUE
      OBVIOUS
    <3>2. \A g \in folds : g = 1
      BY <2>5 DEF NFolds
    <3> QED BY <3>1, <3>2
  <2> QED BY <2>1, <2>2, <2>3, <2>4, <2>5
<1> QED BY <1>1

(* The evidence of a walk-forward is well typed, and sound unless the      *)
(* check calls it degenerate: without a fold there is no trade to count.   *)
LEMMA WalkForwardEvidence ==
  ASSUME NEW n \in Nat, NEW e \in WalkForward(n)
  PROVE  e \in Evidence /\ (~Degenerate(e) => Sound(e))
<1> DEFINE folds == FoldsRun(n)
           part(i) == IF i \in folds THEN BlockSize(n, i) ELSE 0
           seen == part(1) + part(2) + part(3) + part(4) + part(5)
           latest == IF folds = {} THEN 0
                     ELSE CHOOSE i \in folds : \A j \in folds : j <= i
<1>1. folds \subseteq 1..NFolds
  BY DEF FoldsRun
<1>2. seen \in Nat /\ (folds = {} => seen = 0)
  <2>1. \A i \in Nat : part(i) \in Nat
    BY BlockSizeType
  <2>2. \A i : folds = {} => part(i) = 0
    OBVIOUS
  <2>3. folds = {} => part(1) = 0 /\ part(2) = 0 /\ part(3) = 0 /\ part(4) = 0 /\ part(5) = 0
    BY <2>2
  <2> HIDE DEF part
  <2> QED BY <2>1, <2>3
<1>3. latest \in 0..NFolds /\ (folds # {} => latest \in 1..NFolds)
  BY <1>1, LastFold DEF NFolds
<1>4. PICK a \in {0, seen \div 20, (seen + 19) \div 20, seen \div 2, seen} :
        e = [approved |-> a, rejected |-> seen - a, thresholds |-> latest]
  BY DEF WalkForward
<1> HIDE DEF seen, latest, folds
<1>5. a \in 0..seen
  BY <1>2, <1>4
<1>6. e \in Evidence
  BY <1>2, <1>3, <1>4, <1>5 DEF Evidence
<1>7. ASSUME ~Degenerate(e) PROVE Sound(e)
  <2>1. e.approved = a /\ e.rejected = seen - a /\ e.thresholds = latest
    BY <1>4
  <2>2. seen # 0 /\ 100 * a >= 5 * seen /\ 100 * a <= 60 * seen
    BY <1>7, <2>1, <1>2, <1>5 DEF Degenerate
  <2> QED BY <2>1, <2>2, <1>2, <1>3, <1>5 DEF Sound
<1> QED BY <1>6, <1>7

(***************************************************************************)
(* Types                                                                   *)
(***************************************************************************)

(* What a promotion has replaced is there until it ends.                   *)
Present ==
  \A t \in Trainers :
    /\ pc[t] \in Writing => file[Space(t)].model \in Writers
    /\ pc[t] \in {"hash_pre", "manifest"} => file[Space(t)].pre \in Writers

TypeInv == TypeOK /\ Present

LEMMA TypeInitial == Init => TypeInv
BY ChampionBounds, EarlierIsNobody
   DEF Init, TypeInv, TypeOK, Present, NoBundle, EarlierBundle, Bundle, Manifest, Writers,
       Evidence, Nothing, Promoting, Writing, NFolds, Namespaces

LEMMA TypeStep == TypeInv /\ [Next]_vars => TypeInv'
<1> SUFFICES ASSUME TypeInv, [Next]_vars PROVE TypeInv'
  OBVIOUS
<1> USE EarlierIsNobody, ChampionBounds DEF TypeInv, TypeOK, Present, Promoting, Writing, Space
<1>1. ASSUME NEW t \in Trainers, Start(t) PROVE TypeInv'
  BY <1>1 DEF Start
<1>2. ASSUME NEW t \in Trainers, Train(t) PROVE TypeInv'
  <2>0. PICK n \in Sizes : \E e \in WalkForward(n) :
          /\ found' = [found EXCEPT ![t] = e]
          /\ pc' = [pc EXCEPT ![t] = IF Degenerate(e) THEN "end" ELSE "model"]
    BY <1>2 DEF Train
  <2>1. PICK e \in WalkForward(n) :
          /\ found' = [found EXCEPT ![t] = e]
          /\ pc' = [pc EXCEPT ![t] = IF Degenerate(e) THEN "end" ELSE "model"]
    BY <2>0
  <2>2. e \in Evidence
    BY <2>1, WalkForwardEvidence
  <2> QED BY <1>2, <2>1, <2>2 DEF Train
<1>3. ASSUME NEW t \in Trainers, ReplaceModel(t) PROVE TypeInv'
  BY <1>3 DEF ReplaceModel, Namespaces, Bundle, Writers
<1>4. ASSUME NEW t \in Trainers, HashModel(t) \/ HashPreprocessor(t) PROVE TypeInv'
  <2>1. CASE HashModel(t)
    BY <2>1, SMTT(20) DEF HashModel, Namespaces, Bundle, Writers
  <2>2. CASE HashPreprocessor(t)
    BY <2>2, SMTT(20) DEF HashPreprocessor, Namespaces, Bundle, Writers
  <2> QED BY <1>4, <2>1, <2>2
<1>5. ASSUME NEW t \in Trainers, ReplacePreprocessor(t) PROVE TypeInv'
  BY <1>5 DEF ReplacePreprocessor, Namespaces, Bundle, Writers
<1>6. ASSUME NEW t \in Trainers, ReplaceManifest(t) PROVE TypeInv'
  BY <1>6 DEF ReplaceManifest, Namespaces, Bundle, Manifest, Writers
<1>7. ASSUME NEW t \in Trainers, Fail(t) PROVE TypeInv'
  BY <1>7 DEF Fail
<1>8. CASE UNCHANGED vars
  BY <1>8 DEF vars
<1> QED BY <1>1, <1>2, <1>3, <1>4, <1>5, <1>6, <1>7, <1>8 DEF Next

(* Every reachable state is well typed, for any trainers, frames and       *)
(* faults (the state of train.run and of the six files it replaces).       *)
THEOREM TypeCorrect == Spec => []TypeOK
<1>1. TypeInv => TypeOK
  BY DEF TypeInv
<1> QED BY TypeInitial, TypeStep, <1>1, PTL DEF Spec

(***************************************************************************)
(* What gets into a bundle                                                 *)
(***************************************************************************)

(* Whoever may write has sound evidence, and whoever has written a model   *)
(* or a preprocessor had it, in the namespace its --dry-run says.          *)
Earned ==
  /\ \A t \in Trainers : pc[t] \in Promoting => Sound(found[t])
  /\ \A ns \in Namespaces, t \in Trainers :
       t \in {file[ns].model, file[ns].pre} =>
         pc[t] \notin {"new", "frame"} /\ Space(t) = ns /\ Sound(found[t])

EarnedInv == TypeInv /\ Earned

LEMMA EarnedInitial == Init => EarnedInv
<1> SUFFICES ASSUME Init PROVE Earned
  BY TypeInitial DEF EarnedInv
<1> QED BY EarlierIsNobody DEF Init, Earned, NoBundle, EarlierBundle, Promoting, Writing

LEMMA EarnedStep == EarnedInv /\ [Next]_vars => EarnedInv'
<1> SUFFICES ASSUME EarnedInv, [Next]_vars PROVE Earned'
  BY TypeStep DEF EarnedInv
<1> USE EarlierIsNobody DEF EarnedInv, TypeInv, TypeOK, Earned, Promoting, Writing, Space
<1>1. ASSUME NEW t \in Trainers, Start(t) PROVE Earned'
  BY <1>1 DEF Start
<1>2. ASSUME NEW t \in Trainers, Train(t) PROVE Earned'
  <2>1. PICK n \in Sizes : \E e \in WalkForward(n) :
          /\ found' = [found EXCEPT ![t] = e]
          /\ pc' = [pc EXCEPT ![t] = IF Degenerate(e) THEN "end" ELSE "model"]
    BY <1>2 DEF Train
  <2>2. PICK e \in WalkForward(n) :
          /\ found' = [found EXCEPT ![t] = e]
          /\ pc' = [pc EXCEPT ![t] = IF Degenerate(e) THEN "end" ELSE "model"]
    BY <2>1
  <2>3. ~Degenerate(e) => Sound(e)
    BY <2>2, WalkForwardEvidence, ChampionBounds
  <2> QED BY <1>2, <2>2, <2>3 DEF Train
<1>3. ASSUME NEW t \in Trainers, ReplaceModel(t) PROVE Earned'
  BY <1>3 DEF ReplaceModel, Bundle, Namespaces
<1>4. ASSUME NEW t \in Trainers, HashModel(t) \/ HashPreprocessor(t) PROVE Earned'
  BY <1>4 DEF HashModel, HashPreprocessor
<1>5. ASSUME NEW t \in Trainers, ReplacePreprocessor(t) PROVE Earned'
  BY <1>5 DEF ReplacePreprocessor, Bundle, Namespaces
<1>6. ASSUME NEW t \in Trainers, ReplaceManifest(t) PROVE Earned'
  BY <1>6 DEF ReplaceManifest, Bundle, Namespaces
<1>7. ASSUME NEW t \in Trainers, Fail(t) PROVE Earned'
  BY <1>7 DEF Fail
<1>8. CASE UNCHANGED vars
  BY <1>8 DEF vars
<1> QED BY <1>1, <1>2, <1>3, <1>4, <1>5, <1>6, <1>7, <1>8 DEF Next

(* Only a training that passed the degeneracy check leaves a file in a     *)
(* bundle, and a dry one none in the champion's (train.run, promote.py).   *)
THEOREM BundlesAreEarned == Spec => []BundleIsEarned
<1>1. EarnedInv => BundleIsEarned
  BY DEF EarnedInv, Earned, BundleIsEarned, Sound
<1> QED BY EarnedInitial, EarnedStep, <1>1, PTL DEF Spec

(***************************************************************************)
(* What the hashes tell                                                    *)
(***************************************************************************)

(* t is at work on the files of ns.                                        *)
WritesTo(t, ns) == pc[t] \in Writing /\ Space(t) = ns

(* Where promotions have not overlapped there is one at most at work, the  *)
(* files it has replaced and their hashes are its own, and the manifest is *)
(* of one training.                                                        *)
SoleWriter ==
  \A ns \in Namespaces \ overlap :
    /\ \A t, u \in Trainers : WritesTo(t, ns) /\ WritesTo(u, ns) => t = u
    /\ \A t \in Trainers : WritesTo(t, ns) =>
         /\ file[ns].model = t
         /\ pc[t] \in {"pre", "hash_pre", "manifest"} => sha[t].model = t
         /\ pc[t] \in {"hash_pre", "manifest"} => file[ns].pre = t
         /\ pc[t] = "manifest" => sha[t].pre = t
    /\ file[ns].manifest # None =>
         /\ file[ns].manifest.model = file[ns].manifest.by
         /\ file[ns].manifest.pre = file[ns].manifest.by

HashInv == TypeInv /\ SoleWriter

LEMMA HashInitial == Init => HashInv
<1> SUFFICES ASSUME Init PROVE SoleWriter
  BY TypeInitial DEF HashInv
<1> QED BY EarlierIsNobody DEF Init, SoleWriter, WritesTo, NoBundle, EarlierBundle, Writing

LEMMA HashStep == HashInv /\ [Next]_vars => HashInv'
<1> SUFFICES ASSUME HashInv, [Next]_vars PROVE SoleWriter'
  BY TypeStep DEF HashInv
<1> USE EarlierIsNobody
    DEF HashInv, TypeInv, TypeOK, SoleWriter, WritesTo, Promoting, Writing, Space
<1>1. ASSUME NEW t \in Trainers, Start(t) PROVE SoleWriter'
  BY <1>1 DEF Start
<1>2. ASSUME NEW t \in Trainers, Train(t) PROVE SoleWriter'
  BY <1>2 DEF Train
<1>3. ASSUME NEW t \in Trainers, ReplaceModel(t) PROVE SoleWriter'
  BY <1>3 DEF ReplaceModel, Others, Bundle, Namespaces
<1>4. ASSUME NEW t \in Trainers, HashModel(t) PROVE SoleWriter'
  BY <1>4 DEF HashModel
<1>5. ASSUME NEW t \in Trainers, ReplacePreprocessor(t) PROVE SoleWriter'
  BY <1>5 DEF ReplacePreprocessor, Bundle, Namespaces
<1>6. ASSUME NEW t \in Trainers, HashPreprocessor(t) PROVE SoleWriter'
  BY <1>6 DEF HashPreprocessor
<1>7. ASSUME NEW t \in Trainers, ReplaceManifest(t) PROVE SoleWriter'
  BY <1>7 DEF ReplaceManifest, Bundle, Namespaces
<1>8. ASSUME NEW t \in Trainers, Fail(t) PROVE SoleWriter'
  BY <1>8 DEF Fail
<1>9. CASE UNCHANGED vars
  BY <1>9 DEF vars
<1> QED BY <1>1, <1>2, <1>3, <1>4, <1>5, <1>6, <1>7, <1>8, <1>9 DEF Next

(* Where promotions do not overlap, the hashes of the manifest fit exactly *)
(* if the three files are of one training, whatever was killed when.       *)
THEOREM HashesTell == Spec => []HashesTellTorn
<1>1. HashInv => HashesTellTorn
  BY EarlierIsNobody
     DEF HashInv, TypeInv, TypeOK, SoleWriter, HashesTellTorn, HashesFit, Whole, Bundle
<1> QED BY HashInitial, HashStep, <1>1, PTL DEF Spec

-----------------------------------------------------------------------------
(***************************************************************************)
(* The research tables (Attribution), for any bars, folds, entries, labels *)
(* and loaders.                                                            *)
(***************************************************************************)
(* What WalkForward and Attribution assume.                                *)
LEMMA TablesParameters ==
  /\ MinTrain \in Nat
  /\ Step \in Nat \ {0}
  /\ MinBars \in Nat \ {0}
  /\ Lookback \in Nat \ {0}
  /\ MaxLoads \in Nat
  /\ MaxBars \in Nat
  /\ MaxBars > MinTrain + 1
  /\ EntryBars \subseteq 1..MaxBars
  /\ Legacy \subseteq 1..MinTrain + 1
  /\ {Null, Unknown} \cap Labels = {}
  /\ Labels # {}
BY DesignAssumption, SizesAssumption, LabelsAssumption

(***************************************************************************)
(* Least and greatest                                                      *)
(***************************************************************************)
LEMMA MaxExists ==
  ASSUME NEW n \in Nat, NEW S \in SUBSET (0..n), S # {}
  PROVE  Max(S) \in S /\ \A x \in S : x <= Max(S)
<1> DEFINE T == {x..n : x \in S}
<1>1. IsFiniteSet(0..n)
  BY FS_Interval
<1>2. IsWellFoundedOn(StrictSubsetOrdering(0..n), SUBSET (0..n))
  BY <1>1, FS_StrictSubsetOrderingWellFounded, FS_FiniteSubsetsOfFinite
<1>3. T \subseteq SUBSET (0..n) /\ T # {}
  <2>1. \A x \in S : x..n \subseteq 0..n
    OBVIOUS
  <2> QED BY <2>1
<1>4. PICK least \in T : \A other \in T : ~(<<other, least>> \in StrictSubsetOrdering(0..n))
  BY <1>2, <1>3, WFMin
<1>5. PICK m \in S : least = m..n
  OBVIOUS
<1>6. \A x \in S : x <= m
  <2> SUFFICES ASSUME NEW x \in S, m < x PROVE FALSE
    OBVIOUS
  <2>1. x..n \in T /\ x..n \subseteq m..n /\ x..n # m..n
    <3>1. m \in m..n /\ m \notin x..n
      OBVIOUS
    <3> QED BY <3>1
  <2> QED BY <1>3, <1>4, <1>5, <2>1 DEF StrictSubsetOrdering
<1> QED BY <1>6 DEF Max

LEMMA MinExists ==
  ASSUME NEW n \in Nat, NEW S \in SUBSET (0..n), S # {}
  PROVE  Min(S) \in S /\ \A x \in S : Min(S) <= x
<1> DEFINE R == {n - x : x \in S}
<1>1. R \in SUBSET (0..n) /\ R # {}
  <2>1. \A x \in S : n - x \in 0..n
    OBVIOUS
  <2> QED BY <2>1
<1>2. Max(R) \in R /\ \A y \in R : y <= Max(R)
  BY <1>1, MaxExists
<1>3. PICK m \in S : Max(R) = n - m
  BY <1>2
<1>4. \A x \in S : m <= x
  <2> SUFFICES ASSUME NEW x \in S PROVE m <= x
    OBVIOUS
  <2>1. n - x <= n - m
    BY <1>2, <1>3
  <2> QED BY <2>1
<1> QED BY <1>4 DEF Min

(***************************************************************************)
(* The folds                                                               *)
(***************************************************************************)
LEMMA StepOn ==
  ASSUME NEW y \in Nat \ {0}, NEW x \in Nat, x % y = 0
  PROVE  (x + y) % y = 0
<1> DEFINE q == x \div y
           p == (x + y) \div y
           z == (x + y) % y
           d == q + 1 - p
<1>1. x = y * q /\ q \in Int
  OBVIOUS
<1>2. x + y = y * p + z /\ p \in Int /\ z \in 0..y-1
  OBVIOUS
<1> HIDE DEF q, p, z
<1>3. d \in Int /\ z = y * d
  BY <1>1, <1>2
<1> HIDE DEF d
<1>4. d >= 1 => y * d >= y
  BY <1>3
<1>5. d <= -1 => y * d <= 0 - y
  BY <1>3
<1>6. d = 0
  BY <1>2, <1>3, <1>4, <1>5
<1>7. z = 0
  BY <1>3, <1>6
<1> QED BY <1>7 DEF z

(* The windows tile what is left of the series after the first MinTrain    *)
(* bars, but for its last bar.                                             *)
LEMMA WindowsTile ==
  ASSUME NEW first \in Nat, NEW end \in Nat
  PROVE  OosBars(first, end) = first + MinTrain .. end - 1
<1> USE TablesParameters
<1> DEFINE starts == OosStarts(first, end)
           origin == first + MinTrain
<1>1. \A s \in starts : s \in origin..end - 1 /\ (s - first - MinTrain) % Step = 0
  BY DEF OosStarts
<1>2. \A s \in starts : /\ Min({s + Step, end}) \in {s + Step, end}
                        /\ Min({s + Step, end}) <= s + Step
                        /\ Min({s + Step, end}) <= end
  <2> SUFFICES ASSUME NEW s \in starts
               PROVE  /\ Min({s + Step, end}) \in {s + Step, end}
                      /\ Min({s + Step, end}) <= s + Step
                      /\ Min({s + Step, end}) <= end
    OBVIOUS
  <2> DEFINE two == {s + Step, end}
             most == s + Step + end
  <2>1. s \in Nat /\ s + Step \in Nat /\ most \in Nat
    BY <1>1
  <2>2. two \in SUBSET (0..most) /\ two # {} /\ s + Step \in two /\ end \in two
    BY <2>1
  <2> HIDE DEF two, most
  <2>3. Min(two) \in two /\ \A x \in two : Min(two) <= x
    BY <2>1, <2>2, MinExists
  <2> QED BY <2>2, <2>3 DEF two
<1>3. OosBars(first, end) \subseteq origin..end - 1
  <2> SUFFICES ASSUME NEW s \in starts, NEW t \in s..Min({s + Step, end}) - 1
               PROVE  t \in origin..end - 1
    BY DEF OosBars
  <2> DEFINE stop == Min({s + Step, end})
  <2>1. s \in origin..end - 1 /\ stop \in {s + Step, end} /\ stop <= end
    BY <1>1, <1>2
  <2> HIDE DEF stop
  <2>2. stop \in Nat
    BY <2>1
  <2>3. t \in s..stop - 1
    BY DEF stop
  <2> QED BY <2>1, <2>2, <2>3
<1>4. ASSUME NEW t \in origin..end - 1 PROVE t \in OosBars(first, end)
  <2> DEFINE before == {s \in starts : s <= t}
             s == Max(before)
  <2>1. t \in Nat /\ origin \in Nat /\ origin <= t /\ t <= end - 1
    BY <1>4
  <2>2. origin \in before
    <3>1. origin - first - MinTrain = 0 /\ 0 % Step = 0
      OBVIOUS
    <3>2. origin \in origin..end - 1
      BY <2>1
    <3> QED BY <2>1, <3>1, <3>2 DEF OosStarts
  <2>3. before \in SUBSET (0..t)
    BY <1>1, <2>1
  <2>4. s \in before /\ \A u \in before : u <= s
    BY <2>1, <2>2, <2>3, MaxExists
  <2>5. s \in origin..end - 1 /\ (s - first - MinTrain) % Step = 0 /\ s <= t /\ s \in starts
    BY <1>1, <2>4
  <2> HIDE DEF s
  <2>6. t < s + Step
    <3> SUFFICES ASSUME s + Step <= t PROVE FALSE
      BY <2>1, <2>5
    <3>1. s + Step \in origin..end - 1
      BY <2>1, <2>5
    <3>2. s - first - MinTrain \in Nat /\ (s + Step) - first - MinTrain = (s - first - MinTrain) + Step
      BY <2>5
    <3>3. ((s + Step) - first - MinTrain) % Step = 0
      BY <2>5, <3>2, StepOn
    <3>4. s + Step \in starts
      BY <3>1, <3>3 DEF OosStarts
    <3>5. s + Step \in before
      BY <3>4
    <3> QED BY <2>4, <2>5, <3>5
  <2>7. t <= Min({s + Step, end}) - 1
    BY <1>2, <2>1, <2>5, <2>6
  <2>8. t \in s..Min({s + Step, end}) - 1
    BY <1>2, <2>1, <2>5, <2>7
  <2> QED BY <2>5, <2>8 DEF OosBars
<1> QED BY <1>3, <1>4

LEMMA StartsType ==
  ASSUME NEW first \in 1..MaxBars, NEW end \in 1..MaxBars
  PROVE  OosStarts(first, end) \subseteq MinTrain + 1..MaxBars
BY TablesParameters DEF OosStarts

LEMMA SameCardinality == \A S : Cardinality(S) = Cardinality(S)
BY DEF Cardinality, Cardinality

(* The number of a fold; a fold other than 0 has begun.                    *)
LEMMA AssignType ==
  ASSUME NEW starts \in SUBSET (1..MaxBars), NEW t
  PROVE  /\ Assign(t, starts) \in 0..MaxBars
         /\ Assign(t, starts) # 0 => \E s \in starts : s <= t
<1> DEFINE opened == {s \in starts : s <= t}
<1>1. MaxBars \in Nat
  BY TablesParameters
<1>2. IsFiniteSet(1..MaxBars) /\ Cardinality(1..MaxBars) = MaxBars
  BY <1>1, FS_Interval
<1>3. opened \subseteq 1..MaxBars
  OBVIOUS
<1>4. IsFiniteSet(opened) /\ Cardinality(opened) \in Nat /\ Cardinality(opened) <= MaxBars
  BY <1>2, <1>3, FS_Subset, FS_CardinalityType
<1>5. Cardinality(opened) # 0 => opened # {}
  BY FS_EmptySet
<1>6. Assign(t, starts) = Cardinality(opened)
  BY SameCardinality DEF Assign
<1> HIDE DEF opened
<1>7. Assign(t, starts) \in 0..MaxBars
  BY <1>1, <1>4, <1>6
<1> QED BY <1>5, <1>6, <1>7 DEF opened

(***************************************************************************)
(* The smoothed labels                                                     *)
(***************************************************************************)

(* The segments begun by place k are some of 1..k, the first among them.   *)
LEMMA SegmentsBegun ==
  ASSUME NEW labels \in Seq(Labels), NEW k \in 1..Len(labels)
  PROVE  LET opened == {a \in LongSegments(labels) : a <= k}
         IN  /\ Absorbed(labels)[k] = labels[Max(opened)]
             /\ Max(opened) \in 1..k
<1> DEFINE opened == {a \in LongSegments(labels) : a <= k}
<1>1. DOMAIN labels = 1..Len(labels) /\ Len(labels) \in Nat
  BY LenProperties
<1>2. opened \in SUBSET (0..k) /\ opened \subseteq 1..k /\ k \in Nat
  BY <1>1 DEF LongSegments
<1>3. 1 \in opened
  BY <1>1 DEF LongSegments
<1>4. Max(opened) \in opened
  BY <1>2, <1>3, MaxExists
<1>5. Absorbed(labels)[k] = labels[Max(opened)]
  BY <1>1 DEF Absorbed
<1> QED BY <1>2, <1>4, <1>5

LEMMA AbsorbedType ==
  ASSUME NEW labels \in Seq(Labels)
  PROVE  Absorbed(labels) \in [1..Len(labels) -> Labels]
<1>1. DOMAIN labels = 1..Len(labels) /\ labels \in [1..Len(labels) -> Labels] /\ Len(labels) \in Nat
  BY LenProperties
<1>2. ASSUME NEW k \in 1..Len(labels) PROVE Absorbed(labels)[k] \in Labels
  <2>1. PICK m \in 1..k : Absorbed(labels)[k] = labels[m]
    BY SegmentsBegun
  <2> QED BY <1>1, <2>1
<1>3. /\ DOMAIN Absorbed(labels) = 1..Len(labels)
      /\ Absorbed(labels) = [k \in DOMAIN Absorbed(labels) |-> Absorbed(labels)[k]]
  BY <1>1 DEF Absorbed
<1> QED BY <1>2, <1>3

(* What Smooth makes of the absorbed labels: if they begin with a run that *)
(* is too short, the run takes the label after it.                         *)
OtherLabels(kept, n) == {k \in 1..n : kept[k] # kept[1]}

LEMMA SmoothCases ==
  ASSUME NEW labels \in Seq(Labels), Len(labels) # 0
  PROVE  LET n == Len(labels)
             kept == Absorbed(labels)
             other == OtherLabels(kept, n)
             change == Min(other)
         IN  /\ other = {} => Smooth(labels) = kept
             /\ other # {} => /\ change \in other /\ change \in 2..n
                              /\ \A k \in other : change <= k
                              /\ change > MinBars => Smooth(labels) = kept
                              /\ change <= MinBars =>
                                   Smooth(labels) =
                                     [k \in 1..n |-> IF k < change THEN kept[change] ELSE kept[k]]
<1> DEFINE n == Len(labels)
           kept == Absorbed(labels)
           other == OtherLabels(kept, n)
           change == Min(other)
<1>1. n \in Nat \ {0} /\ DOMAIN kept = 1..n /\ MinBars \in Nat
  BY AbsorbedType, LenProperties, TablesParameters
<1>2. other = {k \in DOMAIN kept : kept[k] # kept[1]}
  BY <1>1 DEF OtherLabels
<1>3. Smooth(labels) =
        IF other # {} /\ change - 1 < MinBars
        THEN [k \in DOMAIN kept |-> IF k <= change - 1 THEN kept[(change - 1) + 1] ELSE kept[k]]
        ELSE kept
  BY <1>2 DEF Smooth
<1>4. other \in SUBSET (0..n) /\ other \subseteq 2..n
  BY <1>1 DEF OtherLabels
<1>5. other # {} => change \in other /\ \A k \in other : change <= k
  BY <1>1, <1>4, MinExists
<1> HIDE DEF change, other, kept, n
<1>6. ASSUME other # {} PROVE change \in Nat /\ change \in 2..n
  <2>1. change \in 2..n
    BY <1>4, <1>5, <1>6
  <2> QED BY <1>1, <2>1
<1>7. ASSUME other # {}, change <= MinBars
      PROVE  Smooth(labels) = [k \in 1..n |-> IF k < change THEN kept[change] ELSE kept[k]]
  <2>1. change - 1 < MinBars /\ (change - 1) + 1 = change
    BY <1>1, <1>6, <1>7
  <2>2. \A k \in 1..n : k <= change - 1 <=> k < change
    BY <1>6, <1>7
  <2> QED BY <1>1, <1>3, <1>7, <2>1, <2>2
<1>8. ASSUME other # {}, change > MinBars PROVE Smooth(labels) = kept
  <2>1. ~(change - 1 < MinBars)
    BY <1>1, <1>6, <1>8
  <2> QED BY <1>3, <2>1
<1> QED BY <1>3, <1>5, <1>6, <1>7, <1>8 DEF change, other, kept, n

LEMMA SmoothType ==
  ASSUME NEW labels \in Seq(Labels), Len(labels) # 0
  PROVE  Smooth(labels) \in [1..Len(labels) -> Labels]
<1> DEFINE n == Len(labels)
           kept == Absorbed(labels)
           other == OtherLabels(kept, n)
           change == Min(other)
<1>1. kept \in [1..n -> Labels] /\ n \in Nat
  BY AbsorbedType, LenProperties
<1>2. /\ other = {} => Smooth(labels) = kept
      /\ other # {} => /\ change \in 2..n
                       /\ change > MinBars => Smooth(labels) = kept
                       /\ change <= MinBars =>
                            Smooth(labels) =
                              [k \in 1..n |-> IF k < change THEN kept[change] ELSE kept[k]]
  BY SmoothCases
<1> HIDE DEF n, kept, other, change
<1>3. CASE Smooth(labels) = kept
  BY <1>1, <1>3 DEF n
<1>4. CASE Smooth(labels) # kept
  <2>1. change \in 2..n /\ MinBars \in Nat
    BY <1>2, <1>4, TablesParameters
  <2>2. Smooth(labels) = [k \in 1..n |-> IF k < change THEN kept[change] ELSE kept[k]]
    BY <1>1, <1>2, <1>4, <2>1
  <2> QED BY <1>1, <2>1, <2>2 DEF n
<1> QED BY <1>3, <1>4

(* One series is the beginning of another.                                 *)
Begins(labels, longer) ==
  Len(labels) <= Len(longer) /\ \A k \in 1..Len(labels) : longer[k] = labels[k]

(* Up to the last MinBars - 1 places, more labels absorb no segment more   *)
(* and no segment less.                                                    *)
LEMMA AbsorbedStays ==
  ASSUME NEW labels \in Seq(Labels), NEW longer \in Seq(Labels),
         Begins(labels, longer), NEW k \in 1..Len(labels), k + MinBars - 1 <= Len(labels)
  PROVE  Absorbed(longer)[k] = Absorbed(labels)[k]
<1> DEFINE n == Len(labels)
           opened == {a \in LongSegments(labels) : a <= k}
           later == {a \in LongSegments(longer) : a <= k}
<1>1. /\ DOMAIN labels = 1..n /\ DOMAIN longer = 1..Len(longer)
      /\ n \in Nat /\ Len(longer) \in Nat /\ n <= Len(longer)
      /\ MinBars \in Nat \ {0} /\ k \in Nat
      /\ \A x \in 1..n : longer[x] = labels[x]
  BY LenProperties, TablesParameters DEF Begins
<1>2. ASSUME NEW a \in 1..k, a # 1
      PROVE  a \in LongSegments(labels) <=> a \in LongSegments(longer)
  <2>1. a \in 1..n /\ a - 1 \in 1..n /\ a + MinBars - 1 <= n /\ a + MinBars - 1 <= Len(longer)
    BY <1>1, <1>2
  <2>2. \A b \in a..a + MinBars - 1 : b \in 1..n
    BY <1>1, <2>1
  <2>3. a \in LongSegments(labels) <=>
          labels[a - 1] # labels[a] /\ \A b \in a..a + MinBars - 1 : labels[b] = labels[a]
    BY <1>1, <1>2, <2>1 DEF LongSegments
  <2>4. a \in LongSegments(longer) <=>
          longer[a - 1] # longer[a] /\ \A b \in a..a + MinBars - 1 : longer[b] = longer[a]
    BY <1>1, <1>2, <2>1 DEF LongSegments
  <2> QED BY <1>1, <2>1, <2>2, <2>3, <2>4
<1>3. 1 \in LongSegments(labels) /\ 1 \in LongSegments(longer)
  BY <1>1 DEF LongSegments
<1>4. opened \subseteq 1..k /\ later \subseteq 1..k
  BY <1>1 DEF LongSegments
<1>5. opened = later
  BY <1>1, <1>2, <1>3, <1>4
<1>6. /\ Absorbed(labels)[k] = labels[Max(opened)]
      /\ Absorbed(longer)[k] = longer[Max(later)]
      /\ Max(opened) \in 1..k
  BY <1>1, SegmentsBegun
<1> HIDE DEF opened, later
<1> QED BY <1>1, <1>5, <1>6

(* ... and once there are labels enough for two segments, the opening run  *)
(* is taken over for good or not at all.                                   *)
LEMMA SmoothStays ==
  ASSUME NEW labels \in Seq(Labels), NEW longer \in Seq(Labels),
         Begins(labels, longer), Len(labels) >= 2 * MinBars - 1,
         NEW k \in 1..Len(labels), k + MinBars - 1 <= Len(labels)
  PROVE  Smooth(longer)[k] = Smooth(labels)[k]
<1> DEFINE n == Len(labels)
           m == Len(longer)
           kept == Absorbed(labels)
           keeps == Absorbed(longer)
           other == OtherLabels(kept, n)
           others == OtherLabels(keeps, m)
           change == Min(other)
           changes == Min(others)
           final == 1 + n - MinBars
<1>1. /\ n \in Nat /\ m \in Nat /\ n <= m /\ MinBars \in Nat \ {0} /\ k \in 1..n
      /\ n >= 2 * MinBars - 1
      /\ kept \in [1..n -> Labels] /\ keeps \in [1..m -> Labels]
  BY AbsorbedType, LenProperties, TablesParameters DEF Begins
<1>2. /\ final \in Nat /\ MinBars <= final /\ final <= n /\ k <= final /\ 1 <= final
  BY <1>1
<1>3. \A x \in 1..final : keeps[x] = kept[x]
  <2> SUFFICES ASSUME NEW x \in 1..final PROVE keeps[x] = kept[x]
    OBVIOUS
  <2>1. x \in 1..n /\ x + MinBars - 1 <= n
    BY <1>1, <1>2
  <2> QED BY <2>1, AbsorbedStays
<1>4. /\ other = {} => Smooth(labels) = kept
      /\ other # {} => /\ change \in other /\ change \in 2..n
                       /\ \A x \in other : change <= x
                       /\ change > MinBars => Smooth(labels) = kept
                       /\ change <= MinBars =>
                            Smooth(labels) =
                              [x \in 1..n |-> IF x < change THEN kept[change] ELSE kept[x]]
  <2>1. Len(labels) # 0
    BY <1>1, <1>2
  <2> QED BY <2>1, SmoothCases
<1>5. /\ others = {} => Smooth(longer) = keeps
      /\ others # {} => /\ changes \in others /\ changes \in 2..m
                        /\ \A x \in others : changes <= x
                        /\ changes > MinBars => Smooth(longer) = keeps
                        /\ changes <= MinBars =>
                             Smooth(longer) =
                               [x \in 1..m |-> IF x < changes THEN keeps[changes] ELSE keeps[x]]
  <2>1. Len(longer) # 0
    BY <1>1, <1>2
  <2> QED BY <2>1, SmoothCases
<1>6. \A x \in 1..final : x \in other <=> x \in others
  BY <1>1, <1>2, <1>3 DEF OtherLabels
<1> HIDE DEF n, m, kept, keeps, other, others, change, changes, final
<1>7. keeps[k] = kept[k] /\ k \in 1..m
  BY <1>1, <1>2, <1>3
<1>8. CASE \A x \in 1..final : x \notin other
  <2>1. Smooth(labels) = kept
    <3>1. other # {} => change > MinBars
      BY <1>1, <1>2, <1>4, <1>8
    <3> QED BY <1>4, <3>1
  <2>2. Smooth(longer) = keeps
    <3>1. others # {} => changes > MinBars
      BY <1>1, <1>2, <1>5, <1>6, <1>8
    <3> QED BY <1>5, <3>1
  <2> QED BY <1>7, <2>1, <2>2
<1>9. CASE \E x \in 1..final : x \in other
  <2>1. PICK x \in 1..final : x \in other /\ x \in others
    BY <1>6, <1>9
  <2>2. /\ change \in 1..final /\ change \in other /\ change \in others
        /\ changes \in 1..final /\ changes \in other
    BY <1>1, <1>2, <1>4, <1>5, <1>6, <2>1
  <2>3. change = changes
    BY <1>4, <1>5, <2>1, <2>2
  <2>4. keeps[change] = kept[change] /\ change \in Nat
    BY <1>3, <2>2
  <2>5. CASE change > MinBars
    BY <1>4, <1>5, <1>7, <2>1, <2>3, <2>5
  <2>6. CASE change <= MinBars
    <3>1. Smooth(labels)[k] = IF k < change THEN kept[change] ELSE kept[k]
      BY <1>1, <1>4, <2>1, <2>6
    <3>2. Smooth(longer)[k] = IF k < changes THEN keeps[changes] ELSE keeps[k]
      BY <1>5, <1>7, <2>1, <2>3, <2>6
    <3> QED BY <1>7, <2>3, <2>4, <3>1, <3>2
  <2> QED BY <1>1, <2>4, <2>5, <2>6
<1> QED BY <1>8, <1>9

(***************************************************************************)
(* The regime labels of the bars                                           *)
(***************************************************************************)

(* The raw labels that a labelling of n bars smooths.                      *)
Segment(n) == [k \in 1..n - 1 - MinTrain |-> raw[MinTrain + k]]

(* What a labelling of n bars leaves.                                      *)
LabelledTo(n) ==
  [t \in 1..MaxBars |-> IF t \in MinTrain + 1..n - 1
                        THEN Smooth(Segment(n))[t - MinTrain] ELSE Null]

(* A history has folds from MinTrain + 2 bars on, and what it labels.      *)
LEMMA FoldsFrom ==
  ASSUME NEW n \in Nat
  PROVE  /\ HasFolds(n) <=> MinTrain + 1 < n
         /\ HasFolds(n) => LabelledBars(n) = MinTrain + 1..n - 1
         /\ ~HasFolds(n) => LabelledBars(n) = 1..n
<1> USE TablesParameters
<1>1. ASSUME MinTrain + 1 < n PROVE HasFolds(n)
  <2>1. MinTrain + 1 \in 1 + MinTrain .. n - 1 /\ MinTrain + 1 - 1 - MinTrain = 0
    BY <1>1
  <2>2. 0 % Step = 0
    OBVIOUS
  <2>3. MinTrain + 1 \in OosStarts(1, n)
    BY <2>1, <2>2 DEF OosStarts
  <2> QED BY <2>3 DEF HasFolds
<1>2. ASSUME ~(MinTrain + 1 < n) PROVE ~HasFolds(n)
  <2>1. 1 + MinTrain .. n - 1 = {}
    BY <1>2
  <2> QED BY <2>1 DEF OosStarts, HasFolds
<1>3. OosBars(1, n) = MinTrain + 1..n - 1
  BY WindowsTile
<1> QED BY <1>1, <1>2, <1>3 DEF LabelledBars

(* A bar that is in a window, or any bar while there is none, has a label. *)
RawSound ==
  /\ raw \in Seq(Labels \cup {Null})
  /\ \A t \in LabelledBars(Len(raw)) : raw[t] \in Labels

LEMMA FirstFitsSound ==
  ASSUME NEW n \in Nat, NEW fit \in FirstFits(n)
  PROVE  /\ fit \in Seq(Labels \cup {Null}) /\ Len(fit) = n
         /\ \A t \in LabelledBars(n) : fit[t] \in Labels
<1>1. /\ fit \in [1..n -> Labels \cup {Null}]
      /\ \A t \in 1..n : fit[t] # Null <=> t \in LabelledBars(n)
  BY DEF FirstFits
<1>2. fit \in Seq(Labels \cup {Null})
  <2>1. [1..n -> Labels \cup {Null}] \in {[1..j -> Labels \cup {Null}] : j \in Nat}
    OBVIOUS
  <2> QED BY <1>1, <2>1, SeqDef
<1>3. DOMAIN fit = 1..n /\ DOMAIN fit = 1..Len(fit) /\ Len(fit) \in Nat
  BY <1>1, <1>2, LenProperties
<1>4. Len(fit) = n
  BY <1>3
<1>5. LabelledBars(n) \subseteq 1..n
  BY FoldsFrom, TablesParameters
<1> QED BY <1>1, <1>2, <1>4, <1>5

LEMMA SegmentType ==
  ASSUME RawSound, NEW n \in 0..Len(raw), MinTrain + 1 < n
  PROVE  Segment(n) \in Seq(Labels) /\ Len(Segment(n)) = n - 1 - MinTrain
<1> DEFINE m == n - 1 - MinTrain
<1>1. m \in Nat /\ MinTrain \in Nat /\ Len(raw) \in Nat
  BY LenProperties, TablesParameters DEF RawSound
<1>2. ASSUME NEW k \in 1..m PROVE raw[MinTrain + k] \in Labels
  <2>1. MinTrain + 1 < Len(raw)
    BY <1>1
  <2>2. LabelledBars(Len(raw)) = MinTrain + 1..Len(raw) - 1
    BY <1>1, <2>1, FoldsFrom
  <2>3. MinTrain + k \in MinTrain + 1..Len(raw) - 1
    BY <1>1
  <2> QED BY <2>2, <2>3 DEF RawSound
<1>3. Segment(n) \in [1..m -> Labels]
  BY <1>2 DEF Segment
<1>4. Segment(n) \in Seq(Labels)
  <2>1. [1..m -> Labels] \in {[1..j -> Labels] : j \in Nat}
    BY <1>1
  <2> QED BY <1>3, <2>1, SeqDef
<1>5. DOMAIN Segment(n) = 1..m /\ DOMAIN Segment(n) = 1..Len(Segment(n)) /\ Len(Segment(n)) \in Nat
  BY <1>3, <1>4, LenProperties
<1> HIDE DEF m
<1>6. Len(Segment(n)) = m
  BY <1>1, <1>5
<1> QED BY <1>4, <1>6 DEF m

LEMMA CausalFact ==
  ASSUME RawSound, NEW n \in 1..Len(raw), HasFolds(n), NEW t \in 1..n
  PROVE  CausalLabels(n)[t] =
           IF t \in MinTrain + 1..n - 1 THEN Smooth(Segment(n))[t - MinTrain] ELSE Null
<1> DEFINE oos == LabelledBars(n)
           first == Min(oos)
           chosen == [k \in 1..Cardinality(oos) |-> raw[first + k - 1]]
<1>1. n \in Nat /\ MinTrain \in Nat /\ Len(raw) \in Nat
  BY LenProperties, TablesParameters DEF RawSound
<1>2. oos = MinTrain + 1..n - 1
  BY <1>1, FoldsFrom
<1>3. CausalLabels(n)[t] = IF t \in oos THEN Smooth(chosen)[t - first + 1] ELSE Null
  BY DEF CausalLabels
<1>4. CASE t \in oos
  <2>1. MinTrain + 1 \in oos /\ MinTrain + 1 < n
    BY <1>1, <1>2, <1>4
  <2>2. oos \in SUBSET (0..n)
    BY <1>1, <1>2
  <2>3. first = MinTrain + 1
    <3>1. first \in oos /\ first <= MinTrain + 1
      BY <1>1, <2>1, <2>2, MinExists
    <3> HIDE DEF first
    <3> QED BY <1>1, <1>2, <3>1
  <2>4. Cardinality(oos) = n - 1 - MinTrain
    <3>1. Cardinality(MinTrain + 1..n - 1) = n - 1 - MinTrain
      BY <1>1, <2>1, FS_Interval
    <3> QED BY <1>2, <3>1, SameCardinality
  <2>5. chosen = Segment(n)
    <3>1. \A k \in 1..n - 1 - MinTrain : first + k - 1 = MinTrain + k
      BY <1>1, <2>3
    <3> QED BY <2>4, <3>1 DEF Segment
  <2>6. t - first + 1 = t - MinTrain
    BY <1>1, <2>3
  <2> QED BY <1>2, <1>3, <1>4, <2>5, <2>6
<1>5. CASE t \notin oos
  BY <1>2, <1>3, <1>5
<1> QED BY <1>4, <1>5

(* Without a fold every bar gets a label.                                  *)
LEMMA FilteredFact ==
  ASSUME RawSound, ~HasFolds(Len(raw)), NEW t \in 1..Len(raw)
  PROVE  CausalLabels(Len(raw))[t] \in Labels
<1> DEFINE n == Len(raw)
           all == LabelledBars(n)
           first == Min(all)
           chosen == [k \in 1..Cardinality(all) |-> raw[first + k - 1]]
<1>1. n \in Nat /\ n >= 1
  BY LenProperties DEF RawSound
<1>2. all = 1..n
  BY <1>1, FoldsFrom
<1>3. CausalLabels(n)[t] = Smooth(chosen)[t - first + 1]
  BY <1>2 DEF CausalLabels
<1>4. \A k \in 1..n : raw[k] \in Labels
  BY <1>2 DEF RawSound
<1> HIDE DEF n
<1>5. first = 1
  <2>1. 1 \in all /\ all \in SUBSET (0..n)
    BY <1>1, <1>2
  <2>2. first \in all /\ first <= 1
    BY <1>1, <2>1, MinExists
  <2> HIDE DEF first
  <2> QED BY <1>1, <1>2, <2>2
<1>6. Cardinality(all) = n
  <2>1. Cardinality(1..n) = n
    BY <1>1, FS_Interval
  <2> QED BY <1>2, <2>1, SameCardinality
<1>7. chosen \in [1..n -> Labels]
  <2>1. \A k \in 1..n : first + k - 1 = k
    BY <1>5
  <2> QED BY <1>4, <1>6, <2>1
<1> HIDE DEF chosen
<1>8. chosen \in Seq(Labels)
  <2>1. [1..n -> Labels] \in {[1..j -> Labels] : j \in Nat}
    BY <1>1
  <2> QED BY <1>7, <2>1, SeqDef
<1>9. DOMAIN chosen = 1..n /\ DOMAIN chosen = 1..Len(chosen) /\ Len(chosen) \in Nat
  BY <1>7, <1>8, LenProperties
<1>10. Len(chosen) = n
  BY <1>1, <1>9
<1>11. t - first + 1 = t /\ t \in 1..Len(chosen) /\ Len(chosen) # 0
  BY <1>1, <1>5, <1>10 DEF n
<1>12. Smooth(chosen) \in [1..Len(chosen) -> Labels]
  BY <1>8, <1>11, SmoothType
<1> QED BY <1>3, <1>11, <1>12 DEF n

LEMMA LabelledType ==
  ASSUME RawSound, NEW n \in 0..Len(raw)
  PROVE  /\ LabelledTo(n) \in [1..MaxBars -> Labels \cup {Null}]
         /\ n <= MaxBars => {t \in 1..MaxBars : LabelledTo(n)[t] # Null} = MinTrain + 1..n - 1
<1>1. n \in Nat /\ MinTrain \in Nat /\ MaxBars \in Nat
  BY LenProperties, TablesParameters DEF RawSound
<1>2. ASSUME NEW t \in MinTrain + 1..n - 1
      PROVE  Smooth(Segment(n))[t - MinTrain] \in Labels
  <2>1. Segment(n) \in Seq(Labels) /\ Len(Segment(n)) = n - 1 - MinTrain
    BY <1>1, SegmentType
  <2>2. Len(Segment(n)) # 0 /\ t - MinTrain \in 1..Len(Segment(n))
    BY <1>1, <2>1
  <2> QED BY <2>1, <2>2, SmoothType
<1>3. Null \notin Labels
  BY TablesParameters
<1>4. \A t \in 1..MaxBars : /\ LabelledTo(n)[t] \in Labels \cup {Null}
                            /\ LabelledTo(n)[t] # Null <=> t \in MinTrain + 1..n - 1
  BY <1>2, <1>3 DEF LabelledTo
<1>5. LabelledTo(n) \in [1..MaxBars -> Labels \cup {Null}]
  BY <1>4 DEF LabelledTo
<1>6. n <= MaxBars => \A t \in MinTrain + 1..n - 1 : t \in 1..MaxBars
  BY <1>1
<1> QED BY <1>4, <1>5, <1>6

(***************************************************************************)
(* The types                                                               *)
(***************************************************************************)

(* The labels are those of the last labelling, none before it.             *)
RegimesSound ==
  \/ /\ method = "walk_forward"
     /\ \E m \in MinTrain + 2..Len(raw) : regimes = LabelledTo(m)
  \/ /\ method = "filtered"
     /\ regimes \in [1..MaxBars -> Labels \cup {Null}] /\ regimes[1] # Null
  \/ /\ method = Null
     /\ regimes = [t \in 1..MaxBars |-> Null]

TablesTyped ==
  /\ RawSound /\ Len(raw) \in 1..MaxBars
  /\ RegimesSound
  /\ outcomes \subseteq Rows
  /\ loads \in 0..MaxLoads
  /\ loader \in [Loaders -> [at : {"idle", "deleted"}, load : 0..loads, bars : 0..Len(raw)]]
  /\ backfill \in [at : {"idle", "updating"}, starts : SUBSET (MinTrain + 1..MaxBars),
                   left : SUBSET (0..MaxBars), updated : SUBSET Rows]
  /\ trades = Null \/ trades \subseteq 1..MaxBars
  /\ cells \subseteq Labels \cup {Unknown}

LEMMA RegimesTypes ==
  ASSUME TablesTyped
  PROVE  /\ regimes \in [1..MaxBars -> Labels \cup {Null}]
         /\ method \in {Null, "filtered", "walk_forward"}
<1>1. CASE method = "walk_forward" /\ \E m \in MinTrain + 2..Len(raw) : regimes = LabelledTo(m)
  <2>1. PICK m \in MinTrain + 2..Len(raw) : regimes = LabelledTo(m)
    BY <1>1
  <2>2. m \in 0..Len(raw)
    BY TablesParameters DEF TablesTyped
  <2> QED BY <1>1, <2>1, <2>2, LabelledType DEF TablesTyped
<1> QED BY <1>1 DEF TablesTyped, RegimesSound

LEMMA TablesTypes == ASSUME TablesTyped PROVE TablesTypeOK
<1>1. \A t \in DOMAIN raw : raw[t] \in Labels \cup {Null}
  BY LenProperties DEF TablesTyped, RawSound
<1> QED BY <1>1, RegimesTypes DEF TablesTyped, TablesTypeOK, Bars

(* The entries of some rows lie between their first and their last.        *)
LEMMA EntriesSpan ==
  ASSUME NEW entries \in SUBSET (1..MaxBars), entries # {}
  PROVE  /\ Min(entries) \in 1..MaxBars /\ Max(entries) \in 1..MaxBars
         /\ OosStarts(Min(entries), Max(entries)) \subseteq MinTrain + 1..MaxBars
<1>1. entries \in SUBSET (0..MaxBars) /\ MaxBars \in Nat
  BY TablesParameters
<1>2. Min(entries) \in entries /\ Max(entries) \in entries
  BY <1>1, MinExists, MaxExists
<1>3. Min(entries) \in 1..MaxBars /\ Max(entries) \in 1..MaxBars
  BY <1>2
<1> QED BY <1>3, StartsType

LEMMA EntriesType ==
  ASSUME NEW rows \in SUBSET Rows
  PROVE  Entries(rows) \in SUBSET (1..MaxBars) /\ (rows # {} => Entries(rows) # {})
BY DEF Entries, Rows, Bars

LEMMA LabelledRows ==
  ASSUME NEW load \in 0..MaxLoads, NEW entries \in SUBSET (1..MaxBars)
  PROVE  Labelled(load, entries) \subseteq Rows
<1> SUFFICES ASSUME NEW t \in entries
             PROVE  [load |-> load, entry |-> t,
                     fold |-> Assign(t, OosStarts(Min(entries), Max(entries)))]
                    \in Rows
  BY DEF Labelled
<1> DEFINE starts == OosStarts(Min(entries), Max(entries))
<1>1. starts \in SUBSET (1..MaxBars)
  <2>1. starts \subseteq MinTrain + 1..MaxBars
    BY EntriesSpan
  <2> QED BY <2>1, TablesParameters
<1>2. Assign(t, starts) \in 0..MaxBars
  BY <1>1, AssignType
<1> QED BY <1>2 DEF Rows, Bars

LEMMA TypedInit == ASSUME TablesInit PROVE TablesTyped
<1> USE TablesParameters
<1>1. PICK n \in 1..MinTrain + 1 :
        /\ raw \in FirstFits(n)
        /\ outcomes = [load : {0}, entry : Legacy \cap 1..n, fold : {Null}]
  BY DEF TablesInit
<1>2. n \in Nat /\ n \in 1..MaxBars
  OBVIOUS
<1>3. /\ raw \in Seq(Labels \cup {Null}) /\ Len(raw) = n
      /\ \A t \in LabelledBars(n) : raw[t] \in Labels
  BY <1>1, <1>2, FirstFitsSound
<1>4. RawSound /\ Len(raw) \in 1..MaxBars
  BY <1>2, <1>3 DEF RawSound
<1>5. RegimesSound
  BY DEF TablesInit, Bars, RegimesSound
<1>6. outcomes \subseteq Rows
  <2>1. Legacy \cap 1..n \subseteq 1..MaxBars /\ 0 \in 0..MaxLoads
    BY <1>2
  <2>2. ASSUME NEW r \in [load : {0}, entry : Legacy \cap 1..n, fold : {Null}]
        PROVE  r \in [load : 0..MaxLoads, entry : 1..MaxBars, fold : 0..MaxBars \cup {Null}]
    <3>1. /\ r = [load |-> r.load, entry |-> r.entry, fold |-> r.fold]
          /\ r.load = 0 /\ r.entry \in Legacy \cap 1..n /\ r.fold = Null
      OBVIOUS
    <3>2. r.load \in 0..MaxLoads /\ r.entry \in 1..MaxBars /\ r.fold \in 0..MaxBars \cup {Null}
      BY <2>1, <3>1
    <3> QED BY <3>1, <3>2
  <2> QED BY <1>1, <2>2 DEF Rows, Bars
<1>7. /\ loader \in [Loaders -> [at : {"idle", "deleted"}, load : 0..loads, bars : 0..Len(raw)]]
      /\ loads \in 0..MaxLoads
  BY <1>2, <1>3 DEF TablesInit, NotLoading
<1>8. /\ backfill \in [at : {"idle", "updating"}, starts : SUBSET (MinTrain + 1..MaxBars),
                       left : SUBSET (0..MaxBars), updated : SUBSET Rows]
      /\ trades = Null /\ cells = {}
  BY DEF TablesInit, NoFolds
<1> QED BY <1>4, <1>5, <1>6, <1>7, <1>8 DEF TablesTyped

(* A bar that comes when there are folds changes no raw label that was     *)
(* there.                                                                  *)
LEMMA LaterBar ==
  ASSUME TablesTyped, NEW l \in Labels, Len(raw) < MaxBars, HasFolds(Len(raw)),
         raw' = Append([raw EXCEPT ![Len(raw)] = l], Null)
  PROVE  /\ RawSound' /\ Len(raw') = Len(raw) + 1
         /\ \A m \in 0..Len(raw) : LabelledTo(m)' = LabelledTo(m)
<1> DEFINE n == Len(raw)
           put == [raw EXCEPT ![n] = l]
<1>1. /\ raw \in Seq(Labels \cup {Null}) /\ n \in Nat /\ n >= 1 /\ MinTrain \in Nat
      /\ MinTrain + 1 < n /\ LabelledBars(n) = MinTrain + 1..n - 1
      /\ LabelledBars(n + 1) = MinTrain + 1..n
  BY FoldsFrom, TablesParameters DEF TablesTyped, RawSound
<1>2. /\ put \in Seq(Labels \cup {Null}) /\ Len(put) = n
      /\ \A k \in 1..n : put[k] = IF k = n THEN l ELSE raw[k]
  <2>1. n \in 1..Len(raw) /\ l \in Labels \cup {Null}
    BY <1>1
  <2> QED BY <1>1, <2>1, ExceptSeq
<1>3. /\ raw' \in Seq(Labels \cup {Null}) /\ Len(raw') = n + 1
      /\ \A k \in 1..n : raw'[k] = put[k]
  BY <1>2, AppendProperties
<1>4. raw'[n] = l /\ \A k \in 1..n - 1 : raw'[k] = raw[k]
  <2>1. n \in 1..n /\ \A k \in 1..n - 1 : k \in 1..n /\ k # n
    BY <1>1
  <2> HIDE DEF put, n
  <2>2. \A k \in 1..n : raw'[k] = IF k = n THEN l ELSE raw[k]
    BY <1>2, <1>3
  <2> QED BY <2>1, <2>2
<1>5. \A t \in MinTrain + 1..n : raw'[t] \in Labels
  <2> SUFFICES ASSUME NEW t \in MinTrain + 1..n PROVE raw'[t] \in Labels
    OBVIOUS
  <2>1. CASE t = n
    BY <1>4, <2>1
  <2>2. CASE t # n
    <3>1. t \in MinTrain + 1..n - 1 /\ t \in 1..n - 1
      BY <1>1, <2>2
    <3>2. raw[t] \in Labels
      BY <1>1, <3>1 DEF TablesTyped, RawSound
    <3> QED BY <1>4, <3>1, <3>2
  <2> QED BY <2>1, <2>2
<1>6. RawSound'
  <2>1. LabelledBars(Len(raw))' = MinTrain + 1..n
    BY <1>1, <1>3 DEF LabelledBars, HasFolds
  <2> QED BY <1>3, <1>5, <2>1 DEF RawSound
<1>7. ASSUME NEW m \in 0..n PROVE LabelledTo(m)' = LabelledTo(m)
  <2>1. \A k \in 1..m - 1 - MinTrain : MinTrain + k \in 1..n - 1
    BY <1>1
  <2>2. Segment(m)' = Segment(m)
    BY <1>4, <2>1 DEF Segment
  <2> QED BY <2>2 DEF LabelledTo
<1> QED BY <1>3, <1>6, <1>7

LEMMA NewBarTyped == ASSUME TablesTyped, NewBar PROVE TablesTyped'
<1> DEFINE n == Len(raw)
<1>1. /\ n \in 1..MaxBars /\ n < MaxBars /\ MaxBars \in Nat /\ MinTrain \in Nat
      /\ UNCHANGED <<regimes, method, outcomes, loads, loader, backfill, trades, cells>>
  BY TablesParameters DEF TablesTyped, NewBar
<1>2. RawSound' /\ Len(raw') = n + 1 /\ RegimesSound'
  <2>1. CASE HasFolds(n)
    <3>1. PICK l \in Labels : raw' = Append([raw EXCEPT ![n] = l], Null)
      BY <2>1 DEF NewBar
    <3>2. /\ RawSound' /\ Len(raw') = n + 1
          /\ \A m \in 0..n : LabelledTo(m)' = LabelledTo(m)
      BY <1>1, <2>1, <3>1, LaterBar
    <3>3. CASE method = "walk_forward" /\ \E m \in MinTrain + 2..n : regimes = LabelledTo(m)
      <4>1. PICK m \in MinTrain + 2..n : regimes = LabelledTo(m)
        BY <3>3
      <4>2. m \in 0..n /\ m \in MinTrain + 2..Len(raw')
        BY <1>1, <3>2
      <4>3. regimes' = LabelledTo(m)'
        BY <1>1, <3>2, <4>1, <4>2
      <4> QED BY <1>1, <3>2, <3>3, <4>2, <4>3 DEF RegimesSound
    <3>4. CASE ~(method = "walk_forward" /\ \E m \in MinTrain + 2..n : regimes = LabelledTo(m))
      BY <1>1, <3>2, <3>4 DEF TablesTyped, RegimesSound
    <3> QED BY <3>2, <3>3, <3>4
  <2>2. CASE ~HasFolds(n)
    <3>1. raw' \in FirstFits(n + 1)
      BY <2>2 DEF NewBar
    <3>2. /\ raw' \in Seq(Labels \cup {Null}) /\ Len(raw') = n + 1
          /\ \A t \in LabelledBars(n + 1) : raw'[t] \in Labels
      BY <1>1, <3>1, FirstFitsSound
    <3>3. LabelledBars(Len(raw))' = LabelledBars(n + 1)
      BY <3>2 DEF LabelledBars, HasFolds
    <3>4. RawSound'
      BY <3>2, <3>3 DEF RawSound
    <3>5. ~(MinTrain + 1 < n)
      BY <1>1, <2>2, FoldsFrom
    <3>6. MinTrain + 2..n = {}
      BY <1>1, <3>5
    <3>7. RegimesSound'
      BY <1>1, <3>6 DEF TablesTyped, RegimesSound
    <3> QED BY <3>2, <3>4, <3>7
  <2> QED BY <2>1, <2>2
<1>3. Len(raw') \in 1..MaxBars
  BY <1>1, <1>2
<1>4. loader' \in [Loaders -> [at : {"idle", "deleted"}, load : 0..loads', bars : 0..Len(raw')]]
  <2>1. \A b \in 0..n : b \in 0..Len(raw')
    BY <1>1, <1>2
  <2> QED BY <1>1, <2>1 DEF TablesTyped
<1> QED BY <1>1, <1>2, <1>3, <1>4 DEF TablesTyped

LEMMA WriteRowsFact ==
  ASSUME TablesTyped, WriteRows
  PROVE  /\ HasFolds(Len(raw)) => method' = "walk_forward" /\ regimes' = LabelledTo(Len(raw))
         /\ ~HasFolds(Len(raw)) =>
              /\ method' = "filtered"
              /\ regimes' \in [1..MaxBars -> Labels \cup {Null}] /\ regimes'[1] # Null
<1> DEFINE n == Len(raw)
<1>1. /\ regimes' = [t \in 1..MaxBars |-> IF t <= n THEN CausalLabels(n)[t] ELSE Null]
      /\ RawSound /\ n \in 1..MaxBars /\ MaxBars \in Nat
  BY TablesParameters DEF WriteRows, Bars, TablesTyped
<1>2. ASSUME HasFolds(n) PROVE regimes' = LabelledTo(n)
  <2>1. ASSUME NEW t \in 1..MaxBars, t <= n
        PROVE  CausalLabels(n)[t] =
                 IF t \in MinTrain + 1..n - 1 THEN Smooth(Segment(n))[t - MinTrain] ELSE Null
    <3>1. n \in 1..Len(raw) /\ t \in 1..n
      BY <1>1, <2>1
    <3> QED BY <1>1, <1>2, <3>1, CausalFact
  <2>2. \A t \in 1..MaxBars : ~(t <= n) => t \notin MinTrain + 1..n - 1
    BY <1>1
  <2> QED BY <1>1, <2>1, <2>2 DEF LabelledTo
<1>3. ASSUME ~HasFolds(n)
      PROVE  regimes' \in [1..MaxBars -> Labels \cup {Null}] /\ regimes'[1] # Null
  <2>1. ASSUME NEW t \in 1..MaxBars, t <= n PROVE CausalLabels(n)[t] \in Labels
    <3>1. t \in 1..Len(raw)
      BY <1>1, <2>1
    <3> QED BY <1>1, <1>3, <3>1, FilteredFact
  <2>2. 1 \in 1..MaxBars /\ 1 <= n /\ Null \notin Labels
    BY <1>1, TablesParameters
  <2> QED BY <1>1, <2>1, <2>2
<1> QED BY <1>2, <1>3 DEF WriteRows

LEMMA WriteRowsTyped == ASSUME TablesTyped, WriteRows PROVE TablesTyped'
<1> DEFINE n == Len(raw)
<1>1. UNCHANGED <<raw, outcomes, loads, loader, backfill, trades, cells>>
  BY DEF WriteRows
<1>2. RawSound' /\ n' = n /\ LabelledTo(n)' = LabelledTo(n)
  BY <1>1 DEF TablesTyped, RawSound, LabelledBars, HasFolds, LabelledTo, Segment
<1>3. n \in 1..MaxBars /\ MinTrain \in Nat
  BY TablesParameters DEF TablesTyped
<1>4. RegimesSound'
  <2>1. CASE HasFolds(n)
    <3>1. n \in MinTrain + 2..Len(raw')
      BY <1>2, <1>3, <2>1, FoldsFrom
    <3> QED BY <1>2, <2>1, <3>1, WriteRowsFact DEF RegimesSound
  <2>2. CASE ~HasFolds(n)
    BY <2>2, WriteRowsFact DEF RegimesSound
  <2> QED BY <2>1, <2>2
<1> QED BY <1>1, <1>2, <1>4 DEF TablesTyped

(* The raw labels and those of the bars stay.                              *)
LEMMA LabelsFrame ==
  ASSUME TablesTyped, UNCHANGED <<raw, regimes, method>>
  PROVE  RawSound' /\ Len(raw') \in 1..MaxBars /\ RegimesSound'
<1>1. \A m \in 0..Len(raw) : LabelledTo(m)' = LabelledTo(m)
  BY DEF LabelledTo, Segment
<1>2. RawSound'
  BY DEF TablesTyped, RawSound, LabelledBars, HasFolds
<1>3. \A m \in MinTrain + 2..Len(raw) : m \in 0..Len(raw)
  BY TablesParameters DEF TablesTyped
<1> QED BY <1>1, <1>2, <1>3 DEF TablesTyped, RegimesSound

LEMMA DeleteTyped ==
  ASSUME TablesTyped, NEW l \in Loaders, DeleteOutcomes(l)
  PROVE  TablesTyped'
<1>1. /\ loads < MaxLoads /\ loads' = loads + 1
      /\ outcomes' = {r \in outcomes : r.load = 0}
      /\ loader' = [loader EXCEPT ![l] = [at |-> "deleted", load |-> loads + 1, bars |-> Len(raw)]]
      /\ UNCHANGED <<raw, regimes, method, backfill, trades, cells>>
  BY DEF DeleteOutcomes
<1>2. loads' \in 0..MaxLoads /\ \A x \in 0..loads : x \in 0..loads'
  BY <1>1, TablesParameters DEF TablesTyped
<1>3. Len(raw) \in 0..Len(raw') /\ loads + 1 \in 0..loads'
  BY <1>1, <1>2 DEF TablesTyped
<1>4. loader' \in [Loaders -> [at : {"idle", "deleted"}, load : 0..loads', bars : 0..Len(raw')]]
  BY <1>1, <1>2, <1>3 DEF TablesTyped
<1> QED BY <1>1, <1>2, <1>4, LabelsFrame DEF TablesTyped

LEMMA InsertTyped ==
  ASSUME TablesTyped, NEW l \in Loaders, InsertOutcomes(l)
  PROVE  TablesTyped'
<1>1. PICK now \in loader[l].bars..Len(raw) :
        outcomes' = outcomes \cup
          Labelled(loader[l].load, EntryBars \cap (now - Lookback + 1)..now)
  BY DEF InsertOutcomes
<1>2. /\ loader' = [loader EXCEPT ![l] = [at |-> "idle", load |-> 0, bars |-> 0]]
      /\ UNCHANGED <<raw, regimes, method, loads, backfill, trades, cells>>
  BY DEF InsertOutcomes, NotLoading
<1>3. EntryBars \cap (now - Lookback + 1)..now \in SUBSET (1..MaxBars)
  BY TablesParameters
<1>4. loader[l].load \in 0..MaxLoads
  BY TablesParameters DEF TablesTyped
<1>5. outcomes' \subseteq Rows
  BY <1>1, <1>3, <1>4, LabelledRows DEF TablesTyped
<1>6. 0 \in 0..loads /\ 0 \in 0..Len(raw)
  BY DEF TablesTyped
<1>7. loader' \in [Loaders -> [at : {"idle", "deleted"}, load : 0..loads', bars : 0..Len(raw')]]
  BY <1>2, <1>6 DEF TablesTyped
<1> QED BY <1>2, <1>5, <1>7, LabelsFrame DEF TablesTyped

LEMMA KillTyped ==
  ASSUME TablesTyped, NEW l \in Loaders, KillLoader(l)
  PROVE  TablesTyped'
<1>1. /\ loader' = [loader EXCEPT ![l] = [at |-> "idle", load |-> 0, bars |-> 0]]
      /\ UNCHANGED <<raw, regimes, method, outcomes, loads, backfill, trades, cells>>
  BY DEF KillLoader, NotLoading
<1>2. 0 \in 0..loads /\ 0 \in 0..Len(raw)
  BY DEF TablesTyped
<1>3. loader' \in [Loaders -> [at : {"idle", "deleted"}, load : 0..loads', bars : 0..Len(raw')]]
  BY <1>1, <1>2 DEF TablesTyped
<1> QED BY <1>1, <1>3, LabelsFrame DEF TablesTyped

(* The folds of the whole table.                                           *)
LEMMA TableStartsType ==
  ASSUME TablesTyped, outcomes # {}
  PROVE  TableStarts \subseteq MinTrain + 1..MaxBars
BY EntriesType, EntriesSpan DEF TablesTyped, TableStarts

LEMMA ReadBoundsTyped ==
  ASSUME TablesTyped, ReadBounds PROVE TablesTyped'
<1>1. /\ backfill' = [at |-> "updating", starts |-> TableStarts,
                      left |-> TableStarts \cup {0}, updated |-> {}]
      /\ outcomes # {} /\ UNCHANGED <<raw, regimes, method, outcomes, loads, loader, trades, cells>>
  BY DEF ReadBounds
<1>2. TableStarts \in SUBSET (MinTrain + 1..MaxBars)
  BY <1>1, TableStartsType
<1>3. TableStarts \cup {0} \in SUBSET (0..MaxBars)
  BY <1>2, TablesParameters
<1> QED BY <1>1, <1>2, <1>3, LabelsFrame DEF TablesTyped

(* What an update of a range does.                                         *)
UpdatedRows ==
  LET s == Min(backfill.left)
      later == {u \in backfill.starts : u > s}
      rows == {r \in outcomes : InRange(r.entry, s, later)}
      fold == Assign(s, backfill.starts)
  IN  {[r EXCEPT !.fold = fold] : r \in rows}

LEMMA UpdateFact ==
  ASSUME TablesTyped, UpdateRange
  PROVE  /\ backfill.at = "updating"
         /\ Min(backfill.left) \in backfill.left
         /\ \A x \in backfill.left : Min(backfill.left) <= x
         /\ Min(backfill.left) \in 0..MaxBars
         /\ backfill' = [backfill EXCEPT !.left = backfill.left \ {Min(backfill.left)},
                           !.updated = Overwrite(backfill.updated, UpdatedRows)]
         /\ UpdatedRows \subseteq Rows
         /\ UNCHANGED <<raw, regimes, method, outcomes, loads, loader, trades, cells>>
<1> DEFINE s == Min(backfill.left)
           fold == Assign(s, backfill.starts)
<1>1. /\ backfill.at = "updating" /\ backfill.left # {}
      /\ backfill' = [backfill EXCEPT !.left = backfill.left \ {s},
                        !.updated = Overwrite(backfill.updated, UpdatedRows)]
      /\ UNCHANGED <<raw, regimes, method, outcomes, loads, loader, trades, cells>>
  BY DEF UpdateRange, UpdatedRows, Assign
<1>2. backfill.left \in SUBSET (0..MaxBars) /\ backfill.starts \in SUBSET (1..MaxBars) /\ MaxBars \in Nat
  BY TablesParameters DEF TablesTyped
<1>3. s \in backfill.left /\ \A x \in backfill.left : s <= x
  BY <1>1, <1>2, MinExists
<1>4. fold \in 0..MaxBars
  BY <1>2, AssignType
<1>5. UpdatedRows \subseteq Rows
  <2> HIDE DEF fold
  <2>1. \A r \in Rows : [r EXCEPT !.fold = fold] \in Rows
    BY <1>4 DEF Rows
  <2> QED BY <2>1 DEF UpdatedRows, TablesTyped, fold
<1> QED BY <1>1, <1>2, <1>3, <1>5

LEMMA UpdateTyped == ASSUME TablesTyped, UpdateRange PROVE TablesTyped'
<1> DEFINE left == backfill.left \ {Min(backfill.left)}
           updated == Overwrite(backfill.updated, UpdatedRows)
<1>1. /\ backfill' = [backfill EXCEPT !.left = left, !.updated = updated]
      /\ UpdatedRows \subseteq Rows
      /\ UNCHANGED <<raw, regimes, method, outcomes, loads, loader, trades, cells>>
  BY UpdateFact
<1>2. left \in SUBSET (0..MaxBars) /\ updated \in SUBSET Rows
  BY <1>1 DEF TablesTyped, Overwrite
<1> HIDE DEF left, updated
<1> QED BY <1>1, <1>2, LabelsFrame DEF TablesTyped

LEMMA CommitTyped == ASSUME TablesTyped, CommitBackfill PROVE TablesTyped'
<1>1. /\ outcomes' = Overwrite(outcomes, backfill.updated)
      /\ backfill' = [at |-> "idle", starts |-> {}, left |-> {}, updated |-> {}]
      /\ UNCHANGED <<raw, regimes, method, loads, loader, trades, cells>>
  BY DEF CommitBackfill, NoFolds
<1>2. outcomes' \subseteq Rows
  BY <1>1 DEF TablesTyped, Overwrite
<1> QED BY <1>1, <1>2, LabelsFrame DEF TablesTyped

LEMMA KillBackfillTyped == ASSUME TablesTyped, KillBackfill PROVE TablesTyped'
<1>1. /\ backfill' = [at |-> "idle", starts |-> {}, left |-> {}, updated |-> {}]
      /\ UNCHANGED <<raw, regimes, method, outcomes, loads, loader, trades, cells>>
  BY DEF KillBackfill, NoFolds
<1> QED BY <1>1, LabelsFrame DEF TablesTyped

(* The regime of an entry is a label, or UNKNOWN before the first one.     *)
LEMMA RegimeFact ==
  ASSUME TablesTyped, NEW t \in 1..MaxBars
  PROVE  \/ RegimeAt(t) \in Labels
         \/ RegimeAt(t) = Unknown /\ \A b \in 1..t : regimes[b] = Null
<1> DEFINE before == {b \in 1..t : regimes[b] # Null}
<1>1. CASE before = {}
  BY <1>1 DEF RegimeAt
<1>2. CASE before # {}
  <2>1. before \in SUBSET (0..t) /\ t \in Nat
    BY TablesParameters
  <2>2. Max(before) \in before
    BY <1>2, <2>1, MaxExists
  <2>3. regimes \in [1..MaxBars -> Labels \cup {Null}]
    BY RegimesTypes
  <2>4. \A b \in before : b \in 1..MaxBars /\ regimes[b] \in Labels
    BY <2>3, TablesParameters
  <2>5. RegimeAt(t) = regimes[Max(before)]
    BY <1>2 DEF RegimeAt
  <2> QED BY <2>2, <2>4, <2>5
<1> QED BY <1>1, <1>2

LEMMA LoadTradesTyped == ASSUME TablesTyped, LoadTrades PROVE TablesTyped'
<1>1. /\ trades' = Entries(OutOfSample(outcomes)) /\ cells' = {}
      /\ UNCHANGED <<raw, regimes, method, outcomes, loads, loader, backfill>>
  BY DEF LoadTrades
<1>2. trades' \subseteq 1..MaxBars
  <2>1. OutOfSample(outcomes) \in SUBSET Rows
    BY DEF TablesTyped, OutOfSample
  <2> QED BY <1>1, <2>1, EntriesType
<1> QED BY <1>1, <1>2, LabelsFrame DEF TablesTyped

LEMMA AttributeTyped == ASSUME TablesTyped, Attribute PROVE TablesTyped'
<1>1. /\ cells' = {RegimeAt(t) : t \in trades} /\ trades' = Null /\ trades # Null
      /\ UNCHANGED <<raw, regimes, method, outcomes, loads, loader, backfill>>
  BY DEF Attribute
<1>2. cells' \subseteq Labels \cup {Unknown}
  <2>1. \A t \in trades : RegimeAt(t) \in Labels \cup {Unknown}
    BY <1>1, RegimeFact DEF TablesTyped
  <2> QED BY <1>1, <2>1
<1> QED BY <1>1, <1>2, LabelsFrame DEF TablesTyped

LEMMA TypedNext ==
  ASSUME TablesTyped, [TablesNext]_tablesVars PROVE TablesTyped'
<1>1. CASE UNCHANGED tablesVars
  BY <1>1, LabelsFrame DEF tablesVars, TablesTyped
<1>2. CASE TablesNext
  BY <1>2, NewBarTyped, WriteRowsTyped, DeleteTyped, InsertTyped, KillTyped, ReadBoundsTyped,
     UpdateTyped, CommitTyped, KillBackfillTyped, LoadTradesTyped, AttributeTyped DEF TablesNext
<1> QED BY <1>1, <1>2

(* The research tables keep their types: a bar has a regime or none, and   *)
(* the tag of a trade is a fold or none (hmm_regime.process_granularity,   *)
(* persist_trade_outcomes).                                                *)
THEOREM TablesTypeCorrect == TablesSpec => []TablesTypeOK
BY TypedInit, TypedNext, TablesTypes, PTL DEF TablesSpec

(***************************************************************************)
(* Out-of-sample trades and labelled bars begin together                   *)
(***************************************************************************)
TaggedLate(rows) == \A r \in rows : r.fold \notin {Null, 0} => r.entry > MinTrain

Late ==
  /\ backfill.left \subseteq backfill.starts \cup {0}
  /\ TaggedLate(outcomes) /\ TaggedLate(backfill.updated)
  /\ trades # Null => \A t \in trades : t > MinTrain

LEMMA LateInit == ASSUME TablesInit PROVE Late
BY DEF TablesInit, NoFolds, Late, TaggedLate

LEMMA LabelledLate ==
  ASSUME NEW load, NEW entries \in SUBSET (1..MaxBars)
  PROVE  TaggedLate(Labelled(load, entries))
<1> DEFINE starts == OosStarts(Min(entries), Max(entries))
<1> SUFFICES ASSUME NEW t \in entries, Assign(t, starts) # 0 PROVE t > MinTrain
  BY DEF Labelled, TaggedLate
<1>1. starts \subseteq MinTrain + 1..MaxBars
  BY EntriesSpan
<1>2. starts \in SUBSET (1..MaxBars) /\ MinTrain \in Nat /\ t \in Nat
  BY <1>1, TablesParameters
<1> HIDE DEF starts
<1>3. \E s \in starts : s <= t
  BY <1>2, AssignType
<1> QED BY <1>1, <1>2, <1>3

LEMMA UpdatedLate ==
  ASSUME TablesTyped, Late, UpdateRange
  PROVE  TaggedLate(UpdatedRows)
<1> DEFINE s == Min(backfill.left)
           later == {u \in backfill.starts : u > s}
           fold == Assign(s, backfill.starts)
<1> SUFFICES ASSUME NEW r \in outcomes, InRange(r.entry, s, later), fold # 0
             PROVE  r.entry > MinTrain
  <2>1. ASSUME NEW r \in outcomes PROVE [r EXCEPT !.fold = fold].entry = r.entry
                                        /\ [r EXCEPT !.fold = fold].fold = fold
    <3>1. r \in Rows
      BY DEF TablesTyped
    <3> QED BY <3>1 DEF Rows
  <2> QED BY <2>1 DEF UpdatedRows, TaggedLate
<1>1. s \in 0..MaxBars /\ backfill.starts \in SUBSET (MinTrain + 1..MaxBars)
  BY UpdateFact DEF TablesTyped
<1>2. backfill.starts \in SUBSET (1..MaxBars) /\ MinTrain \in Nat
  BY <1>1, TablesParameters
<1> HIDE DEF s
<1>3. PICK u \in backfill.starts : u <= s
  BY <1>2, AssignType
<1>4. s <= r.entry /\ r.entry \in 1..MaxBars
  BY DEF InRange, TablesTyped, Rows, Bars
<1> QED BY <1>1, <1>2, <1>3, <1>4, TablesParameters

LEMMA LateNext ==
  ASSUME TablesTyped, Late, [TablesNext]_tablesVars PROVE Late'
<1>1. CASE UNCHANGED <<outcomes, backfill, trades>>
  BY <1>1 DEF Late, TaggedLate
<1>2. ASSUME NEW l \in Loaders, DeleteOutcomes(l) PROVE Late'
  BY <1>2 DEF DeleteOutcomes, Late, TaggedLate
<1>3. ASSUME NEW l \in Loaders, InsertOutcomes(l) PROVE Late'
  <2>1. PICK now \in loader[l].bars..Len(raw) :
          outcomes' = outcomes \cup
            Labelled(loader[l].load, EntryBars \cap (now - Lookback + 1)..now)
    BY <1>3 DEF InsertOutcomes
  <2>2. EntryBars \cap (now - Lookback + 1)..now \in SUBSET (1..MaxBars)
    BY TablesParameters
  <2>3. TaggedLate(outcomes')
    BY <2>1, <2>2, LabelledLate DEF Late, TaggedLate
  <2>4. UNCHANGED <<backfill, trades>>
    BY <1>3 DEF InsertOutcomes
  <2> QED BY <2>3, <2>4 DEF Late, TaggedLate
<1>4. CASE ReadBounds
  BY <1>4 DEF ReadBounds, Late, TaggedLate
<1>5. CASE UpdateRange
  <2>1. /\ backfill' = [backfill EXCEPT !.left = backfill.left \ {Min(backfill.left)},
                          !.updated = Overwrite(backfill.updated, UpdatedRows)]
        /\ UNCHANGED <<outcomes, trades>>
    BY <1>5, UpdateFact
  <2>2. TaggedLate(UpdatedRows)
    BY <1>5, UpdatedLate
  <2>3. /\ backfill'.left \subseteq backfill.left /\ backfill'.starts = backfill.starts
        /\ backfill'.updated = Overwrite(backfill.updated, UpdatedRows)
    BY <2>1 DEF TablesTyped
  <2>4. TaggedLate(backfill'.updated)
    BY <2>2, <2>3 DEF Late, TaggedLate, Overwrite
  <2> QED BY <2>1, <2>3, <2>4 DEF Late, TaggedLate
<1>6. CASE CommitBackfill
  BY <1>6 DEF CommitBackfill, NoFolds, Overwrite, Late, TaggedLate
<1>7. CASE KillBackfill
  BY <1>7 DEF KillBackfill, NoFolds, Late, TaggedLate
<1>8. CASE LoadTrades
  <2>1. /\ trades' = Entries(OutOfSample(outcomes)) /\ UNCHANGED <<outcomes, backfill>>
    BY <1>8 DEF LoadTrades
  <2>2. \A t \in trades' : t > MinTrain
    BY <2>1 DEF Entries, OutOfSample, Late, TaggedLate
  <2> QED BY <2>1, <2>2 DEF Late, TaggedLate
<1>9. CASE Attribute
  BY <1>9 DEF Attribute, Late, TaggedLate
<1> QED BY <1>1, <1>2, <1>3, <1>4, <1>5, <1>6, <1>7, <1>8, <1>9
        DEF TablesNext, tablesVars, NewBar, WriteRows, KillLoader

LEMMA UnknownStep ==
  ASSUME TablesTyped, Late, [TablesNext]_tablesVars, Unknown \in cells' \ cells
  PROVE  \A t \in Bars : regimes[t] = Null
<1>1. Attribute
  BY DEF TablesNext, tablesVars, NewBar, WriteRows, DeleteOutcomes,
         InsertOutcomes, KillLoader, ReadBounds, UpdateRange,
         CommitBackfill, KillBackfill, LoadTrades
<1>2. PICK t \in trades : Unknown = RegimeAt(t)
  BY <1>1 DEF Attribute
<1>3. t \in 1..MaxBars /\ t > MinTrain
  BY <1>1, <1>2 DEF Attribute, TablesTyped, Late
<1>4. \A b \in 1..t : regimes[b] = Null
  BY <1>2, <1>3, RegimeFact, TablesParameters
<1>5. MinTrain \in Nat /\ MaxBars \in Nat /\ 1 \in 1..t
  BY <1>3, TablesParameters
<1>6. CASE method = "walk_forward" /\ \E m \in MinTrain + 2..Len(raw) : regimes = LabelledTo(m)
  <2>1. PICK m \in MinTrain + 2..Len(raw) : regimes = LabelledTo(m)
    BY <1>6
  <2>2. m \in 0..Len(raw) /\ m <= MaxBars
    BY <1>5, <2>1 DEF TablesTyped
  <2>3. {b \in 1..MaxBars : regimes[b] # Null} = MinTrain + 1..m - 1
    BY <2>1, <2>2, LabelledType DEF TablesTyped
  <2>4. MinTrain + 1 \in 1..t /\ MinTrain + 1 \in MinTrain + 1..m - 1
    BY <1>3, <1>5, <2>1
  <2> QED BY <1>4, <2>3, <2>4
<1>7. CASE method = Null /\ regimes = [b \in 1..MaxBars |-> Null]
  BY <1>7 DEF Bars
<1>8. CASE method = "filtered" /\ regimes[1] # Null
  BY <1>4, <1>5, <1>8
<1> QED BY <1>6, <1>7, <1>8 DEF TablesTyped, RegimesSound

(* The trades have their cutoff MinTrain bars after the first entry, the   *)
(* labels theirs MinTrain bars after the first bar: an out-of-sample trade *)
(* of a loader, a backfill or both is without a regime only while no bar   *)
(* has a label (persist_trade_outcomes and hmm_regime share their folds,   *)
(* not their origin).                                                      *)
THEOREM UnknownOnlyUnlabelled ==
  TablesSpec => UnknownMeansUnlabelled
<1>1. TablesTyped /\ Late /\ [TablesNext]_tablesVars =>
        [(Unknown \in cells' \ cells) => \A t \in Bars : regimes[t] = Null]_tablesVars
  BY UnknownStep
<1> QED BY <1>1, TypedInit, TypedNext, LateInit, LateNext, PTL DEF TablesSpec, UnknownMeansUnlabelled

(***************************************************************************)
(* Copies of a trade                                                       *)
(***************************************************************************)
LoadsOf(rows) == {r.load : r \in rows}
LoadsPresent == LoadsOf(outcomes) \ {0}
Inserting == {l \in Loaders : loader[l].at = "deleted"}
Unique(rows) == \A r, q \in rows : SameRow(r, q) => r = q

(* A load in the table or about to be inserted is one of a loader that has *)
(* not deleted since: each of them cost a process.                         *)
RowsUnique ==
  /\ Unique(outcomes) /\ Unique(backfill.updated)
  /\ \A q \in backfill.updated : \E r \in outcomes : SameRow(r, q)
LoadsApart ==
  /\ \A r \in outcomes : r.load <= loads
  /\ \A l \in Inserting : loader[l].load \in 1..loads /\ loader[l].load \notin LoadsOf(outcomes)
  /\ \A l, k \in Inserting : loader[l].load = loader[k].load => l = k
LoadsFit == Cardinality(LoadsPresent) + Cardinality(Inserting) <= Cardinality(Loaders)

Copies == RowsUnique /\ LoadsApart /\ LoadsFit

LEMMA LoadsFinite ==
  ASSUME TablesTyped, LoadsApart, IsFiniteSet(Loaders)
  PROVE  /\ IsFiniteSet(LoadsPresent) /\ Cardinality(LoadsPresent) \in Nat
         /\ IsFiniteSet(Inserting) /\ Cardinality(Inserting) \in Nat
         /\ Cardinality(Inserting) <= Cardinality(Loaders) /\ Cardinality(Loaders) \in Nat
<1>1. LoadsPresent \in SUBSET (0..MaxLoads)
  BY DEF LoadsPresent, LoadsOf, TablesTyped, Rows
<1>2. IsFiniteSet(0..MaxLoads)
  BY FS_Interval, TablesParameters
<1>3. IsFiniteSet(LoadsPresent)
  BY <1>1, <1>2, FS_Subset
<1>4. Inserting \in SUBSET Loaders
  BY DEF Inserting
<1> QED BY <1>3, <1>4, FS_Subset, FS_CardinalityType

LEMMA CopiesInit == ASSUME TablesInit, IsFiniteSet(Loaders) PROVE Copies
<1>1. PICK n \in 1..MinTrain + 1 :
        outcomes = [load : {0}, entry : Legacy \cap 1..n, fold : {Null}] /\ loads = 0
  BY DEF TablesInit
<1>2. RowsUnique
  <2>1. backfill.updated = {}
    BY DEF TablesInit, NoFolds
  <2>2. \A r, q \in outcomes : SameRow(r, q) => r = q
    BY <1>1 DEF SameRow
  <2> QED BY <2>1, <2>2 DEF RowsUnique, Unique
<1>3. \A r \in outcomes : r.load = 0
  BY <1>1
<1>4. Inserting = {}
  BY DEF TablesInit, NotLoading, Inserting
<1>5. LoadsApart
  BY <1>1, <1>3, <1>4 DEF LoadsApart
<1>6. LoadsPresent = {}
  BY <1>3 DEF LoadsPresent, LoadsOf
<1>7. LoadsFit
  <2>1. Cardinality(LoadsPresent) = 0 /\ Cardinality(Inserting) = 0
    BY <1>4, <1>6, FS_EmptySet
  <2>2. Cardinality(Loaders) \in Nat
    BY FS_CardinalityType
  <2> QED BY <2>1, <2>2 DEF LoadsFit
<1> QED BY <1>2, <1>5, <1>7 DEF Copies

LEMMA CopiesFrame ==
  ASSUME Copies, UNCHANGED <<outcomes, loads, loader>>, RowsUnique'
  PROVE  Copies'
BY DEF Copies, LoadsApart, LoadsFit, LoadsPresent, LoadsOf, Inserting

LEMMA CopiesDelete ==
  ASSUME TablesTyped, Copies, IsFiniteSet(Loaders),
         NEW l \in Loaders, DeleteOutcomes(l)
  PROVE  Copies'
<1>1. /\ loader[l].at = "idle" /\ loads' = loads + 1
      /\ \A r \in backfill.updated : r.load = 0
      /\ outcomes' = {r \in outcomes : r.load = 0}
      /\ loader' = [loader EXCEPT ![l] = [at |-> "deleted", load |-> loads + 1, bars |-> Len(raw)]]
      /\ UNCHANGED backfill
  BY DEF DeleteOutcomes
<1>2. RowsUnique'
  BY <1>1 DEF Copies, RowsUnique, Unique, SameRow
<1>3. loads \in Nat /\ \A k \in Loaders : loader[k].load \in 0..loads
  BY TablesParameters DEF TablesTyped
<1>4. /\ Inserting' = Inserting \cup {l} /\ l \notin Inserting
      /\ loader'[l].load = loads + 1
      /\ \A k \in Inserting : loader'[k].load = loader[k].load
  BY <1>1 DEF Inserting, TablesTyped
<1>5. \A r \in outcomes' : r.load = 0
  BY <1>1
<1>6. LoadsApart'
  <2>1. \A r \in outcomes' : r.load <= loads'
    BY <1>1, <1>3, <1>5
  <2>2. \A k \in Inserting' : loader'[k].load \in 1..loads'
    BY <1>1, <1>3, <1>4 DEF Copies, LoadsApart
  <2>3. \A k \in Inserting' : loader'[k].load \notin LoadsOf(outcomes')
    BY <1>5, <2>2 DEF LoadsOf
  <2>4. \A k, i \in Inserting' : loader'[k].load = loader'[i].load => k = i
    BY <1>3, <1>4 DEF Copies, LoadsApart
  <2> QED BY <2>1, <2>2, <2>3, <2>4 DEF LoadsApart
<1>7. LoadsPresent' = {}
  BY <1>5 DEF LoadsPresent, LoadsOf
<1>8. LoadsFit'
  <2>1. Inserting' \in SUBSET Loaders
    BY DEF Inserting
  <2>2. /\ Cardinality(Inserting') <= Cardinality(Loaders)
        /\ Cardinality(Inserting') \in Nat /\ Cardinality(Loaders) \in Nat
    BY <2>1, FS_Subset, FS_CardinalityType
  <2>3. Cardinality(LoadsPresent') = 0
    BY <1>7, FS_EmptySet
  <2> QED BY <2>2, <2>3 DEF LoadsFit
<1> QED BY <1>2, <1>6, <1>8 DEF Copies

(* Rows leave the loads that are there, or add that of the loader.         *)
LEMMA CopiesLeave ==
  ASSUME TablesTyped, Copies, IsFiniteSet(Loaders), RowsUnique',
         NEW l \in Loaders, loader[l].at = "deleted",
         LoadsOf(outcomes') \subseteq LoadsOf(outcomes) \cup {loader[l].load},
         loads' = loads, loader' = [loader EXCEPT ![l] = NotLoading]
  PROVE  Copies'
<1>1. /\ l \in Inserting /\ Inserting' = Inserting \ {l}
      /\ \A k \in Inserting' : loader'[k] = loader[k]
  BY DEF Inserting, TablesTyped, NotLoading
<1>2. LoadsApart'
  <2>1. \A load \in LoadsOf(outcomes) : load \in 0..MaxLoads /\ load <= loads
    BY DEF Copies, LoadsApart, LoadsOf, TablesTyped, Rows
  <2>2. loader[l].load <= loads
    BY <1>1 DEF Copies, LoadsApart
  <2>3. \A load \in LoadsOf(outcomes') : load <= loads'
    BY <2>1, <2>2
  <2>4. \A r \in outcomes' : r.load <= loads'
    BY <2>3 DEF LoadsOf
  <2>5. \A k \in Inserting' : loader'[k].load \in 1..loads' /\ loader'[k].load \notin LoadsOf(outcomes')
    BY <1>1 DEF Copies, LoadsApart
  <2>6. \A k, i \in Inserting' : loader'[k].load = loader'[i].load => k = i
    BY <1>1 DEF Copies, LoadsApart
  <2> QED BY <2>4, <2>5, <2>6 DEF LoadsApart
<1>3. LoadsFit'
  <2>1. LoadsPresent' \in SUBSET (LoadsPresent \cup {loader[l].load})
    BY DEF LoadsPresent
  <2>2. /\ IsFiniteSet(LoadsPresent) /\ Cardinality(LoadsPresent) \in Nat
        /\ IsFiniteSet(Inserting) /\ Cardinality(Inserting) \in Nat
        /\ Cardinality(Loaders) \in Nat
    BY LoadsFinite DEF Copies
  <2>3. /\ IsFiniteSet(LoadsPresent \cup {loader[l].load})
        /\ Cardinality(LoadsPresent \cup {loader[l].load}) <= Cardinality(LoadsPresent) + 1
        /\ Cardinality(LoadsPresent \cup {loader[l].load}) \in Nat
    <3> DEFINE wider == LoadsPresent \cup {loader[l].load}
    <3>1. IsFiniteSet(wider)
          /\ Cardinality(wider) = IF loader[l].load \in LoadsPresent THEN Cardinality(LoadsPresent)
                                  ELSE Cardinality(LoadsPresent) + 1
      BY <2>2, FS_AddElement
    <3> HIDE DEF wider
    <3>2. Cardinality(wider) \in {Cardinality(LoadsPresent), Cardinality(LoadsPresent) + 1}
      BY <3>1
    <3>3. Cardinality(wider) <= Cardinality(LoadsPresent) + 1 /\ Cardinality(wider) \in Nat
      BY <2>2, <3>2
    <3> QED BY <3>1, <3>3 DEF wider
  <2>4. Cardinality(LoadsPresent') <= Cardinality(LoadsPresent) + 1 /\ Cardinality(LoadsPresent') \in Nat
    <3>1. IsFiniteSet(LoadsPresent') /\ Cardinality(LoadsPresent') <= Cardinality(LoadsPresent \cup {loader[l].load})
      BY <2>1, <2>3, FS_Subset
    <3>2. Cardinality(LoadsPresent') \in Nat
      BY <3>1, FS_CardinalityType
    <3> QED BY <2>2, <2>3, <3>1, <3>2
  <2>5. Cardinality(Inserting') = Cardinality(Inserting) - 1
    BY <1>1, <2>2, FS_RemoveElement
  <2>6. Cardinality(LoadsPresent) + Cardinality(Inserting) <= Cardinality(Loaders)
    BY DEF Copies, LoadsFit
  <2> QED BY <2>2, <2>4, <2>5, <2>6 DEF LoadsFit
<1> QED BY <1>2, <1>3 DEF Copies

LEMMA CopiesInsert ==
  ASSUME TablesTyped, Copies, IsFiniteSet(Loaders),
         NEW l \in Loaders, InsertOutcomes(l)
  PROVE  Copies'
<1>1. PICK now \in loader[l].bars..Len(raw) :
        outcomes' = outcomes \cup
          Labelled(loader[l].load, EntryBars \cap (now - Lookback + 1)..now)
  BY DEF InsertOutcomes
<1>2. /\ loader[l].at = "deleted" /\ loads' = loads
      /\ loader' = [loader EXCEPT ![l] = NotLoading] /\ UNCHANGED backfill
  BY DEF InsertOutcomes
<1> DEFINE load == loader[l].load
           new == Labelled(load, EntryBars \cap (now - Lookback + 1)..now)
<1>3. \A r \in new : r.load = load
  BY DEF Labelled
<1>4. ASSUME NEW r \in new, NEW q \in new, r.entry = q.entry PROVE r = q
  <2> DEFINE entries == EntryBars \cap (now - Lookback + 1)..now
             fold(t) == Assign(t, OosStarts(Min(entries), Max(entries)))
  <2>1. PICK t \in entries : r = [load |-> load, entry |-> t, fold |-> fold(t)]
    BY DEF Labelled
  <2>2. PICK u \in entries : q = [load |-> load, entry |-> u, fold |-> fold(u)]
    BY DEF Labelled
  <2> HIDE DEF new, entries, fold, load
  <2>3. t = u
    BY <1>4, <2>1, <2>2
  <2> QED BY <2>1, <2>2, <2>3
<1>5. load \notin LoadsOf(outcomes)
  BY <1>2 DEF Copies, LoadsApart, Inserting
<1> HIDE DEF new
<1>6. outcomes' = outcomes \cup new
  BY <1>1 DEF new
<1>7. LoadsOf(outcomes') \subseteq LoadsOf(outcomes) \cup {load}
  BY <1>3, <1>6 DEF LoadsOf
<1>8. \A r \in outcomes : r.load # load
  BY <1>5 DEF LoadsOf
<1>9. Unique(outcomes')
  BY <1>3, <1>4, <1>6, <1>8 DEF Unique, SameRow, Copies, RowsUnique
<1>10. RowsUnique'
  BY <1>2, <1>6, <1>9 DEF RowsUnique, Copies, Unique
<1> QED BY <1>2, <1>7, <1>10, CopiesLeave

LEMMA CopiesUpdate ==
  ASSUME TablesTyped, Copies, UpdateRange PROVE Copies'
<1> DEFINE new == UpdatedRows
           updated == Overwrite(backfill.updated, new)
<1>1. /\ backfill' = [backfill EXCEPT !.left = backfill.left \ {Min(backfill.left)},
                        !.updated = updated]
      /\ UNCHANGED <<outcomes, loads, loader>>
  BY UpdateFact
<1> DEFINE fold == Assign(Min(backfill.left), backfill.starts)
<1>2. \A q \in new : \E r \in outcomes : q = [r EXCEPT !.fold = fold]
  BY DEF UpdatedRows
<1> HIDE DEF new, fold
<1>3. \A r \in outcomes : SameRow(r, [r EXCEPT !.fold = fold])
  BY DEF TablesTyped, Rows, SameRow
<1>4. \A q \in new : \E r \in outcomes : SameRow(r, q)
  BY <1>2, <1>3
<1>5. Unique(new)
  <2> SUFFICES ASSUME NEW x \in new, NEW y \in new, SameRow(x, y) PROVE x = y
    BY DEF Unique
  <2>1. PICK r \in outcomes : x = [r EXCEPT !.fold = fold]
    BY <1>2
  <2>2. PICK q \in outcomes : y = [q EXCEPT !.fold = fold]
    BY <1>2
  <2>3. SameRow(r, q)
    BY <1>3, <2>1, <2>2 DEF SameRow
  <2>4. r = q
    BY <2>3 DEF Copies, RowsUnique, Unique
  <2> QED BY <2>1, <2>2, <2>4
<1>6. Unique(updated)
  BY <1>5 DEF Overwrite, Unique, Copies, RowsUnique, SameRow
<1>7. \A q \in updated : \E r \in outcomes : SameRow(r, q)
  BY <1>4 DEF Overwrite, Copies, RowsUnique
<1>8. backfill'.updated = updated
  BY <1>1 DEF TablesTyped
<1> HIDE DEF updated
<1>9. RowsUnique'
  BY <1>1, <1>6, <1>7, <1>8 DEF RowsUnique, Copies
<1> QED BY <1>1, <1>9, CopiesFrame

LEMMA CopiesCommit ==
  ASSUME TablesTyped, Copies, IsFiniteSet(Loaders), CommitBackfill
  PROVE  Copies'
<1>1. /\ outcomes' = Overwrite(outcomes, backfill.updated)
      /\ backfill'.updated = {} /\ UNCHANGED <<loads, loader>>
  BY DEF CommitBackfill, NoFolds
<1>2. RowsUnique'
  BY <1>1 DEF RowsUnique, Copies, Unique, Overwrite, SameRow
<1>3. \A r \in outcomes' : \E q \in outcomes : q.load = r.load
  BY <1>1 DEF Copies, RowsUnique, Overwrite, SameRow
<1>4. LoadsOf(outcomes') \subseteq LoadsOf(outcomes)
  BY <1>3 DEF LoadsOf
<1>5. LoadsApart'
  <2>1. \A r \in outcomes' : r.load <= loads'
    BY <1>1, <1>3 DEF Copies, LoadsApart
  <2> QED BY <1>1, <1>4, <2>1 DEF Copies, LoadsApart, Inserting
<1>6. LoadsFit'
  <2>1. LoadsPresent' \in SUBSET LoadsPresent /\ Inserting' = Inserting
    BY <1>1, <1>4 DEF LoadsPresent, Inserting
  <2>2. /\ IsFiniteSet(LoadsPresent) /\ Cardinality(LoadsPresent) \in Nat
        /\ Cardinality(Inserting) \in Nat /\ Cardinality(Loaders) \in Nat
    BY LoadsFinite DEF Copies
  <2>3. Cardinality(LoadsPresent') <= Cardinality(LoadsPresent) /\ Cardinality(LoadsPresent') \in Nat
    BY <2>1, <2>2, FS_Subset, FS_CardinalityType
  <2> QED BY <2>1, <2>2, <2>3 DEF Copies, LoadsFit
<1> QED BY <1>2, <1>5, <1>6 DEF Copies

LEMMA CopiesNext ==
  ASSUME TablesTyped, Copies, IsFiniteSet(Loaders), [TablesNext]_tablesVars
  PROVE  Copies'
<1>1. CASE UNCHANGED <<outcomes, loads, loader>> /\ backfill'.updated \in {backfill.updated, {}}
  BY <1>1, CopiesFrame DEF Copies, RowsUnique, Unique
<1>2. ASSUME NEW l \in Loaders, KillLoader(l) PROVE Copies'
  <2>1. RowsUnique' /\ LoadsOf(outcomes') = LoadsOf(outcomes)
    BY <1>2 DEF KillLoader, Copies, RowsUnique, Unique
  <2>2. loader[l].at = "deleted"
    BY <1>2 DEF KillLoader, TablesTyped
  <2> QED BY <1>2, <2>1, <2>2, CopiesLeave DEF KillLoader
<1>3. CASE ReadBounds
  BY <1>1, <1>3 DEF ReadBounds
<1>4. CASE KillBackfill
  BY <1>1, <1>4 DEF KillBackfill, NoFolds
<1>5. CASE NewBar \/ WriteRows \/ LoadTrades \/ Attribute
           \/ UNCHANGED tablesVars
  BY <1>1, <1>5 DEF NewBar, WriteRows, LoadTrades, Attribute, tablesVars
<1> QED BY <1>2, <1>3, <1>4, <1>5, CopiesDelete, CopiesInsert, CopiesUpdate, CopiesCommit
        DEF TablesNext

LEMMA CopiesFact ==
  ASSUME TablesTyped, Copies, IsFiniteSet(Loaders) PROVE CopiesBounded
<1> SUFFICES ASSUME NEW t \in EntryBars
             PROVE  Cardinality({r \in outcomes : r.entry = t /\ r.load # 0}) <= Cardinality(Loaders)
  BY SameCardinality DEF CopiesBounded
<1> DEFINE copies == {r \in outcomes : r.entry = t /\ r.load # 0}
           f == [r \in copies |-> r.load]
<1>1. f \in Injection(copies, LoadsPresent)
  <2>1. f \in [copies -> LoadsPresent]
    BY DEF LoadsPresent, LoadsOf
  <2>2. \A r, q \in copies : f[r] = f[q] => r = q
    BY DEF Copies, RowsUnique, Unique, SameRow
  <2> HIDE DEF f, copies
  <2> QED BY <2>1, <2>2, Fun_IsInj
<1>2. /\ IsFiniteSet(LoadsPresent) /\ Cardinality(LoadsPresent) \in Nat
      /\ Cardinality(Inserting) \in Nat /\ Cardinality(Loaders) \in Nat
  BY LoadsFinite DEF Copies
<1> HIDE DEF f, copies
<1>3. IsFiniteSet(copies) /\ Cardinality(copies) <= Cardinality(LoadsPresent)
  BY <1>1, <1>2, FS_Injection
<1>4. Cardinality(copies) \in Nat
  BY <1>3, FS_CardinalityType
<1>5. Cardinality(LoadsPresent) <= Cardinality(Loaders)
  BY <1>2 DEF Copies, LoadsFit
<1>6. Cardinality(copies) <= Cardinality(Loaders)
  BY <1>2, <1>3, <1>4, <1>5
<1> QED BY <1>6 DEF copies

(* However the loaders, the backfill and their kills interleave, a trade   *)
(* is in the table at most once for each loader process, besides the       *)
(* legacy row: the delete and the insert of persist_trade_outcomes are two *)
(* transactions, so more than one copy is possible.                        *)
THEOREM CopiesAreBounded ==
  ASSUME IsFiniteSet(Loaders) PROVE TablesSpec => []CopiesBounded
BY TypedInit, TypedNext, CopiesInit, CopiesNext, CopiesFact, PTL DEF TablesSpec

(***************************************************************************)
(* Labels that change                                                      *)
(***************************************************************************)
LEMMA SegmentBegins ==
  ASSUME RawSound, NEW n \in 0..Len(raw), NEW m \in 0..n, MinTrain + 1 < m
  PROVE  Begins(Segment(m), Segment(n))
<1>1. m \in Nat /\ n \in Nat /\ m <= n /\ MinTrain \in Nat /\ m \in 0..Len(raw) /\ MinTrain + 1 < n
  BY LenProperties, TablesParameters DEF RawSound
<1>2. Len(Segment(m)) = m - 1 - MinTrain /\ Len(Segment(n)) = n - 1 - MinTrain
  BY <1>1, SegmentType
<1>3. \A k \in 1..m - 1 - MinTrain : k \in 1..n - 1 - MinTrain /\ Segment(m)[k] = Segment(n)[k]
  BY <1>1 DEF Segment
<1> QED BY <1>1, <1>2, <1>3 DEF Begins

LEMMA RevisionStep ==
  ASSUME TablesTyped, [TablesNext]_tablesVars, method = "walk_forward",
         NEW t \in Bars, regimes[t] # Null, regimes'[t] # regimes[t]
  PROVE  Recent(t)
<1> DEFINE n == Len(raw)
           labelled == {b \in Bars : regimes[b] # Null}
<1>1. WriteRows
  BY DEF TablesNext, tablesVars, NewBar, DeleteOutcomes,
         InsertOutcomes, KillLoader, ReadBounds, UpdateRange,
         CommitBackfill, KillBackfill, LoadTrades, Attribute
<1>2. PICK m \in MinTrain + 2..n : regimes = LabelledTo(m)
  <2>1. ~(method = Null /\ regimes = [b \in 1..MaxBars |-> Null])
    BY DEF Bars
  <2> QED BY <2>1 DEF TablesTyped, RegimesSound
<1>3. /\ RawSound /\ n \in 1..MaxBars /\ m \in 0..n /\ MinTrain \in Nat /\ MinBars \in Nat \ {0}
      /\ MaxBars \in Nat /\ t \in 1..MaxBars /\ m <= MaxBars
  BY <1>2, TablesParameters DEF TablesTyped, Bars
<1>4. labelled = MinTrain + 1..m - 1
  BY <1>2, <1>3, LabelledType DEF Bars
<1>5. t \in MinTrain + 1..m - 1
  BY <1>4
<1>6. Max(labelled) = m - 1
  <2>1. labelled \in SUBSET (0..m) /\ labelled # {} /\ m - 1 \in labelled /\ m \in Nat
    BY <1>3, <1>4, <1>5
  <2> HIDE DEF labelled, n
  <2>2. Max(labelled) \in labelled /\ m - 1 <= Max(labelled)
    BY <2>1, MaxExists
  <2> QED BY <1>3, <1>4, <2>2
<1>7. Cardinality(labelled) = m - 1 - MinTrain
  <2>1. Cardinality(MinTrain + 1..m - 1) = m - 1 - MinTrain
    BY <1>3, <1>5, FS_Interval
  <2> QED BY <1>4, <2>1, SameCardinality
<1> HIDE DEF labelled, n
<1>8. SUFFICES ASSUME t + MinBars - 1 <= m - 1, m - 1 - MinTrain >= 2 * MinBars - 1 PROVE FALSE
  <2>1. Recent(t) <=> \/ t > Max(labelled) - (MinBars - 1)
                             \/ Cardinality(labelled) < 2 * MinBars - 1
    BY DEF Recent, labelled
  <2> QED BY <1>3, <1>6, <1>7, <2>1
<1> DEFINE k == t - MinTrain
<1>9. /\ MinTrain + 1 < m /\ MinTrain + 1 < n /\ m \in 0..Len(raw) /\ n \in 0..Len(raw)
      /\ k \in 1..m - 1 - MinTrain /\ k + MinBars - 1 <= m - 1 - MinTrain
  BY <1>3, <1>5, <1>8 DEF n
<1>10. /\ Segment(m) \in Seq(Labels) /\ Len(Segment(m)) = m - 1 - MinTrain
       /\ Segment(n) \in Seq(Labels) /\ Begins(Segment(m), Segment(n))
  BY <1>3, <1>9, SegmentType, SegmentBegins
<1>11. Smooth(Segment(n))[k] = Smooth(Segment(m))[k]
  BY <1>8, <1>9, <1>10, SmoothStays
<1>12. t \in MinTrain + 1..n - 1
  BY <1>3, <1>5
<1>13. HasFolds(n)
  BY <1>3, <1>9, FoldsFrom
<1>14. regimes[t] = Smooth(Segment(m))[k]
  BY <1>2, <1>3, <1>5 DEF LabelledTo
<1>15. regimes'[t] = Smooth(Segment(n))[k]
  <2>1. regimes' = LabelledTo(n)
    BY <1>1, <1>13, WriteRowsFact DEF n
  <2> QED BY <1>3, <1>12, <2>1 DEF LabelledTo
<1> QED BY <1>11, <1>14, <1>15

(* However many bars come between two runs of the labeller, once the      *)
(* labels are those of folds the later run changes none of the earlier but *)
(* in the last MinBars - 1 labelled bars, as soon as two whole segments    *)
(* fit in what was labelled (causal_labels and persistence_smooth). The    *)
(* labels of a history too short for folds are not held to anything.       *)
THEOREM RevisionsStayRecent ==
  TablesSpec => RevisionsAreRecent
<1>1. TablesTyped /\ [TablesNext]_tablesVars =>
        [\A t \in Bars :
           method = "walk_forward" /\ regimes[t] # Null /\ regimes'[t] # regimes[t]
             => Recent(t)]_tablesVars
  BY RevisionStep
<1> QED BY <1>1, TypedInit, TypedNext, PTL DEF TablesSpec, RevisionsAreRecent

(***************************************************************************)
(* The tags of a backfill                                                  *)
(***************************************************************************)
Folds(entries) == OosStarts(Min(entries), Max(entries))
OfLoad(rows, load) == {q \in rows : q.load = load}

(* The tag the insert gives a row, if its load is the one in the table.    *)
OwnFold(rows, r) == Assign(r.entry, Folds(Entries(OfLoad(rows, r.load))))

Waits(t) == \E s \in backfill.left : InRange(t, s, {u \in backfill.starts : u > s})

(* A row in the table is legacy, updated, waits for a range that is still  *)
(* to be updated, or came later and has the tag of its insert.             *)
Tags ==
  backfill.at = "updating" =>
    /\ \A q \in backfill.updated : q.fold = Assign(q.entry, backfill.starts)
    /\ \A r \in outcomes : \/ r.load = 0
                           \/ \E q \in backfill.updated : SameRow(r, q)
                           \/ Waits(r.entry)
                           \/ r.fold = OwnFold(outcomes, r)

LEMMA TagsInit == ASSUME TablesInit PROVE Tags
BY DEF TablesInit, NoFolds, Tags

LEMMA TagsDelete ==
  ASSUME TablesTyped, Tags, NEW l \in Loaders, DeleteOutcomes(l)
  PROVE  Tags'
<1>1. outcomes' = {r \in outcomes : r.load = 0} /\ backfill' = backfill
  BY DEF DeleteOutcomes
<1> QED BY <1>1 DEF Tags

LEMMA TagsInsert ==
  ASSUME TablesTyped, Copies, Tags, NEW l \in Loaders, InsertOutcomes(l)
  PROVE  Tags'
<1>1. PICK now \in loader[l].bars..Len(raw) :
        outcomes' = outcomes \cup
          Labelled(loader[l].load, EntryBars \cap (now - Lookback + 1)..now)
  BY DEF InsertOutcomes
<1> DEFINE load == loader[l].load
           entries == EntryBars \cap (now - Lookback + 1)..now
           new == Labelled(load, entries)
<1>2. loader[l].at = "deleted" /\ UNCHANGED backfill
  BY DEF InsertOutcomes
<1>3. load \notin LoadsOf(outcomes)
  BY <1>2 DEF Copies, LoadsApart, Inserting
<1>4. new = {[load |-> load, entry |-> t, fold |-> Assign(t, Folds(entries))] : t \in entries}
  BY DEF Labelled, Folds
<1> HIDE DEF load, entries, new
<1>5. outcomes' = outcomes \cup new
  BY <1>1 DEF load, entries, new
<1>6. \A r \in new : r.load = load /\ r.entry \in entries /\ r.fold = Assign(r.entry, Folds(entries))
  BY <1>4
<1>7. \A r \in outcomes : r.load # load
  BY <1>3 DEF LoadsOf
<1>8. OfLoad(outcomes', load) = new
  BY <1>5, <1>6, <1>7 DEF OfLoad
<1>9. Entries(new) = entries
  <2>1. \A r \in new : r.entry \in entries
    BY <1>6
  <2>2. ASSUME NEW t \in entries PROVE \E r \in new : r.entry = t
    <3> DEFINE r == [load |-> load, entry |-> t, fold |-> Assign(t, Folds(entries))]
    <3>1. r \in new /\ r.entry = t
      BY <1>4
    <3> QED BY <3>1
  <2> QED BY <2>1, <2>2 DEF Entries
<1>10. \A r \in new : r.fold = OwnFold(outcomes', r)
  BY <1>6, <1>8, <1>9 DEF OwnFold
<1>11. \A r \in outcomes : OfLoad(outcomes', r.load) = OfLoad(outcomes, r.load)
  BY <1>5, <1>6, <1>7 DEF OfLoad
<1>12. \A r \in outcomes : OwnFold(outcomes', r) = OwnFold(outcomes, r)
  BY <1>11 DEF OwnFold
<1>13. \A t : Waits(t)' <=> Waits(t)
  BY <1>2 DEF Waits
<1> QED BY <1>2, <1>5, <1>10, <1>12, <1>13 DEF Tags

(* Every entry is in a range: that of the last start at or before it, or   *)
(* that before the first.                                                  *)
LEMMA RangesCover ==
  ASSUME NEW starts \in SUBSET (MinTrain + 1..MaxBars), NEW t \in 1..MaxBars
  PROVE  \E s \in starts \cup {0} : InRange(t, s, {u \in starts : u > s})
<1> DEFINE before == {s \in starts \cup {0} : s <= t}
           s == Max(before)
<1>1. MinTrain \in Nat /\ MaxBars \in Nat /\ t \in Nat
  BY TablesParameters
<1>2. before \in SUBSET (0..MaxBars) /\ 0 \in before
  <2>1. \A u \in starts : u \in 0..MaxBars
    BY <1>1
  <2>2. 0 \in 0..MaxBars /\ 0 <= t
    BY <1>1
  <2>3. \A u \in before : u \in 0..MaxBars
    BY <2>1, <2>2
  <2>4. 0 \in before
    BY <2>2
  <2> QED BY <2>3, <2>4
<1>3. s \in before /\ \A u \in before : u <= s
  BY <1>1, <1>2, MaxExists
<1> HIDE DEF s
<1>4. s \in starts \cup {0} /\ s <= t /\ s \in Nat
  BY <1>1, <1>3
<1>5. \A u \in starts : u > s => t < u
  BY <1>1, <1>3, <1>4
<1> QED BY <1>4, <1>5 DEF InRange

LEMMA TagsRead == ASSUME TablesTyped, ReadBounds PROVE Tags'
<1>1. /\ backfill' = [at |-> "updating", starts |-> TableStarts,
                      left |-> TableStarts \cup {0}, updated |-> {}]
      /\ outcomes # {} /\ outcomes' = outcomes
  BY DEF ReadBounds
<1>2. TableStarts \in SUBSET (MinTrain + 1..MaxBars)
  BY <1>1, TableStartsType
<1>3. ASSUME NEW r \in outcomes' PROVE Waits(r.entry)'
  <2>1. r.entry \in 1..MaxBars
    BY <1>1 DEF TablesTyped, Rows, Bars
  <2> QED BY <1>1, <1>2, <2>1, RangesCover DEF Waits
<1> QED BY <1>1, <1>3 DEF Tags

(* An update of a range gives its rows the number of its window.           *)
LEMMA RangeFold ==
  ASSUME NEW starts \in SUBSET (MinTrain + 1..MaxBars), NEW t \in 1..MaxBars,
         NEW s \in 0..MaxBars, InRange(t, s, {u \in starts : u > s})
  PROVE  Assign(s, starts) = Assign(t, starts)
<1>1. s <= t /\ \A u \in starts : u > s => t < u
  BY DEF InRange
<1>2. \A u \in starts : u \in Int
  OBVIOUS
<1>3. s \in Int /\ t \in Int
  OBVIOUS
<1>4. \A u \in starts : u <= s <=> u <= t
  BY <1>1, <1>2, <1>3
<1> QED BY <1>4 DEF Assign

LEMMA TagsUpdate ==
  ASSUME TablesTyped, Tags, UpdateRange PROVE Tags'
<1> DEFINE s == Min(backfill.left)
           starts == backfill.starts
           later == {u \in starts : u > s}
           new == UpdatedRows
           updated == Overwrite(backfill.updated, new)
           fold == Assign(s, starts)
<1>1. /\ backfill.at = "updating" /\ s \in backfill.left /\ s \in 0..MaxBars
      /\ backfill' = [backfill EXCEPT !.left = backfill.left \ {s}, !.updated = updated]
      /\ outcomes' = outcomes
  BY UpdateFact
<1>2. \A q \in new : \E r \in outcomes : InRange(r.entry, s, later) /\ q = [r EXCEPT !.fold = fold]
  BY DEF UpdatedRows
<1>3. \A r \in outcomes : InRange(r.entry, s, later) => [r EXCEPT !.fold = fold] \in new
  BY DEF UpdatedRows
<1>4. starts \in SUBSET (MinTrain + 1..MaxBars)
  BY DEF TablesTyped
<1> HIDE DEF s, starts, new, fold
<1>5. \A r \in outcomes : /\ SameRow(r, [r EXCEPT !.fold = fold])
                          /\ [r EXCEPT !.fold = fold].entry = r.entry
                          /\ [r EXCEPT !.fold = fold].fold = fold
                          /\ r.entry \in 1..MaxBars
  BY DEF TablesTyped, Rows, Bars, SameRow
<1>6. \A q \in new : q.fold = Assign(q.entry, starts)
  <2>1. ASSUME NEW r \in outcomes, InRange(r.entry, s, later)
        PROVE  fold = Assign(r.entry, starts)
    BY <1>1, <1>4, <1>5, <2>1, RangeFold DEF fold
  <2>2. TAKE q \in new
  <2>3. PICK r \in outcomes : InRange(r.entry, s, later) /\ q = [r EXCEPT !.fold = fold]
    BY <1>2
  <2>4. q.entry = r.entry /\ q.fold = fold
    BY <1>5, <2>3
  <2> QED BY <2>1, <2>3, <2>4
<1>7. /\ backfill'.at = "updating" /\ backfill'.starts = starts
      /\ backfill'.left = backfill.left \ {s} /\ backfill'.updated = updated
  BY <1>1 DEF TablesTyped, starts
<1>8. \A q \in updated : q.fold = Assign(q.entry, starts)
  BY <1>1, <1>6 DEF Overwrite, Tags, starts
<1>9. ASSUME NEW r \in outcomes, r.load # 0, r.fold # OwnFold(outcomes, r)
      PROVE  (\E q \in updated : SameRow(r, q)) \/ Waits(r.entry)'
  <2>1. CASE InRange(r.entry, s, later)
    <3>1. [r EXCEPT !.fold = fold] \in updated
      BY <1>3, <2>1 DEF Overwrite
    <3> QED BY <1>5, <3>1
  <2>2. CASE \E q \in backfill.updated : SameRow(r, q)
    BY <2>2 DEF Overwrite, SameRow
  <2>3. CASE Waits(r.entry) /\ ~InRange(r.entry, s, later)
    BY <1>7, <2>3 DEF Waits, starts
  <2> QED BY <1>1, <1>9, <2>1, <2>2, <2>3 DEF Tags
<1> HIDE DEF updated
<1> QED BY <1>1, <1>7, <1>8, <1>9 DEF Tags

LEMMA TagsNext ==
  ASSUME TablesTyped, Copies, Tags, [TablesNext]_tablesVars PROVE Tags'
<1>1. CASE UNCHANGED <<outcomes, backfill>>
  BY <1>1 DEF Tags, Waits
<1>2. CASE CommitBackfill \/ KillBackfill
  BY <1>2 DEF CommitBackfill, KillBackfill, NoFolds, Tags
<1> QED BY <1>1, <1>2, TagsDelete, TagsInsert, TagsRead, TagsUpdate
        DEF TablesNext, tablesVars, NewBar, WriteRows, KillLoader,
            LoadTrades, Attribute

LEMMA AgreesStep ==
  ASSUME TablesTyped, Copies, Tags, CommitBackfill,
         backfill.starts = TableStarts, NEW load \in 1..MaxLoads,
         Spans(OfLoad(outcomes, load))
  PROVE  OfLoad(outcomes', load) = Labelled(load, Entries(OfLoad(outcomes, load)))
<1> DEFINE rows == OfLoad(outcomes, load)
           entries == Entries(rows)
           row(t) == [load |-> load, entry |-> t, fold |-> Assign(t, Folds(entries))]
<1>1. /\ backfill.at = "updating" /\ backfill.left = {}
      /\ outcomes' = Overwrite(outcomes, backfill.updated)
  BY DEF CommitBackfill
<1>2. backfill.starts = Folds(entries)
  BY DEF Spans, Folds
<1>3. Labelled(load, entries) = {row(t) : t \in entries}
  BY DEF Labelled, Folds
<1> HIDE DEF rows, entries, row
<1>4. load # 0 /\ load \in Nat
  BY TablesParameters
<1>5. ASSUME NEW q \in backfill.updated, q.load = load PROVE q = row(q.entry) /\ q.entry \in entries
  <2>1. q.fold = Assign(q.entry, Folds(entries))
    BY <1>1, <1>2 DEF Tags
  <2>2. PICK r \in outcomes : SameRow(r, q)
    BY DEF Copies, RowsUnique
  <2>3. r \in rows /\ r.entry = q.entry
    BY <1>5, <2>2 DEF SameRow, rows, OfLoad
  <2>4. q.entry \in entries
    BY <2>3 DEF entries, Entries
  <2>5. q = [load |-> q.load, entry |-> q.entry, fold |-> q.fold]
    BY DEF TablesTyped, Rows
  <2> QED BY <1>5, <2>1, <2>4, <2>5 DEF row
<1>6. ASSUME NEW r \in outcomes, r.load = load, \A q \in backfill.updated : ~SameRow(r, q)
      PROVE  r = row(r.entry)
  <2>1. ~Waits(r.entry)
    BY <1>1 DEF Waits
  <2>2. r.fold = OwnFold(outcomes, r)
    BY <1>1, <1>4, <1>6, <2>1 DEF Tags
  <2>3. r.fold = Assign(r.entry, Folds(entries))
    BY <1>6, <2>2 DEF OwnFold, entries, rows
  <2>4. r = [load |-> r.load, entry |-> r.entry, fold |-> r.fold]
    BY DEF TablesTyped, Rows
  <2> QED BY <1>6, <2>3, <2>4 DEF row
<1>7. \A r \in outcomes : r.load = load => r.entry \in entries
  BY DEF entries, rows, OfLoad, Entries
<1>8. OfLoad(outcomes', load) \subseteq {row(t) : t \in entries}
  <2> SUFFICES ASSUME NEW x \in outcomes', x.load = load PROVE x = row(x.entry) /\ x.entry \in entries
    BY DEF OfLoad
  <2>1. CASE x \in backfill.updated
    BY <1>5, <2>1
  <2>2. CASE x \in outcomes /\ \A q \in backfill.updated : ~SameRow(x, q)
    BY <1>6, <1>7, <2>2
  <2>3. Overwrite(outcomes, backfill.updated) =
          {r \in outcomes : \A q \in backfill.updated : ~SameRow(r, q)} \cup backfill.updated
    BY DEF Overwrite
  <2> QED BY <1>1, <2>1, <2>2, <2>3
<1>9. {row(t) : t \in entries} \subseteq OfLoad(outcomes', load)
  <2> SUFFICES ASSUME NEW t \in entries PROVE row(t) \in outcomes' /\ row(t).load = load
    BY DEF OfLoad
  <2>1. PICK r \in outcomes : r.load = load /\ r.entry = t
    BY DEF entries, rows, OfLoad, Entries
  <2>2. row(t).load = load
    BY DEF row
  <2>3. CASE \E q \in backfill.updated : SameRow(r, q)
    <3>1. PICK q \in backfill.updated : SameRow(r, q)
      BY <2>3
    <3>2. q.load = load /\ q.entry = t
      BY <2>1, <3>1 DEF SameRow
    <3>3. q = row(t)
      BY <1>5, <3>2
    <3> QED BY <1>1, <2>2, <3>3 DEF Overwrite
  <2>4. CASE \A q \in backfill.updated : ~SameRow(r, q)
    <3>1. r = row(t)
      BY <1>6, <2>1, <2>4
    <3> QED BY <1>1, <2>2, <2>4, <3>1 DEF Overwrite
  <2> QED BY <2>3, <2>4
<1> QED BY <1>3, <1>8, <1>9 DEF entries, rows

(* "The INSERT path and backfill_oos agree exactly": when the folds of a   *)
(* load's entries are those of the table, both as the backfill read its    *)
(* bounds and as it commits, the load has exactly the tags its insert      *)
(* gives, whatever was deleted, inserted and updated in between.           *)
THEOREM BackfillAgreesWithInsert ==
  ASSUME IsFiniteSet(Loaders) PROVE TablesSpec => BackfillAgrees
<1>1. TablesTyped /\ Copies /\ Tags /\ [TablesNext]_tablesVars =>
        [CommitBackfill /\ outcomes # {} /\ backfill.starts = TableStarts =>
           \A load \in 1..MaxLoads :
             LET rows == {r \in outcomes : r.load = load}
             IN Spans(rows) =>
                  {r \in outcomes' : r.load = load} = Labelled(load, Entries(rows))]_tablesVars
  BY AgreesStep DEF OfLoad
<1> QED BY <1>1, TypedInit, TypedNext, CopiesInit, CopiesNext, TagsInit, TagsNext, PTL
        DEF TablesSpec, BackfillAgrees
-----------------------------------------------------------------------------
(***************************************************************************)
(* Vetting                                                                 *)
(*                                                                         *)
(* First the data. Induction comes from the well-foundedness of the        *)
(* subsets of a finite set; from it what a sum is, who ends up pinned to   *)
(* the floor, and that some ranking has no cell before a better one. Then  *)
(* the protocol, whose invariant says that a row that was read is there    *)
(* for good, and that a vetting that met no other one finds its own files. *)
(***************************************************************************)

(***************************************************************************)
(* Induction                                                               *)
(***************************************************************************)
(* Of some subsets of a finite set, one contains no other.                 *)
LEMMA SmallestSet ==
  ASSUME NEW S, IsFiniteSet(S), NEW F \in SUBSET (SUBSET S), F # {}
  PROVE  \E T \in F : \A U \in F : U \subseteq T => U = T
<1>1. IsWellFoundedOn(StrictSubsetOrdering(S), SUBSET S)
  BY FS_StrictSubsetOrderingWellFounded, FS_FiniteSubsetsOfFinite
<1>2. \E T \in F : \A U \in F : ~(<<U, T>> \in StrictSubsetOrdering(S))
  BY <1>1, WFMin
<1> QED BY <1>2 DEF StrictSubsetOrdering

(* Of some natural numbers one is the least.                               *)
LEMMA LeastNumber ==
  ASSUME NEW T \in SUBSET Nat, T # {}
  PROVE  \E x \in T : \A y \in T : x <= y
<1>1. PICK n \in T : TRUE
  OBVIOUS
<1> DEFINE F == {0..k : k \in {m \in T : m <= n}}
<1> DEFINE D == 0..n
<1>2. IsFiniteSet(D)
  BY FS_Interval
<1>3. F \in SUBSET (SUBSET D) /\ F # {}
  OBVIOUS
<1> HIDE DEF F, D
<1>4. PICK U \in F : \A V \in F : V \subseteq U => V = U
  BY <1>2, <1>3, SmallestSet
<1>5. PICK x \in T : U = 0..x /\ x <= n
  BY <1>4 DEF F
<1>6. ASSUME NEW y \in T, y < x PROVE FALSE
  <2>1. 0..y \in F /\ 0..y \subseteq U
    BY <1>5, <1>6 DEF F
  <2>2. 0..y = 0..x
    BY <2>1, <1>4, <1>5
  <2>3. x \in 0..x
    OBVIOUS
  <2> QED BY <2>2, <2>3, <1>6
<1> QED BY <1>5, <1>6

(* What holds of 0 and passes from each number to the next holds of all.   *)
LEMMA Numbers ==
  ASSUME NEW T \in SUBSET Nat, 0 \in T, \A n \in T : n + 1 \in T
  PROVE  T = Nat
<1>1. SUFFICES ASSUME Nat \ T # {} PROVE FALSE
  OBVIOUS
<1>2. PICK x \in Nat \ T : \A y \in Nat \ T : x <= y
  BY <1>1, LeastNumber
<1>3. x # 0 /\ x - 1 \in Nat /\ x - 1 \in T
  BY <1>2
<1> QED BY <1>2, <1>3

(* Of the subsets of a finite set: a family with the empty one, and with   *)
(* each also what it becomes by one element more, has them all.            *)
LEMMA Subsets ==
  ASSUME NEW S, IsFiniteSet(S), NEW F \in SUBSET (SUBSET S), {} \in F,
         \A T \in F : \A x \in S \ T : T \cup {x} \in F
  PROVE  S \in F
<1> DEFINE G == (SUBSET S) \ F
<1>1. SUFFICES ASSUME G # {} PROVE FALSE
  OBVIOUS
<1>0. G \in SUBSET (SUBSET S)
  OBVIOUS
<1> HIDE DEF G
<1>2. PICK T \in G : \A U \in G : U \subseteq T => U = T
  BY <1>0, <1>1, SmallestSet
<1>3. PICK x \in T : TRUE
  BY <1>2 DEF G
<1>4. T \ {x} \in F
  BY <1>2, <1>3 DEF G
<1>5. (T \ {x}) \cup {x} = T
  BY <1>3
<1> QED BY <1>2, <1>3, <1>4, <1>5 DEF G

(***************************************************************************)
(* Sums                                                                    *)
(***************************************************************************)
One(S) == CHOOSE x \in S : TRUE

(* What is taken of a set is in it.                                        *)
LEMMA AnyOf == ASSUME NEW S, S # {} PROVE One(S) \in S
BY DEF One

(* The recursion of a sum, over the subsets of S.                          *)
Sums(f, w, D) ==
  f = [s \in D |-> IF s = {} THEN 0 ELSE w[One(s)] + f[s \ {One(s)}]]

(* A sum is what such a function gives the whole set.                      *)
LEMMA TotalIs ==
  ASSUME NEW w, NEW S
  PROVE  Total(w, S) = (CHOOSE f : Sums(f, w, SUBSET S))[S]
BY DEF Total, MapThenSumSet, MapThenFoldSet, Sums, One

UpTo(S, n) == {s \in SUBSET S : Cardinality(s) <= n}

(* There is such a function.                                               *)
LEMMA SumsExist ==
  ASSUME NEW S, IsFiniteSet(S), NEW w
  PROVE  \E f : Sums(f, w, SUBSET S)
<1> DEFINE T == {n \in Nat : \E f : Sums(f, w, UpTo(S, n))}
<1>0. \A s \in SUBSET S : IsFiniteSet(s) /\ Cardinality(s) \in Nat
  BY FS_Subset, FS_CardinalityType
<1>1. 0 \in T
  <2> DEFINE f == [s \in UpTo(S, 0) |-> 0]
  <2>1. \A s \in UpTo(S, 0) : s = {}
    BY <1>0, FS_EmptySet DEF UpTo
  <2>2. Sums(f, w, UpTo(S, 0))
    BY <2>1 DEF Sums
  <2> QED BY <2>2
<1>2. ASSUME NEW n \in T PROVE n + 1 \in T
  <2>1. PICK g : Sums(g, w, UpTo(S, n))
    BY <1>2
  <2> DEFINE f == [s \in UpTo(S, n + 1) |->
                     IF s = {} THEN 0 ELSE w[One(s)] + g[s \ {One(s)}]]
  <2>2. ASSUME NEW s \in UpTo(S, n + 1), s # {} PROVE f[s \ {One(s)}] = g[s \ {One(s)}]
    <3> DEFINE r == s \ {One(s)}
    <3>1. One(s) \in s /\ r \in SUBSET S
      BY <2>2, AnyOf DEF UpTo
    <3>2. Cardinality(r) = Cardinality(s) - 1
      BY <3>1, <1>0, FS_RemoveElement DEF UpTo
    <3>3. r \in UpTo(S, n) /\ r \in UpTo(S, n + 1)
      BY <3>1, <3>2, <1>0 DEF UpTo
    <3>4. f[r] = IF r = {} THEN 0 ELSE w[One(r)] + g[r \ {One(r)}]
      BY <3>3
    <3>5. g[r] = IF r = {} THEN 0 ELSE w[One(r)] + g[r \ {One(r)}]
      BY <3>3, <2>1 DEF Sums
    <3> QED BY <3>4, <3>5
  <2> HIDE DEF f
  <2>3. f = [s \in UpTo(S, n + 1) |->
                     IF s = {} THEN 0 ELSE w[One(s)] + f[s \ {One(s)}]]
    <3>1. [s \in UpTo(S, n + 1) |-> IF s = {} THEN 0 ELSE w[One(s)] + g[s \ {One(s)}]]
            = [s \in UpTo(S, n + 1) |-> IF s = {} THEN 0 ELSE w[One(s)] + f[s \ {One(s)}]]
      BY <2>2
    <3> QED BY <3>1 DEF f
  <2>4. Sums(f, w, UpTo(S, n + 1))
    BY <2>3 DEF Sums
  <2> QED BY <2>4, <1>2
<1> HIDE DEF T
<1>3. T \in SUBSET Nat
  BY DEF T
<1>4. Cardinality(S) \in T
  BY <1>0, <1>1, <1>2, <1>3, Numbers
<1>5. UpTo(S, Cardinality(S)) = SUBSET S
  BY <1>0, FS_Subset DEF UpTo
<1> QED BY <1>4, <1>5 DEF T

(* Two such functions agree where both are.                                *)
LEMMA SumsAgree ==
  ASSUME NEW S, IsFiniteSet(S), NEW R \in SUBSET S, NEW w, NEW f, NEW g,
         Sums(f, w, SUBSET S), Sums(g, w, SUBSET R)
  PROVE  \A s \in SUBSET R : f[s] = g[s]
<1>0. IsFiniteSet(R)
  BY FS_Subset
<1> DEFINE F == {s \in SUBSET R : f[s] # g[s]}
<1>1. SUFFICES ASSUME F # {} PROVE FALSE
  OBVIOUS
<1>2. F \in SUBSET (SUBSET R)
  OBVIOUS
<1> HIDE DEF F
<1>3. PICK s \in F : \A r \in F : r \subseteq s => r = s
  BY <1>0, <1>1, <1>2, SmallestSet
<1>4. s \in SUBSET R /\ s \in SUBSET S /\ f[s] # g[s]
  BY <1>3 DEF F
<1>5. f[s] = IF s = {} THEN 0 ELSE w[One(s)] + f[s \ {One(s)}]
  BY <1>4 DEF Sums
<1>6. g[s] = IF s = {} THEN 0 ELSE w[One(s)] + g[s \ {One(s)}]
  BY <1>4 DEF Sums
<1>7. s # {}
  BY <1>4, <1>5, <1>6
<1>8. One(s) \in s
  BY <1>7, AnyOf
<1>9. s \ {One(s)} \notin F
  BY <1>3, <1>8
<1>10. f[s \ {One(s)}] = g[s \ {One(s)}]
  BY <1>9, <1>4 DEF F
<1> QED BY <1>4, <1>5, <1>6, <1>10

(* So a sum obeys its recursion.                                           *)
LEMMA TotalStep ==
  ASSUME NEW S, IsFiniteSet(S), NEW w
  PROVE  Total(w, S) = IF S = {} THEN 0 ELSE w[One(S)] + Total(w, S \ {One(S)})
<1> DEFINE f == CHOOSE f : Sums(f, w, SUBSET S)
           R == S \ {One(S)}
           g == CHOOSE g : Sums(g, w, SUBSET R)
<1>0. IsFiniteSet(R) /\ R \in SUBSET S
  BY FS_Subset
<1>1. Sums(f, w, SUBSET S)
  BY SumsExist
<1>2. Sums(g, w, SUBSET R)
  BY <1>0, SumsExist
<1>3. Total(w, S) = f[S] /\ Total(w, R) = g[R]
  BY TotalIs
<1> HIDE DEF f, g, R
<1>4. f[R] = g[R]
  BY <1>0, <1>1, <1>2, SumsAgree
<1>5. f[S] = IF S = {} THEN 0 ELSE w[One(S)] + f[S \ {One(S)}]
  BY <1>1 DEF Sums
<1> QED BY <1>3, <1>4, <1>5 DEF R

(* Of nothing it is nothing.                                               *)
LEMMA TotalEmpty == ASSUME NEW w PROVE Total(w, {}) = 0
BY TotalStep, FS_EmptySet

(* Of whole numbers it is one.                                             *)
LEMMA TotalInt ==
  ASSUME NEW S, IsFiniteSet(S), NEW w, \A i \in S : w[i] \in Int
  PROVE  Total(w, S) \in Int
<1> DEFINE F == {T \in SUBSET S : Total(w, T) \notin Int}
<1>1. SUFFICES ASSUME F # {} PROVE FALSE
  OBVIOUS
<1>2. F \in SUBSET (SUBSET S)
  OBVIOUS
<1> HIDE DEF F
<1>3. PICK T \in F : \A U \in F : U \subseteq T => U = T
  BY <1>1, <1>2, SmallestSet
<1>4. T \in SUBSET S /\ Total(w, T) \notin Int /\ IsFiniteSet(T)
  BY <1>3, FS_Subset DEF F
<1>5. T # {}
  BY <1>4, TotalEmpty
<1>6. One(T) \in T
  BY <1>5, AnyOf
<1>7. T \ {One(T)} \notin F
  BY <1>3, <1>6
<1>8. Total(w, T \ {One(T)}) \in Int
  BY <1>7, <1>4 DEF F
<1>9. Total(w, T) = w[One(T)] + Total(w, T \ {One(T)})
  BY <1>4, <1>5, TotalStep
<1> QED BY <1>4, <1>6, <1>8, <1>9

(* Whichever is taken first.                                               *)
LEMMA TotalTake ==
  ASSUME NEW S, IsFiniteSet(S), NEW w, \A i \in S : w[i] \in Int, NEW x \in S
  PROVE  Total(w, S) = w[x] + Total(w, S \ {x})
<1> DEFINE F == {T \in SUBSET S : \E y \in T : Total(w, T) # w[y] + Total(w, T \ {y})}
<1>1. SUFFICES F = {}
  OBVIOUS
<1>2. SUFFICES ASSUME F # {} PROVE FALSE
  OBVIOUS
<1>3. F \in SUBSET (SUBSET S)
  OBVIOUS
<1> HIDE DEF F
<1>4. PICK T \in F : \A U \in F : U \subseteq T => U = T
  BY <1>2, <1>3, SmallestSet
<1>5. T \in SUBSET S /\ IsFiniteSet(T)
  BY <1>4, FS_Subset DEF F
<1>6. PICK y \in T : Total(w, T) # w[y] + Total(w, T \ {y})
  BY <1>4 DEF F
<1> DEFINE c == One(T)
<1>7. c \in T
  BY <1>6, AnyOf
<1>8. Total(w, T) = w[c] + Total(w, T \ {c})
  BY <1>5, <1>6, TotalStep
<1> HIDE DEF c
<1>9. c # y
  BY <1>6, <1>8
<1>10. Total(w, T \ {c}) = w[y] + Total(w, (T \ {c}) \ {y})
  <2>1. T \ {c} \notin F
    BY <1>4, <1>7
  <2> QED BY <2>1, <1>5, <1>6, <1>9 DEF F
<1>11. Total(w, T \ {y}) = w[c] + Total(w, (T \ {y}) \ {c})
  <2>1. T \ {y} \notin F
    BY <1>4, <1>6
  <2> QED BY <2>1, <1>5, <1>7, <1>9 DEF F
<1>12. (T \ {y}) \ {c} = (T \ {c}) \ {y}
  OBVIOUS
<1>13. w[c] \in Int /\ w[y] \in Int
  BY <1>5, <1>6, <1>7
<1> DEFINE rest == Total(w, (T \ {c}) \ {y})
           one == Total(w, T)
           two == Total(w, T \ {c})
           three == Total(w, T \ {y})
<1>14. rest \in Int
  <2>1. IsFiniteSet((T \ {c}) \ {y})
    BY <1>5, FS_Subset
  <2> QED BY <2>1, <1>5, TotalInt
<1>15. one # w[y] + three /\ one = w[c] + two /\ two = w[y] + rest /\ three = w[c] + rest
  BY <1>6, <1>8, <1>10, <1>11, <1>12
<1> HIDE DEF one, two, three, rest
<1> QED BY <1>13, <1>14, <1>15

(* One element more adds its number.                                       *)
LEMMA TotalAdd ==
  ASSUME NEW S, IsFiniteSet(S), NEW x, x \notin S, NEW w, \A i \in S \cup {x} : w[i] \in Int
  PROVE  Total(w, S \cup {x}) = w[x] + Total(w, S)
<1>1. IsFiniteSet(S \cup {x}) /\ (S \cup {x}) \ {x} = S
  BY FS_AddElement
<1> QED BY <1>1, TotalTake

(* Two parts come to the whole.                                            *)
LEMMA TotalSplit ==
  ASSUME NEW A, NEW B, IsFiniteSet(A), IsFiniteSet(B), A \cap B = {}, NEW w,
         \A i \in A \cup B : w[i] \in Int
  PROVE  Total(w, A \cup B) = Total(w, A) + Total(w, B)
<1> DEFINE F == {T \in SUBSET B : Total(w, A \cup T) = Total(w, A) + Total(w, T)}
<1>1. {} \in F
  <2>1. A \cup {} = A
    OBVIOUS
  <2>2. Total(w, A) \in Int
    BY TotalInt
  <2> QED BY <2>1, <2>2, TotalEmpty
<1>2. ASSUME NEW T \in F, NEW x \in B \ T PROVE T \cup {x} \in F
  <2>1. IsFiniteSet(T) /\ IsFiniteSet(A \cup T)
    BY FS_Subset, FS_Union
  <2>2. Total(w, (A \cup T) \cup {x}) = w[x] + Total(w, A \cup T)
    <3>1. x \notin A \cup T
      BY <1>2
    <3>2. \A i \in (A \cup T) \cup {x} : w[i] \in Int
      BY <1>2
    <3> QED BY <2>1, <3>1, <3>2, TotalAdd
  <2>3. Total(w, T \cup {x}) = w[x] + Total(w, T)
    BY <2>1, <1>2, TotalAdd
  <2>4. (A \cup T) \cup {x} = A \cup (T \cup {x})
    OBVIOUS
  <2>5. Total(w, A) \in Int /\ Total(w, T) \in Int /\ w[x] \in Int
    BY <2>1, <1>2, TotalInt
  <2>6. Total(w, A \cup T) = Total(w, A) + Total(w, T)
    BY <1>2
  <2> DEFINE a == Total(w, A)
             t == Total(w, T)
             y == w[x]
  <2>7. Total(w, A \cup (T \cup {x})) = y + (a + t) /\ Total(w, T \cup {x}) = y + t
    BY <2>2, <2>3, <2>4, <2>6
  <2>8. a \in Int /\ t \in Int /\ y \in Int
    BY <2>5
  <2> HIDE DEF a, t, y
  <2>9. y + (a + t) = a + (y + t)
    BY <2>8
  <2> QED BY <2>7, <2>9, <1>2 DEF a
<1> HIDE DEF F
<1>3. F \in SUBSET (SUBSET B)
  BY DEF F
<1>4. B \in F
  <2>1. \A T \in F : \A x \in B \ T : T \cup {x} \in F
    BY <1>2
  <2> QED BY <2>1, <1>1, <1>3, Subsets
<1> QED BY <1>4 DEF F

(* A factor of all is a factor of the sum.                                 *)
LEMMA TotalScale ==
  ASSUME NEW S, IsFiniteSet(S), NEW w, NEW v, NEW a \in Int,
         \A i \in S : w[i] \in Int /\ v[i] = a * w[i]
  PROVE  Total(v, S) = a * Total(w, S)
<1> DEFINE F == {T \in SUBSET S : Total(v, T) = a * Total(w, T)}
<1>1. {} \in F
  BY TotalEmpty
<1>2. ASSUME NEW T \in F, NEW x \in S \ T PROVE T \cup {x} \in F
  <2>0. x \notin T /\ \A i \in T \cup {x} : v[i] \in Int
    BY <1>2
  <2>1. IsFiniteSet(T)
    BY FS_Subset
  <2>2. Total(v, T \cup {x}) = v[x] + Total(v, T)
    BY <2>0, <2>1, <1>2, TotalAdd
  <2>3. Total(w, T \cup {x}) = w[x] + Total(w, T)
    BY <2>1, <1>2, TotalAdd
  <2>4. Total(w, T) \in Int /\ w[x] \in Int
    BY <2>1, <1>2, TotalInt
  <2>5. Total(v, T) = a * Total(w, T) /\ v[x] = a * w[x]
    BY <1>2
  <2>6. \A p, q \in Int : a * p + a * q = a * (p + q)
    OBVIOUS
  <2>7. Total(v, T \cup {x}) = a * Total(w, T \cup {x})
    BY <2>2, <2>3, <2>4, <2>5, <2>6
  <2> QED BY <2>7, <1>2
<1> HIDE DEF F
<1>3. F \in SUBSET (SUBSET S)
  BY DEF F
<1>4. S \in F
  <2>1. \A T \in F : \A x \in S \ T : T \cup {x} \in F
    BY <1>2
  <2> QED BY <2>1, <1>1, <1>3, Subsets
<1> QED BY <1>4 DEF F

(* The same number, as often as there are elements.                        *)
LEMMA TotalConst ==
  ASSUME NEW S, IsFiniteSet(S), NEW v, NEW b \in Int, \A i \in S : v[i] = b
  PROVE  Total(v, S) = b * Cardinality(S)
<1> DEFINE F == {T \in SUBSET S : Total(v, T) = b * Cardinality(T)}
<1>1. {} \in F
  BY TotalEmpty, FS_EmptySet
<1>2. ASSUME NEW T \in F, NEW x \in S \ T PROVE T \cup {x} \in F
  <2>0. x \notin T /\ \A i \in T \cup {x} : v[i] \in Int
    BY <1>2
  <2>1. IsFiniteSet(T) /\ Cardinality(T) \in Nat
    BY FS_Subset, FS_CardinalityType
  <2>2. Total(v, T \cup {x}) = b + Total(v, T)
    BY <2>0, <2>1, <1>2, TotalAdd
  <2>3. Cardinality(T \cup {x}) = Cardinality(T) + 1
    BY <2>1, FS_AddElement
  <2>4. \A n \in Nat : b + b * n = b * (n + 1)
    OBVIOUS
  <2> QED BY <2>1, <2>2, <2>3, <2>4
<1> HIDE DEF F
<1>3. F \in SUBSET (SUBSET S)
  BY DEF F
<1>4. S \in F
  <2>1. \A T \in F : \A x \in S \ T : T \cup {x} \in F
    BY <1>2
  <2> QED BY <2>1, <1>1, <1>3, Subsets
<1> QED BY <1>4 DEF F

(* Elements each at most b, a times, are together at most b times as many. *)
LEMMA TotalAtMost ==
  ASSUME NEW S, IsFiniteSet(S), NEW w, NEW a \in Int, NEW b \in Int,
         \A i \in S : w[i] \in Int /\ a * w[i] <= b
  PROVE  a * Total(w, S) <= b * Cardinality(S)
<1> DEFINE F == {T \in SUBSET S : a * Total(w, T) <= b * Cardinality(T)}
<1>1. {} \in F
  BY TotalEmpty, FS_EmptySet
<1>2. ASSUME NEW T \in F, NEW x \in S \ T PROVE T \cup {x} \in F
  <2>1. IsFiniteSet(T) /\ Cardinality(T) \in Nat
    BY FS_Subset, FS_CardinalityType
  <2>2. Total(w, T \cup {x}) = w[x] + Total(w, T)
    BY <2>1, <1>2, TotalAdd
  <2>3. Cardinality(T \cup {x}) = Cardinality(T) + 1
    BY <2>1, FS_AddElement
  <2>4. Total(w, T) \in Int /\ w[x] \in Int
    BY <2>1, <1>2, TotalInt
  <2>5. \A n \in Nat : b * n + b = b * (n + 1)
    OBVIOUS
  <2>6. \A p, q \in Int : a * p + a * q = a * (p + q)
    OBVIOUS
  <2>7. a * w[x] <= b /\ a * Total(w, T) <= b * Cardinality(T)
    BY <1>2
  <2>8. \A p, q, r, s \in Int : p <= q /\ r <= s => p + r <= q + s
    OBVIOUS
  <2>9. a * w[x] + a * Total(w, T) <= b + b * Cardinality(T)
    BY <2>1, <2>4, <2>7, <2>8
  <2>10. a * Total(w, T \cup {x}) = a * w[x] + a * Total(w, T)
    BY <2>2, <2>4, <2>6
  <2>11. b * Cardinality(T \cup {x}) = b * Cardinality(T) + b
    BY <2>1, <2>3, <2>5
  <2>12. b + b * Cardinality(T) = b * Cardinality(T) + b
    BY <2>1
  <2>13. a * Total(w, T \cup {x}) <= b * Cardinality(T \cup {x})
    BY <2>9, <2>10, <2>11, <2>12
  <2> QED BY <2>13, <1>2
<1> HIDE DEF F
<1>3. F \in SUBSET (SUBSET S)
  BY DEF F
<1>4. S \in F
  <2>1. \A T \in F : \A x \in S \ T : T \cup {x} \in F
    BY <1>2
  <2> QED BY <2>1, <1>1, <1>3, Subsets
<1> QED BY <1>4 DEF F

(* Of positive numbers it is positive.                                     *)
LEMMA TotalPositive ==
  ASSUME NEW S, IsFiniteSet(S), NEW w, \A i \in S : w[i] \in Nat \ {0}
  PROVE  Total(w, S) \in Nat /\ (S # {} => Total(w, S) > 0)
<1> DEFINE F == {T \in SUBSET S : Total(w, T) \in Nat /\ (T # {} => Total(w, T) > 0)}
<1>1. {} \in F
  BY TotalEmpty
<1>2. ASSUME NEW T \in F, NEW x \in S \ T PROVE T \cup {x} \in F
  <2>0. x \notin T /\ \A i \in T \cup {x} : w[i] \in Int
    BY <1>2
  <2>1. IsFiniteSet(T)
    BY FS_Subset
  <2>2. Total(w, T \cup {x}) = w[x] + Total(w, T)
    BY <2>0, <2>1, <1>2, TotalAdd
  <2> QED BY <2>2, <1>2
<1> HIDE DEF F
<1>3. F \in SUBSET (SUBSET S)
  BY DEF F
<1>4. S \in F
  <2>1. \A T \in F : \A x \in S \ T : T \cup {x} \in F
    BY <1>2
  <2> QED BY <2>1, <1>1, <1>3, Subsets
<1> QED BY <1>4 DEF F

(* A part that comes to as much as the whole is the whole.                 *)
LEMMA TotalWhole ==
  ASSUME NEW S, IsFiniteSet(S), NEW A \in SUBSET S, NEW w,
         \A i \in S : w[i] \in Nat \ {0}, Total(w, A) = Total(w, S)
  PROVE  A = S
<1>1. IsFiniteSet(A) /\ IsFiniteSet(S \ A)
  BY FS_Subset
<1>2. A \cup (S \ A) = S /\ A \cap (S \ A) = {}
  OBVIOUS
<1>3. Total(w, S) = Total(w, A) + Total(w, S \ A)
  <2>1. \A i \in A \cup (S \ A) : w[i] \in Int
    OBVIOUS
  <2>2. Total(w, A \cup (S \ A)) = Total(w, A) + Total(w, S \ A)
    BY <1>1, <1>2, <2>1, TotalSplit
  <2> QED BY <2>2, <1>2
<1>4. Total(w, A) \in Nat
  BY <1>1, TotalPositive
<1>5. Total(w, S \ A) \in Nat /\ (S \ A # {} => Total(w, S \ A) > 0)
  BY <1>1, TotalPositive
<1>6. S \ A = {}
  BY <1>3, <1>4, <1>5
<1> QED BY <1>6

(* The same numbers under other names.                                     *)
LEMMA TotalImage ==
  ASSUME NEW K, IsFiniteSet(K), NEW at, NEW w, NEW v, NEW H, H = {at[k] : k \in K},
         \A k, l \in K : at[k] = at[l] => k = l,
         \A k \in K : w[at[k]] \in Int /\ v[k] = w[at[k]]
  PROVE  Total(v, K) = Total(w, H)
<1> DEFINE F == {T \in SUBSET K : /\ IsFiniteSet({at[k] : k \in T})
                                  /\ Total(v, T) = Total(w, {at[k] : k \in T})}
<1>1. {} \in F
  <2>1. {at[k] : k \in {}} = {}
    OBVIOUS
  <2> QED BY <2>1, TotalEmpty, FS_EmptySet
<1>2. ASSUME NEW T \in F, NEW x \in K \ T PROVE T \cup {x} \in F
  <2> DEFINE I == {at[k] : k \in T}
  <2>1. IsFiniteSet(T)
    BY FS_Subset
  <2>2. {at[k] : k \in T \cup {x}} = I \cup {at[x]}
    OBVIOUS
  <2>3. at[x] \notin I
    BY <1>2
  <2>4. IsFiniteSet(I) /\ Total(v, T) = Total(w, I)
    BY <1>2
  <2>5. \A i \in I \cup {at[x]} : w[i] \in Int
    BY <1>2
  <2>0. x \notin T /\ \A i \in T \cup {x} : v[i] \in Int
    BY <1>2
  <2>6. Total(v, T \cup {x}) = v[x] + Total(v, T)
    BY <2>0, <2>1, TotalAdd
  <2> HIDE DEF I
  <2>7. Total(w, I \cup {at[x]}) = w[at[x]] + Total(w, I)
    BY <2>3, <2>4, <2>5, TotalAdd
  <2>8. IsFiniteSet(I \cup {at[x]})
    BY <2>4, FS_AddElement
  <2> QED BY <2>2, <2>4, <2>6, <2>7, <2>8, <1>2
<1> HIDE DEF F
<1>3. F \in SUBSET (SUBSET K)
  BY DEF F
<1>4. K \in F
  <2>1. \A T \in F : \A x \in K \ T : T \cup {x} \in F
    BY <1>2
  <2> QED BY <2>1, <1>1, <1>3, Subsets
<1> QED BY <1>4 DEF F

(***************************************************************************)
(* Products                                                                *)
(***************************************************************************)

(* A product of whole numbers is one.                                      *)
LEMMA TimesInt == ASSUME NEW a \in Int, NEW b \in Int PROVE a * b \in Int
OBVIOUS

(* A factor keeps the order,                                               *)
LEMMA TimesOrder ==
  ASSUME NEW a \in Nat, NEW x \in Int, NEW y \in Int, x <= y
  PROVE  a * x <= a * y /\ x * a <= y * a
OBVIOUS

(* and a positive one can be cancelled.                                    *)
LEMMA TimesCancel ==
  ASSUME NEW a \in Nat \ {0}, NEW x \in Int, NEW y \in Int, a * x <= a * y
  PROVE  x <= y
<1>1. SUFFICES ASSUME y + 1 <= x PROVE FALSE
  OBVIOUS
<1>2. a * (y + 1) <= a * x
  BY <1>1, TimesOrder
<1>3. a * (y + 1) = a * y + a
  OBVIOUS
<1>4. a * x \in Int /\ a * y \in Int
  OBVIOUS
<1> QED BY <1>2, <1>3, <1>4

(***************************************************************************)
(* Who is pinned to the floor                                              *)
(***************************************************************************)
Steps(f, w, seats, n) ==
  f = [k \in 0..n |-> IF k = 0 THEN {} ELSE f[k - 1] \cup Starved(w, seats, f[k - 1])]

(* Who is pinned in the end, by the rounds of it.                          *)
LEMMA PinnedIs ==
  ASSUME NEW w, NEW seats
  PROVE  Pinned(w, seats) = (CHOOSE f : Steps(f, w, seats, Len(w)))[Len(w)]
BY DEF Pinned, Steps

(* There are these rounds.                                                 *)
LEMMA StepsExist ==
  ASSUME NEW w, NEW seats, NEW n \in Nat
  PROVE  \E f : Steps(f, w, seats, n)
<1> DEFINE T == {m \in Nat : \E f : Steps(f, w, seats, m)}
<1>1. 0 \in T
  <2> DEFINE f == [k \in 0..0 |-> {}]
  <2>1. Steps(f, w, seats, 0)
    BY DEF Steps
  <2> QED BY <2>1
<1>2. ASSUME NEW m \in T PROVE m + 1 \in T
  <2>1. PICK g : Steps(g, w, seats, m)
    BY <1>2
  <2> DEFINE f == [k \in 0..(m + 1) |->
                     IF k = 0 THEN {} ELSE g[k - 1] \cup Starved(w, seats, g[k - 1])]
  <2>2. ASSUME NEW k \in 0..m PROVE f[k] = g[k]
    <3>1. k \in 0..(m + 1)
      BY <1>2
    <3>2. f[k] = IF k = 0 THEN {} ELSE g[k - 1] \cup Starved(w, seats, g[k - 1])
      BY <3>1
    <3>3. g[k] = IF k = 0 THEN {} ELSE g[k - 1] \cup Starved(w, seats, g[k - 1])
      BY <2>1 DEF Steps
    <3> QED BY <3>2, <3>3
  <2> HIDE DEF f
  <2>3. \A k \in 0..(m + 1) : k # 0 => k - 1 \in 0..m
    BY <1>2
  <2>4. f = [k \in 0..(m + 1) |->
               IF k = 0 THEN {} ELSE f[k - 1] \cup Starved(w, seats, f[k - 1])]
    <3>1. [k \in 0..(m + 1) |-> IF k = 0 THEN {} ELSE g[k - 1] \cup Starved(w, seats, g[k - 1])]
            = [k \in 0..(m + 1) |-> IF k = 0 THEN {} ELSE f[k - 1] \cup Starved(w, seats, f[k - 1])]
      BY <2>2, <2>3
    <3> QED BY <3>1 DEF f
  <2>5. Steps(f, w, seats, m + 1)
    BY <2>4 DEF Steps
  <2> QED BY <2>5, <1>2
<1> HIDE DEF T
<1>3. T \in SUBSET Nat
  BY DEF T
<1>4. n \in T
  BY <1>1, <1>2, <1>3, Numbers
<1> QED BY <1>4 DEF T

(* While some are pinned, others are not, and nobody pinned would have     *)
(* more than the floor if they were not.                                   *)
Floored(w, seats, P) ==
  /\ P \subseteq DOMAIN w
  /\ DOMAIN w \ P # {}
  /\ \A j \in P : (seats - Cardinality(P)) * w[j] <= Total(w, DOMAIN w \ P)

(* What of the whole is left for those not pinned.                         *)
LEMMA Rest ==
  ASSUME NEW n \in Nat, NEW w \in [1..n -> Nat \ {0}], NEW seats \in Nat, n <= seats,
         NEW P \in SUBSET (1..n), (1..n) \ P # {}
  PROVE  /\ IsFiniteSet(P) /\ IsFiniteSet((1..n) \ P)
         /\ Cardinality(P) \in Nat
         /\ seats - Cardinality(P) \in Nat \ {0}
         /\ Cardinality((1..n) \ P) <= seats - Cardinality(P)
         /\ Total(w, (1..n) \ P) \in Nat \ {0}
<1>1. IsFiniteSet(1..n) /\ Cardinality(1..n) = n
  BY FS_Interval
<1>2. IsFiniteSet(P) /\ IsFiniteSet((1..n) \ P)
  BY <1>1, FS_Subset
<1>3. Cardinality(P) \in Nat /\ Cardinality((1..n) \ P) \in Nat
  BY <1>2, FS_CardinalityType
<1>4. Cardinality((1..n) \ P) # 0
  BY <1>2, FS_EmptySet
<1>5. (1..n) \cap P = P
  OBVIOUS
<1>6. Cardinality((1..n) \ P) = n - Cardinality(P)
  <2>1. Cardinality((1..n) \ P) = Cardinality(1..n) - Cardinality((1..n) \cap P)
    BY <1>1, FS_Difference, Zenon
  <2> QED BY <1>1, <1>5, <2>1
<1>7. Total(w, (1..n) \ P) \in Nat /\ Total(w, (1..n) \ P) > 0
  BY <1>2, TotalPositive
<1> QED BY <1>2, <1>3, <1>4, <1>6, <1>7

(* The next round keeps it so.                                             *)
LEMMA FlooredStep ==
  ASSUME NEW n \in Nat, NEW w \in [1..n -> Nat \ {0}], NEW seats \in Nat, n <= seats,
         NEW P, Floored(w, seats, P)
  PROVE  Floored(w, seats, P \cup Starved(w, seats, P))
<1> DEFINE D == (1..n) \ P
           N == Starved(w, seats, P)
           k == seats - Cardinality(P)
           B == Total(w, D)
           t == Total(w, N)
           m == Cardinality(N)
           Q == P \cup N
<1>0. DOMAIN w = 1..n /\ P \in SUBSET (1..n) /\ D # {}
  BY DEF Floored
<1>1. /\ IsFiniteSet(P) /\ IsFiniteSet(D) /\ Cardinality(P) \in Nat
      /\ k \in Nat \ {0} /\ Cardinality(D) <= k /\ B \in Nat \ {0}
  BY <1>0, Rest
<1>2. N \in SUBSET D /\ \A i \in N : w[i] \in Int /\ k * w[i] < B
  BY <1>0 DEF Starved
<1>3. IsFiniteSet(N) /\ m \in Nat /\ m <= Cardinality(D) /\ Cardinality(D) \in Nat
  BY <1>1, <1>2, FS_Subset, FS_CardinalityType
<1>4. t \in Int
  BY <1>2, <1>3, TotalInt
<1>5. k * t <= B * m
  <2>1. \A i \in N : w[i] \in Int /\ k * w[i] <= B
    <3> HIDE DEF k, B, N
    <3> QED BY <1>1, <1>2
  <2>2. k \in Int /\ B \in Int
    BY <1>1
  <2> HIDE DEF k, B, N
  <2> QED BY <1>3, <2>1, <2>2, TotalAtMost, Zenon DEF t, m
<1>6. N # D
  <2>1. SUFFICES ASSUME N = D PROVE FALSE
    OBVIOUS
  <2> HIDE DEF k, B, N
  <2>2. \A i \in D : w[i] \in Int /\ k * w[i] <= B - 1
    BY <2>1, <1>1, <1>2
  <2>3. k * B <= (B - 1) * Cardinality(D)
    <3>1. k \in Int /\ B - 1 \in Int
      BY <1>1
    <3> DEFINE b == B - 1
    <3>2. b \in Int /\ \A i \in D : w[i] \in Int /\ k * w[i] <= b
      BY <2>2, <3>1
    <3> HIDE DEF b, D
    <3>3. k * Total(w, D) <= b * Cardinality(D)
      BY <1>1, <3>1, <3>2, TotalAtMost, Zenon
    <3> QED BY <3>3 DEF B, b
  <2>4. (B - 1) * Cardinality(D) <= (B - 1) * k
    BY <1>1, <1>3, TimesOrder
  <2>5. k * B <= k * (B - 1)
    BY <1>1, <1>3, <2>3, <2>4
  <2>6. B <= B - 1
    BY <1>1, <2>5, TimesCancel
  <2> QED BY <1>1, <2>6
<1>7. B = t + Total(w, D \ N)
  <2>1. N \cup (D \ N) = D /\ N \cap (D \ N) = {} /\ IsFiniteSet(D \ N)
    BY <1>1, <1>2, FS_Subset
  <2>2. \A i \in N \cup (D \ N) : w[i] \in Int
    BY <2>1
  <2> HIDE DEF N, D
  <2>3. Total(w, N \cup (D \ N)) = Total(w, N) + Total(w, D \ N)
    BY <1>3, <2>1, <2>2, TotalSplit
  <2> QED BY <2>1, <2>3
<1>8. (1..n) \ Q = D \ N /\ P \cap N = {}
  BY <1>2
<1>9. Cardinality(Q) = Cardinality(P) + m
  <2>1. Cardinality(Q) = Cardinality(P) + m - Cardinality(P \cap N)
    BY <1>1, <1>3, FS_Union
  <2>2. Cardinality(P \cap N) = 0
    BY <1>8, FS_EmptySet
  <2> QED BY <1>1, <1>3, <2>1, <2>2
<1>10. Total(w, D \ N) \in Int
  <2>1. IsFiniteSet(D \ N) /\ \A i \in D \ N : w[i] \in Int
    BY <1>1, FS_Subset
  <2> QED BY <2>1, TotalInt
<1>11. ASSUME NEW j \in Q PROVE (k - m) * w[j] <= Total(w, D \ N)
  <2>1. w[j] \in Nat /\ k * w[j] <= B
    <3>0. j \in 1..n
      BY <1>0, <1>2
    <3>1. CASE j \in P
      <4>1. \A i \in P : k * w[i] <= B
        BY <1>0, Zenon DEF Floored
      <4> QED BY <4>1, <3>0, <3>1
    <3>2. CASE j \in N
      <4>1. w[j] \in Int /\ k * w[j] < B
        BY <3>2, <1>2, Zenon
      <4>2. k * w[j] \in Int
        BY <4>1, <1>1, TimesInt
      <4> HIDE DEF k, B, N
      <4> QED BY <4>1, <4>2, <3>0, <1>1
    <3> QED BY <3>1, <3>2
  <2> DEFINE r == Total(w, D \ N)
             x == w[j]
  <2>2. x \in Nat /\ r \in Int /\ k * x <= B /\ B = t + r
    BY <2>1, <1>7, <1>10
  <2> HIDE DEF k, B, t, m, r, x, N, D
  <2>3. k - m \in Nat
    BY <1>1, <1>3
  <2>4. (k - m) * (k * x) <= (k - m) * B
    <3>1. k * x \in Int /\ B \in Int
      BY <2>2, <1>1, <1>4, TimesInt
    <3> DEFINE kx == k * x
               d == k - m
    <3>2. d \in Nat /\ kx \in Int /\ B \in Int /\ kx <= B
      BY <2>2, <2>3, <3>1
    <3> HIDE DEF d, kx
    <3>3. d * kx <= d * B
      BY ONLY <3>2, TimesOrder, Zenon
    <3> QED BY <3>3 DEF d, kx
  <2>5. (k - m) * (k * x) = k * ((k - m) * x)
    BY <2>2, <2>3, <1>1
  <2>6. (k - m) * B = k * B - B * m
    BY <2>3, <1>1, <1>3
  <2>7. k * B = k * t + k * r
    BY <2>2, <1>1, <1>4
  <2>8. k * ((k - m) * x) <= k * r
    <3>1. k * t \in Int /\ k * r \in Int /\ B * m \in Int /\ k * B \in Int
      BY <2>2, <1>1, <1>3, <1>4, TimesInt
    <3>2. (k - m) * x \in Int
      BY <2>2, <2>3, TimesInt
    <3>3. k * ((k - m) * x) \in Int
      BY <3>2, <1>1, TimesInt
    <3>4. k * ((k - m) * x) <= k * B - B * m
      BY <2>4, <2>5, <2>6
    <3> QED BY <3>1, <3>3, <3>4, <2>7, <1>5
  <2>9. (k - m) * x <= r
    BY <2>2, <2>3, <2>8, <1>1, TimesInt, TimesCancel
  <2> QED BY <2>9 DEF r, x
<1>12. seats - Cardinality(Q) = k - m
  BY <1>1, <1>3, <1>9
<1>13. Q \subseteq DOMAIN w /\ DOMAIN w \ Q # {}
  BY <1>0, <1>2, <1>6, <1>8
<1>14. \A j \in Q : (seats - Cardinality(Q)) * w[j] <= Total(w, DOMAIN w \ Q)
  <2> HIDE DEF Q, k, m, D, N
  <2> QED BY <1>0, <1>8, <1>11, <1>12
<1> QED BY <1>13, <1>14 DEF Floored

(* Nobody else falls below it.                                             *)
LEMMA PinnedFloored ==
  ASSUME NEW n \in Nat \ {0}, NEW w \in [1..n -> Nat \ {0}], Len(w) = n,
         NEW seats \in Nat, n <= seats
  PROVE  Floored(w, seats, Pinned(w, seats)) /\ Starved(w, seats, Pinned(w, seats)) = {}
<1> DEFINE A == CHOOSE f : Steps(f, w, seats, n)
<1>1. Steps(A, w, seats, n)
  BY StepsExist
<1>2. Pinned(w, seats) = A[n]
  BY PinnedIs
<1> HIDE DEF A
<1>0. DOMAIN w = 1..n
  OBVIOUS
<1>3. A[0] = {} /\ \A k \in 0..(n - 1) : A[k + 1] = A[k] \cup Starved(w, seats, A[k])
  <2>1. \A k \in 0..n : A[k] = IF k = 0 THEN {} ELSE A[k - 1] \cup Starved(w, seats, A[k - 1])
    BY <1>1, Zenon DEF Steps
  <2>2. 0 \in 0..n /\ \A k \in 0..(n - 1) : k + 1 \in 0..n /\ k + 1 # 0 /\ (k + 1) - 1 = k
    OBVIOUS
  <2> QED BY <2>1, <2>2
<1> DEFINE Settled(k) == Starved(w, seats, A[k]) = {} \/ Cardinality(A[k]) >= k
<1> DEFINE T == {k \in Nat : k <= n => Floored(w, seats, A[k]) /\ Settled(k)}
<1>4. 0 \in T
  <2>1. Floored(w, seats, {})
    <3>1. DOMAIN w \ {} # {}
      <4>1. 1 \in 1..n
        OBVIOUS
      <4> QED BY <1>0, <4>1
    <3> QED BY <3>1, Zenon DEF Floored
  <2>2. Cardinality({}) = 0
    BY FS_EmptySet
  <2>3. Floored(w, seats, A[0]) /\ Cardinality(A[0]) >= 0
    BY <1>3, <2>1, <2>2
  <2> QED BY <2>3
<1>5. ASSUME NEW k \in T PROVE k + 1 \in T
  <2>1. SUFFICES ASSUME k + 1 <= n PROVE Floored(w, seats, A[k + 1]) /\ Settled(k + 1)
    BY <1>5
  <2> DEFINE N == Starved(w, seats, A[k])
  <2>2. k \in Nat /\ k \in 0..(n - 1) /\ Floored(w, seats, A[k]) /\ Settled(k)
    BY <1>5, <2>1
  <2>3. A[k + 1] = A[k] \cup N
    BY <1>3, <2>2
  <2>4. Floored(w, seats, A[k + 1])
    BY <2>2, <2>3, FlooredStep
  <2>5. CASE N = {}
    BY <2>2, <2>3, <2>4, <2>5
  <2>6. CASE N # {}
    <3>1. IsFiniteSet(1..n) /\ A[k] \subseteq 1..n /\ N \subseteq (1..n) \ A[k]
      <4>1. IsFiniteSet(1..n)
        BY FS_Interval
      <4>2. A[k] \subseteq 1..n
        BY <1>0, <2>2, Zenon DEF Floored
      <4>3. N \subseteq (1..n) \ A[k]
        BY <1>0, Zenon DEF Starved
      <4> QED BY <4>1, <4>2, <4>3
    <3>2. IsFiniteSet(A[k]) /\ IsFiniteSet(N)
      <4>1. N \subseteq 1..n
        BY <3>1
      <4> QED BY <3>1, <4>1, FS_Subset
    <3>3. Cardinality(A[k]) \in Nat /\ Cardinality(N) \in Nat /\ Cardinality(N) # 0
      BY <3>2, <2>6, FS_CardinalityType, FS_EmptySet
    <3>4. A[k] \cap N = {}
      BY <3>1
    <3>5. Cardinality(A[k] \cup N) = Cardinality(A[k]) + Cardinality(N)
      <4>1. Cardinality(A[k] \cup N)
              = Cardinality(A[k]) + Cardinality(N) - Cardinality(A[k] \cap N)
        BY <3>2, FS_Union
      <4>2. Cardinality(A[k] \cap N) = 0
        BY <3>4, FS_EmptySet
      <4> QED BY <3>3, <4>1, <4>2
    <3> QED BY <2>2, <2>3, <2>4, <2>6, <3>3, <3>5
  <2> QED BY <2>5, <2>6
<1> HIDE DEF T
<1>6. T \in SUBSET Nat
  BY DEF T
<1>7. n \in T
  BY <1>4, <1>5, <1>6, Numbers
<1>8. Floored(w, seats, A[n]) /\ Settled(n)
  BY <1>7 DEF T
<1>9. Cardinality(A[n]) < n
  <2>1. A[n] \subseteq 1..n /\ A[n] # 1..n
    <3>1. A[n] \subseteq 1..n /\ (1..n) \ A[n] # {}
      BY <1>0, <1>8, Zenon DEF Floored
    <3> QED BY <3>1
  <2>2. IsFiniteSet(1..n) /\ Cardinality(1..n) = n
    BY FS_Interval
  <2>3. IsFiniteSet(A[n]) /\ Cardinality(A[n]) <= n /\ (Cardinality(A[n]) = n => A[n] = 1..n)
    BY <2>1, <2>2, FS_Subset
  <2> QED BY <2>1, <2>3, FS_CardinalityType
<1>10. Cardinality(A[n]) \in Nat
  <2>1. A[n] \subseteq 1..n
    BY <1>0, <1>8, Zenon DEF Floored
  <2>2. IsFiniteSet(1..n)
    BY FS_Interval
  <2> QED BY <2>1, <2>2, FS_Subset, FS_CardinalityType
<1>11. Starved(w, seats, A[n]) = {}
  BY <1>8, <1>9, <1>10
<1> QED BY <1>2, <1>8, <1>11

(* _apply_floor: what is shared out is shared out whole; everybody has the *)
(* floor, and whoever has more has it in proportion.                       *)
LEMMA SharedOut ==
  ASSUME NEW n \in Nat \ {0}, NEW w \in [1..n -> Nat \ {0}], Len(w) = n,
         NEW seats \in Nat, n <= seats
  PROVE  LET parts == ApplyFloor(w, seats).parts
             whole == ApplyFloor(w, seats).whole
         IN  /\ parts \in [1..n -> Nat \ {0}]
             /\ whole \in Nat \ {0}
             /\ Total(parts, 1..n) = whole
             /\ \A i \in 1..n : seats * parts[i] >= whole
             /\ \A i, j \in 1..n :
                  seats * parts[i] > whole => parts[i] * w[j] <= parts[j] * w[i]
<1> DEFINE P == Pinned(w, seats)
           D == (1..n) \ P
           k == seats - Cardinality(P)
           B == Total(w, D)
           parts == ApplyFloor(w, seats).parts
           whole == ApplyFloor(w, seats).whole
<1>0. DOMAIN w = 1..n
  OBVIOUS
<1>1. Floored(w, seats, P) /\ Starved(w, seats, P) = {}
  BY PinnedFloored
<1>2. P \subseteq 1..n /\ D # {}
  BY <1>0, <1>1, Zenon DEF Floored
<1>3. \A j \in P : k * w[j] <= B
  BY <1>0, <1>1, Zenon DEF Floored
<1>4. \A i \in D : ~(k * w[i] < B)
  BY <1>0, <1>1, Zenon DEF Starved
<1>5. /\ IsFiniteSet(P) /\ IsFiniteSet(D) /\ Cardinality(P) \in Nat
      /\ k \in Nat \ {0} /\ B \in Nat \ {0}
  BY <1>2, Rest
<1>6. /\ parts = [i \in 1..n |-> IF i \in P THEN B ELSE k * w[i]]
      /\ whole = seats * B
  BY <1>0 DEF ApplyFloor, ShareOut
<1>s. seats \in Nat \ {0}
  OBVIOUS
<1> HIDE DEF P, D, k, B, parts, whole
<1>7. \A i \in 1..n : i \in P \/ i \in D
  BY DEF D
<1>8. \A i \in 1..n : w[i] \in Nat \ {0} /\ k * w[i] \in Nat \ {0}
  BY <1>5
<1>9. parts \in [1..n -> Nat \ {0}]
  BY <1>5, <1>6, <1>8
<1>10. whole \in Nat \ {0}
  BY <1>s, <1>5, <1>6
<1>11. Total(parts, 1..n) = whole
  <2>1. P \cup D = 1..n /\ P \cap D = {}
    BY <1>2 DEF D
  <2>2. \A i \in P \cup D : parts[i] \in Int
    BY <1>9, <2>1
  <2>3. Total(parts, P \cup D) = Total(parts, P) + Total(parts, D)
    BY <1>5, <2>1, <2>2, TotalSplit
  <2>4. Total(parts, P) = B * Cardinality(P)
    <3>1. \A i \in P : parts[i] = B
      BY <1>2, <1>6
    <3> QED BY <3>1, <1>5, TotalConst
  <2>5. Total(parts, D) = k * B
    <3>1. \A i \in D : w[i] \in Int /\ parts[i] = k * w[i]
      BY <1>6, <1>8 DEF D
    <3>2. k \in Int
      BY <1>5
    <3>3. Total(parts, D) = k * Total(w, D)
      BY <3>1, <3>2, <1>5, TotalScale, Zenon
    <3> QED BY <3>3 DEF B
  <2>6. B * Cardinality(P) + k * B = seats * B
    <3>1. k = seats - Cardinality(P)
      BY DEF k
    <3> QED BY <3>1, <1>5
  <2> QED BY <2>1, <2>3, <2>4, <2>5, <2>6, <1>6
<1>12. ASSUME NEW i \in 1..n PROVE parts[i] \in Nat /\ B <= parts[i] /\ (i \in P => parts[i] = B)
  <2>1. parts[i] \in Nat /\ i \in DOMAIN parts
    BY <1>9
  <2>2. CASE i \in P
    <3>1. parts[i] = B
      BY <2>2, <1>6
    <3> QED BY <3>1, <1>5
  <2>3. CASE i \notin P
    <3>1. parts[i] = k * w[i] /\ ~(k * w[i] < B)
      BY <2>3, <1>4, <1>6, <1>7
    <3>2. ~(parts[i] < B)
      BY <3>1, Zenon
    <3> QED BY <2>1, <2>3, <3>2, <1>5
  <2> QED BY <2>2, <2>3
<1>13. ASSUME NEW i \in 1..n PROVE seats * parts[i] >= whole
  <2>1. seats * B <= seats * parts[i]
    <3>1. parts[i] \in Int /\ B \in Int /\ seats \in Nat /\ B <= parts[i]
      BY <1>5, <1>12
    <3> QED BY <3>1, TimesOrder, Zenon
  <2>2. seats * B \in Int /\ seats * parts[i] \in Int
    BY <1>5, <1>12, TimesInt
  <2> QED BY <2>1, <2>2, <1>6
<1>14. ASSUME NEW i \in 1..n, NEW j \in 1..n, seats * parts[i] > whole
       PROVE  parts[i] * w[j] <= parts[j] * w[i]
  <2> DEFINE x == w[i]
             y == w[j]
             p == parts[j]
  <2>1. i \notin P
    <3>1. SUFFICES ASSUME i \in P PROVE FALSE
      OBVIOUS
    <3>2. seats * parts[i] = whole
      BY <3>1, <1>6, <1>12
    <3> QED BY <3>2, <1>10, <1>14
  <2>2. parts[i] = k * x
    BY <2>1, <1>6
  <2>3. x \in Nat /\ y \in Nat /\ p \in Nat
    BY <1>8, <1>9
  <2>4. k * y <= p
    <3>1. CASE j \in P
      BY <3>1, <1>3, <1>12
    <3>2. CASE j \notin P
      <4>1. p = k * y
        BY <3>2, <1>6
      <4> QED BY <4>1, <2>3
    <3> QED BY <3>1, <3>2
  <2> HIDE DEF x, y, p
  <2>5. (k * y) * x <= p * x
    BY <2>3, <2>4, <1>5, TimesInt, TimesOrder
  <2>6. (k * x) * y = (k * y) * x
    BY <2>3, <1>5
  <2>7. parts[i] * y <= p * x
    BY <2>2, <2>5, <2>6
  <2> QED BY <2>7 DEF x, y, p
<1> QED BY <1>9, <1>10, <1>11, <1>13, <1>14 DEF parts, whole

(* Of a set of numbers up to n, the last.                                  *)
LEMMA LastOf ==
  ASSUME NEW n \in Nat, NEW T \in SUBSET (1..n), T # {}
  PROVE  Max(T) \in T /\ \A t \in T : t <= Max(T)
<1>1. IsFiniteSet(1..n)
  BY FS_Interval
<1>2. IsFiniteSet(T)
  BY <1>1, FS_Subset
<1> DEFINE G == {n - t : t \in T}
<1>3. G \in SUBSET Nat /\ G # {}
  <2>1. \A t \in T : n - t \in Nat
    OBVIOUS
  <2>2. PICK t \in T : TRUE
    OBVIOUS
  <2> QED BY <2>1, <2>2
<1> HIDE DEF G
<1>4. PICK g \in G : \A h \in G : g <= h
  BY <1>3, LeastNumber
<1>5. PICK t \in T : g = n - t
  BY <1>4 DEF G
<1>6. \A u \in T : n - u \in G
  BY DEF G
<1>7. \A u \in T : u <= t
  BY <1>4, <1>5, <1>6
<1> QED BY <1>5, <1>7 DEF Max

(* The ranking of a regime: its cells, each once.                          *)
LEMMA SharesFair ==
  ASSUME NEW n \in Nat \ {0}, NEW ranked, DOMAIN ranked = 1..n, Len(ranked) = n,
         \A i \in 1..n : CompositeScore(ranked[i]) \in DOMAIN Odds,
         WeightsNormalized(NormalizedWeights(ranked))
  PROVE  FairlyShared(ranked, NormalizedWeights(ranked))
<1> DEFINE w == [i \in DOMAIN ranked |-> Odds[CompositeScore(ranked[i])]]
           seats == Max({Seats, Len(ranked)})
           share == ApplyFloor(w, seats)
           keys == {Variant(ranked[i]) : i \in DOMAIN ranked}
           last(k) == Max({i \in DOMAIN ranked : Variant(ranked[i]) = k})
           given == NormalizedWeights(ranked)
<1>1. given = [of |-> [k \in keys |-> share.parts[last(k)]], whole |-> share.whole]
  BY DEF NormalizedWeights
<1>2. w \in [1..n -> Nat \ {0}] /\ Len(w) = n
  <2>1. \A i \in 1..n : Odds[CompositeScore(ranked[i])] \in Nat \ {0}
    BY VettingAssumption
  <2>2. w \in [1..n -> Nat \ {0}]
    BY <2>1
  <2> QED BY <2>2
<1>3. seats \in Nat /\ n <= seats
  <2>1. Seats \in Nat
    BY VettingAssumption
  <2>2. \E m \in {Seats, n} : \A x \in {Seats, n} : m >= x
    BY <2>1
  <2> QED BY <2>1, <2>2 DEF Max
<1> HIDE DEF w, seats
<1>4. /\ share.parts \in [1..n -> Nat \ {0}]
      /\ share.whole \in Nat \ {0}
      /\ Total(share.parts, 1..n) = share.whole
      /\ \A i \in 1..n : seats * share.parts[i] >= share.whole
      /\ \A i, j \in 1..n : seats * share.parts[i] > share.whole
                              => share.parts[i] * w[j] <= share.parts[j] * w[i]
  BY <1>2, <1>3, SharedOut
<1> DEFINE parts == share.parts
           whole == share.whole
           at == [k \in keys |-> last(k)]
<1>5. given.of = [k \in keys |-> parts[last(k)]] /\ given.whole = whole
  BY <1>1
<1>6. \A k \in keys : last(k) \in 1..n /\ Variant(ranked[last(k)]) = k
  <2>1. ASSUME NEW k \in keys
        PROVE  last(k) \in {i \in DOMAIN ranked : Variant(ranked[i]) = k}
    <3>1. {i \in DOMAIN ranked : Variant(ranked[i]) = k} \in SUBSET (1..n)
      OBVIOUS
    <3>2. {i \in DOMAIN ranked : Variant(ranked[i]) = k} # {}
      OBVIOUS
    <3> QED BY <3>1, <3>2, LastOf
  <2> QED BY <2>1
<1>7. IsFiniteSet(keys) /\ IsFiniteSet(1..n)
  <2>1. IsFiniteSet(1..n)
    BY FS_Interval
  <2> DEFINE f == [i \in 1..n |-> Variant(ranked[i])]
  <2>2. f \in Surjection(1..n, keys)
    BY DEF Surjection
  <2> QED BY <2>1, <2>2, FS_Surjection
<1> HIDE DEF last, keys, share
<1>8. at \in [keys -> 1..n] /\ \A k \in keys : at[k] = last(k)
  BY <1>6
<1>9. \A k, l \in keys : at[k] = at[l] => k = l
  BY <1>6, <1>8
<1> HIDE DEF at, given
<1>10. Total(given.of, keys) = Total(parts, {at[k] : k \in keys})
  <2>1. \A k \in keys : parts[at[k]] \in Int /\ given.of[k] = parts[at[k]]
    <3>1. \A i \in 1..n : parts[i] \in Int
      BY <1>4
    <3> QED BY <3>1, <1>5, <1>8
  <2> DEFINE v == given.of
             u == parts
             H == {at[k] : k \in keys}
  <2>2. /\ H = {at[k] : k \in keys} /\ IsFiniteSet(keys)
        /\ \A k, l \in keys : at[k] = at[l] => k = l
        /\ \A k \in keys : u[at[k]] \in Int /\ v[k] = u[at[k]]
    BY <2>1, <1>7, <1>8, <1>9
  <2> HIDE DEF u, v, H
  <2>3. Total(v, keys) = Total(u, H)
    BY <2>2, TotalImage
  <2> QED BY <2>3 DEF u, v, H
<1>11. DOMAIN given.of = keys
  BY <1>5
<1>12. Total(given.of, keys) = whole
  BY <1>5, <1>11 DEF WeightsNormalized, given
<1>13. {at[k] : k \in keys} = 1..n
  <2>1. {at[k] : k \in keys} \in SUBSET (1..n)
    BY <1>8
  <2>2. \A i \in 1..n : parts[i] \in Nat \ {0}
    BY <1>4
  <2> QED BY <2>1, <2>2, <1>4, <1>7, <1>10, <1>12, TotalWhole
<1>14. ASSUME NEW i \in 1..n PROVE Variant(ranked[i]) \in keys /\ last(Variant(ranked[i])) = i
  <2>1. PICK k \in keys : i = at[k]
    BY <1>13
  <2> QED BY <2>1, <1>6, <1>8
<1>15. ASSUME NEW i \in 1..n PROVE given.of[Variant(ranked[i])] = parts[i]
  BY <1>5, <1>14
<1>16. \A i \in 1..n : w[i] = Odds[CompositeScore(ranked[i])]
  BY DEF w
<1>17. DOMAIN given.of = {Variant(ranked[i]) : i \in DOMAIN ranked}
  BY <1>11 DEF keys
<1>18. Total(given.of, DOMAIN given.of) = given.whole
  BY <1>11, <1>12, <1>5
<1>19. \A i \in DOMAIN ranked : seats * given.of[Variant(ranked[i])] >= given.whole
  BY <1>4, <1>5, <1>15
<1>20. \A i, j \in DOMAIN ranked :
          seats * given.of[Variant(ranked[i])] > given.whole
            => given.of[Variant(ranked[i])] * Odds[CompositeScore(ranked[j])]
                 <= given.of[Variant(ranked[j])] * Odds[CompositeScore(ranked[i])]
  <2>1. ASSUME NEW i \in 1..n, NEW j \in 1..n, seats * parts[i] > whole
        PROVE  parts[i] * w[j] <= parts[j] * w[i]
    BY <2>1, <1>4, Zenon
  <2>2. ASSUME NEW i \in 1..n, NEW j \in 1..n,
               seats * given.of[Variant(ranked[i])] > given.whole
        PROVE  given.of[Variant(ranked[i])] * Odds[CompositeScore(ranked[j])]
                 <= given.of[Variant(ranked[j])] * Odds[CompositeScore(ranked[i])]
    <3>1. given.of[Variant(ranked[i])] = parts[i] /\ given.of[Variant(ranked[j])] = parts[j]
      BY <1>15
    <3>2. seats * parts[i] > whole
      BY <2>2, <3>1, <1>5, Zenon
    <3>3. parts[i] * w[j] <= parts[j] * w[i]
      BY <2>1, <3>2
    <3> QED BY <3>1, <3>3, <1>16, Zenon
  <2> QED BY <2>2, Zenon
<1>21. given.whole > 0
  BY <1>4, <1>5
<1> QED BY <1>17, <1>18, <1>19, <1>20, <1>21 DEF FairlyShared, seats, given

(***************************************************************************)
(* The ranking                                                             *)
(***************************************************************************)
Comparable(c) == CompositeScore(c) \in Int /\ c.trades \in Int /\ c.drawdown \in Int

(* Before is a strict order of them.                                       *)
LEMMA BeforeOrders ==
  ASSUME NEW x, NEW y, NEW z, Comparable(x), Comparable(y), Comparable(z)
  PROVE  ~Before(x, x) /\ (Before(x, y) /\ Before(y, z) => Before(x, z))
BY DEF Before, Comparable

(* Some cell comes before no other.                                        *)
LEMMA LastCell ==
  ASSUME NEW S, IsFiniteSet(S), S # {}, \A c \in S : Comparable(c)
  PROVE  \E x \in S : \A y \in S : ~Before(x, y)
<1> DEFINE F == {T \in SUBSET S : T # {} => \E x \in T : \A y \in T : ~Before(x, y)}
<1>1. {} \in F
  OBVIOUS
<1>2. ASSUME NEW T \in F, NEW z \in S \ T PROVE T \cup {z} \in F
  <2>1. CASE T = {}
    <3>1. ~Before(z, z)
      BY BeforeOrders
    <3> QED BY <2>1, <3>1
  <2>2. CASE T # {}
    <3>1. PICK x \in T : \A y \in T : ~Before(x, y)
      BY <2>2
    <3>2. CASE ~Before(x, z)
      BY <3>1, <3>2
    <3>3. CASE Before(x, z)
      <4>1. \A y \in T : Before(z, y) => Before(x, y)
        BY <3>3, BeforeOrders
      <4>2. \A y \in T \cup {z} : ~Before(z, y)
        BY <3>1, <4>1, BeforeOrders
      <4> QED BY <4>2
    <3> QED BY <3>2, <3>3
  <2> QED BY <2>1, <2>2
<1> HIDE DEF F
<1>3. F \in SUBSET (SUBSET S)
  BY DEF F
<1>4. S \in F
  <2>1. \A T \in F : \A x \in S \ T : T \cup {x} \in F
    BY <1>2
  <2> QED BY <2>1, <1>1, <1>3, Subsets
<1> QED BY <1>4 DEF F

Ranking(r, S) ==
  /\ r \in [1..Cardinality(S) -> S]
  /\ \A i, j \in 1..Cardinality(S) : r[i] = r[j] => i = j
  /\ \A i, j \in 1..Cardinality(S) : i < j => ~Before(r[j], r[i])

(* There is a ranking of any cells.                                        *)
LEMMA RankingExists ==
  ASSUME NEW S, IsFiniteSet(S), \A c \in S : Comparable(c)
  PROVE  \E r : Ranking(r, S)
<1> DEFINE T == {n \in Nat : \A R \in SUBSET S : Cardinality(R) = n => \E r : Ranking(r, R)}
<1>0. \A R \in SUBSET S : IsFiniteSet(R) /\ Cardinality(R) \in Nat
  BY FS_Subset, FS_CardinalityType
<1>1. 0 \in T
  <2>1. ASSUME NEW R \in SUBSET S, Cardinality(R) = 0 PROVE \E r : Ranking(r, R)
    <3> DEFINE r == [i \in 1..0 |-> Missing]
    <3>1. 1..0 = {}
      OBVIOUS
    <3>2. r \in [1..0 -> R]
      BY <3>1
    <3>3. Ranking(r, R)
      BY <2>1, <3>1, <3>2 DEF Ranking
    <3> QED BY <3>3
  <2> QED BY <2>1
<1>2. ASSUME NEW n \in T PROVE n + 1 \in T
  <2>1. ASSUME NEW R \in SUBSET S, Cardinality(R) = n + 1 PROVE \E r : Ranking(r, R)
    <3>1. R # {}
      BY <1>2, <2>1, FS_EmptySet
    <3>2. PICK x \in R : \A y \in R : ~Before(x, y)
      BY <1>0, <3>1, LastCell
    <3>3. Cardinality(R \ {x}) = n
      <4>1. Cardinality(R \ {x}) = Cardinality(R) - 1
        BY <1>0, FS_RemoveElement
      <4> QED BY <4>1, <1>2, <2>1
    <3>4. PICK q : Ranking(q, R \ {x})
      BY <1>2, <3>3
    <3>5. /\ q \in [1..n -> R \ {x}]
          /\ \A i, j \in 1..n : q[i] = q[j] => i = j
          /\ \A i, j \in 1..n : i < j => ~Before(q[j], q[i])
      BY <3>3, <3>4 DEF Ranking
    <3> DEFINE r == [i \in 1..(n + 1) |-> IF i = n + 1 THEN x ELSE q[i]]
    <3>6. \A i \in 1..(n + 1) : i # n + 1 => i \in 1..n
      BY <1>2
    <3>7. \A i \in 1..(n + 1) : r[i] = IF i = n + 1 THEN x ELSE q[i]
      OBVIOUS
    <3>8. r \in [1..(n + 1) -> R]
      BY <3>5, <3>6
    <3> HIDE DEF r
    <3>9. \A i, j \in 1..(n + 1) : r[i] = r[j] => i = j
      BY <3>5, <3>6, <3>7
    <3>10. ASSUME NEW i \in 1..(n + 1), NEW j \in 1..(n + 1), i < j
           PROVE  ~Before(r[j], r[i])
      <4>1. i \in 1..n /\ r[i] = q[i] /\ q[i] \in R
        BY <3>5, <3>7, <3>10, <1>2
      <4>2. CASE j = n + 1
        BY <4>1, <4>2, <3>2, <3>7
      <4>3. CASE j # n + 1
        BY <4>1, <4>3, <3>5, <3>6, <3>7, <3>10
      <4> QED BY <4>2, <4>3
    <3>11. Ranking(r, R)
      BY <2>1, <3>8, <3>9, <3>10 DEF Ranking
    <3> QED BY <3>11
  <2> QED BY <2>1, <1>2
<1> HIDE DEF T
<1>3. T \in SUBSET Nat
  BY DEF T
<1>4. Cardinality(S) \in T
  BY <1>0, <1>1, <1>2, <1>3, Numbers
<1> QED BY <1>4 DEF T

(* So what is chosen is one, and has every cell.                           *)
LEMMA RankCellsRanks ==
  ASSUME NEW S, IsFiniteSet(S), \A c \in S : Comparable(c)
  PROVE  /\ Ranking(RankCells(S), S)
         /\ Range(RankCells(S)) = S
         /\ Len(RankCells(S)) = Cardinality(S)
<1> DEFINE n == Cardinality(S)
           Q(r) == r \in SetToSeqs(S) /\ \A i, j \in DOMAIN r : i < j => ~Before(r[j], r[i])
<1>1. n \in Nat
  BY FS_CardinalityType
<1>2. PICK r : Ranking(r, S)
  BY RankingExists
<1>3. SetToSeqs(S) = {f \in [1..n -> S] : \A i, j \in 1..n : f[i] = f[j] => i = j}
  BY DEF SetToSeqs, IsInjective
<1>4. Q(r)
  BY <1>2, <1>3 DEF Ranking
<1>5. RankCells(S) = CHOOSE x : Q(x)
  BY DEF RankCells
<1> DEFINE ranked == RankCells(S)
<1> HIDE DEF Q
<1>6. Q(ranked)
  BY <1>4, <1>5
<1> HIDE DEF ranked
<1>7. Ranking(ranked, S)
  BY <1>3, <1>6 DEF Q, Ranking
<1>8. ranked \in Injection(1..n, S)
  BY <1>7 DEF Ranking, Injection, IsInjective
<1>9. ranked \in Surjection(1..n, S)
  <2>1. Cardinality(1..n) = n
    BY <1>1, FS_Interval
  <2> QED BY <1>8, <2>1, FS_Injection
<1>10. Range(ranked) = S
  BY <1>9 DEF Range, Surjection
<1>11. Len(ranked) = n
  BY <1>1, <1>7 DEF Ranking
<1> QED BY <1>7, <1>10, <1>11 DEF ranked

(***************************************************************************)
(* The rows of the table                                                   *)
(***************************************************************************)

(* A clipped number stays clipped.                                         *)
LEMMA Clipped ==
  ASSUME NEW x \in Int, NEW b \in Nat
  PROVE  /\ Clip(x, b) \in Int
         /\ Clip(Clip(x, b), b) = Clip(x, b)
<1>1. \A y \in Int : \E m \in {b, y} : \A z \in {b, y} : m <= z
  OBVIOUS
<1>2. \A y \in Int : Min({b, y}) \in Int /\ Min({b, y}) = (IF y < b THEN y ELSE b)
  <2>1. ASSUME NEW y \in Int PROVE Min({b, y}) \in {b, y} /\ \A z \in {b, y} : Min({b, y}) <= z
    BY <1>1 DEF Min
  <2> QED BY <2>1
<1>3. \A y \in Int : \E m \in {-b, y} : \A z \in {-b, y} : m >= z
  OBVIOUS
<1>4. \A y \in Int : Max({-b, y}) \in Int /\ Max({-b, y}) = (IF y < -b THEN -b ELSE y)
  <2>1. ASSUME NEW y \in Int
        PROVE  Max({-b, y}) \in {-b, y} /\ \A z \in {-b, y} : Max({-b, y}) >= z
    BY <1>3 DEF Max
  <2> QED BY <2>1
<1>5. \A y \in Int : Clip(y, b) \in Int /\
        Clip(y, b) = (IF (IF y < b THEN y ELSE b) < -b THEN -b ELSE (IF y < b THEN y ELSE b))
  BY <1>2, <1>4 DEF Clip
<1> QED BY <1>5

TableRows == {ComputeAttribution(t) : t \in {t \in Tables : ~Refuses(t)}}

(* What is stored has cells only that can be told plausible, finitely many. *)
LEMMA RowsAre ==
  ASSUME NEW table \in TableRows \cup {{}}
  PROVE  /\ IsFiniteSet(table) /\ \A c \in table : IsCell(c) /\ ~Implausible(c)
         /\ \A c \in Passing(table) : CompositeScore(c) \in DOMAIN Odds
<1>1. CASE table = {}
  BY <1>1, FS_EmptySet DEF Passing
<1>2. CASE table \in TableRows
  <2>1. PICK t \in Tables : table = ComputeAttribution(t) /\ ~Refuses(t)
    BY <1>2 DEF TableRows
  <2>2. IsFiniteSet(t) /\ \A c \in t : IsCell(c)
    BY TablesAssumption
  <2>3. \A c \in Passing(table) : CompositeScore(c) \in DOMAIN Odds
    BY <2>1, TablesAssumption
  <2> DEFINE f(c) == [c EXCEPT !.sharpe = IF @ = Missing THEN Missing ELSE Clip(@, MaxSharpe)]
             g == [c \in t |-> f(c)]
  <2>4. table = {f(c) : c \in t}
    BY <2>1 DEF ComputeAttribution
  <2>5. g \in Surjection(t, table)
    BY <2>4 DEF Surjection
  <2>6. IsFiniteSet(table)
    BY <2>2, <2>5, FS_Surjection
  <2>7. ASSUME NEW c \in t PROVE IsCell(f(c)) /\ ~Implausible(f(c))
    <3>1. IsCell(c)
      BY <2>2
    <3>2. c.sharpe = Missing \/ c.sharpe \in Int
      BY <3>1 DEF IsCell, Metric
    <3>3. MaxSharpe \in Nat
      BY DEF MaxSharpe
    <3> DEFINE s == IF c.sharpe = Missing THEN Missing ELSE Clip(c.sharpe, MaxSharpe)
    <3>4. s \in Metric /\ (s # Missing => Clip(s, MaxSharpe) = s)
      BY <3>2, <3>3, Clipped DEF Metric
    <3>5. f(c) = [c EXCEPT !.sharpe = s]
      OBVIOUS
    <3> HIDE DEF s
    <3>6. IsCell(f(c)) /\ f(c).sharpe = s
      BY <3>1, <3>4, <3>5 DEF IsCell
    <3> QED BY <3>4, <3>6 DEF Implausible
  <2> HIDE DEF f
  <2> QED BY <2>3, <2>4, <2>6, <2>7
<1> QED BY <1>1, <1>2

(* A stored run is none that is refused.                                   *)
LEMMA RowsNotRefused ==
  ASSUME NEW table \in TableRows PROVE ~Refuses(table)
BY RowsAre DEF Refuses

(* What is loaded is a number.                                             *)
LEMMA CapInt == ASSUME NEW x \in Metric PROVE Cap(x) \in Int
<1>1. CAP \in Nat
  BY DEF CAP
<1> QED BY <1>1, Clipped DEF Cap, Metric

(* What passes can be ranked, and there is no end of it.                   *)
LEMMA PassingAre ==
  ASSUME NEW table, IsFiniteSet(table), \A c \in table : IsCell(c)
  PROVE  /\ IsFiniteSet(Passing(table))
         /\ \A c \in Passing(table) :
              Comparable(c) /\ EvaluateGates(c) /\ c.trades >= NMin
<1> DEFINE L == {Loaded(d) : d \in table}
           g == [d \in table |-> Loaded(d)]
<1>1. g \in Surjection(table, L)
  BY DEF Surjection
<1>2. IsFiniteSet(L)
  BY <1>1, FS_Surjection
<1>3. IsFiniteSet(Passing(table))
  BY <1>2, FS_Subset DEF Passing
<1>4. ASSUME NEW c \in Passing(table) PROVE Comparable(c) /\ EvaluateGates(c) /\ c.trades >= NMin
  <2>1. PICK d \in table : c = Loaded(d) /\ EvaluateGates(c)
    BY DEF Passing
  <2>2. IsCell(d)
    OBVIOUS
  <2>3. d.pf \in Metric /\ d.sharpe \in Metric /\ d.recovery \in Metric /\ d.drawdown \in Int
        /\ d.trades \in Nat
    BY <2>2 DEF IsCell
  <2>4. Cap(d.pf) \in Int /\ Cap(d.sharpe) \in Int /\ Cap(d.recovery) \in Int
    BY <2>3, CapInt
  <2>5. /\ c.pf = Cap(d.pf) /\ c.sharpe = Cap(d.sharpe) /\ c.recovery = Cap(d.recovery)
        /\ c.drawdown = d.drawdown /\ c.trades = d.trades
    BY <2>1, <2>2 DEF Loaded, IsCell
  <2>6. CompositeScore(c) \in Int
    BY <2>3, <2>4, <2>5 DEF CompositeScore
  <2>7. c.trades >= NMin
    BY <2>1, <2>3, <2>5, VettingAssumption DEF EvaluateGates, LowConfidence
  <2> QED BY <2>1, <2>3, <2>5, <2>6, <2>7 DEF Comparable
<1> QED BY <1>3, <1>4

(***************************************************************************)
(* What is built of them                                                   *)
(***************************************************************************)

(* A regime has its cells, each once, by rank.                             *)
LEMMA BuiltRanked ==
  ASSUME NEW table \in TableRows \cup {{}}, NEW r \in DOMAIN Ranked(table)
  PROVE  LET ranked == Ranked(table)[r]
             n == Cardinality(InRegime(table, r))
         IN  /\ n \in Nat \ {0} /\ DOMAIN ranked = 1..n /\ Len(ranked) = n
             /\ Range(ranked) = InRegime(table, r)
             /\ \A i \in 1..n : ranked[i] \in Passing(table) /\ Comparable(ranked[i])
             /\ \A i, j \in 1..n : i < j => ~Before(ranked[j], ranked[i])
<1> DEFINE S == InRegime(table, r)
           ranked == Ranked(table)[r]
           n == Cardinality(S)
<1>1. IsFiniteSet(table) /\ \A c \in table : IsCell(c)
  BY RowsAre
<1>2. S \in SUBSET Passing(table) /\ S # {}
  BY DEF InRegime, Ranked
<1>3. IsFiniteSet(S) /\ \A c \in S : Comparable(c)
  BY <1>1, <1>2, PassingAre, FS_Subset
<1>4. ranked = RankCells(S)
  BY DEF Ranked
<1>5. Ranking(ranked, S) /\ Range(ranked) = S /\ Len(ranked) = n
  BY <1>3, <1>4, RankCellsRanks
<1>6. n \in Nat \ {0}
  BY <1>2, <1>3, FS_CardinalityType, FS_EmptySet
<1> HIDE DEF ranked, S
<1>7. DOMAIN ranked = 1..n /\ \A i \in 1..n : ranked[i] \in S
  BY <1>5 DEF Ranking
<1>8. \A i, j \in 1..n : i < j => ~Before(ranked[j], ranked[i])
  BY <1>5 DEF Ranking
<1> QED BY <1>2, <1>3, <1>5, <1>6, <1>7, <1>8 DEF ranked, S

(* Their shares are fair.                                                  *)
LEMMA BuiltFair ==
  ASSUME NEW table \in TableRows \cup {{}}, Builds(table), NEW r \in DOMAIN Ranked(table)
  PROVE  FairlyShared(Ranked(table)[r], Shares(table)[r])
<1> DEFINE ranked == Ranked(table)[r]
           n == Cardinality(InRegime(table, r))
<1>1. /\ n \in Nat \ {0} /\ DOMAIN ranked = 1..n /\ Len(ranked) = n
      /\ \A i \in 1..n : ranked[i] \in Passing(table)
  BY BuiltRanked
<1>2. \A i \in 1..n : CompositeScore(ranked[i]) \in DOMAIN Odds
  BY <1>1, RowsAre
<1>3. DOMAIN Shares(table) = DOMAIN Ranked(table) /\ Shares(table)[r] = NormalizedWeights(ranked)
  BY DEF Shares
<1>4. WeightsNormalized(NormalizedWeights(ranked))
  BY <1>3 DEF Builds
<1> HIDE DEF ranked
<1>5. FairlyShared(ranked, NormalizedWeights(ranked))
  BY <1>1, <1>2, <1>4, SharesFair
<1> QED BY <1>3, <1>5 DEF ranked

(* All of them passed the gates, and no score is above the one before.     *)
LEMMA BuiltGated ==
  ASSUME NEW table \in TableRows \cup {{}}, Builds(table), NEW r \in DOMAIN Ranked(table)
  PROVE  LET ranked == Ranked(table)[r]
         IN  /\ r \in Regimes
             /\ \A i \in DOMAIN ranked :
                  /\ ranked[i].trades >= NMin /\ EvaluateGates(ranked[i])
                  /\ i > 1 => CompositeScore(ranked[i]) <= CompositeScore(ranked[i - 1])
<1> DEFINE ranked == Ranked(table)[r]
           n == Cardinality(InRegime(table, r))
<1>1. /\ n \in Nat \ {0} /\ DOMAIN ranked = 1..n
      /\ \A i \in 1..n : ranked[i] \in Passing(table) /\ Comparable(ranked[i])
      /\ \A i, j \in 1..n : i < j => ~Before(ranked[j], ranked[i])
  BY BuiltRanked
<1>2. r \in Regimes
  BY DEF Builds
<1>3. IsFiniteSet(table) /\ \A c \in table : IsCell(c)
  BY RowsAre
<1>4. \A i \in 1..n : ranked[i].trades >= NMin /\ EvaluateGates(ranked[i])
  BY <1>1, <1>3, PassingAre
<1> HIDE DEF ranked
<1>5. ASSUME NEW i \in 1..n, i > 1 PROVE CompositeScore(ranked[i]) <= CompositeScore(ranked[i - 1])
  <2>1. i - 1 \in 1..n /\ i - 1 < i
    <3>1. n \in Nat
      BY <1>1
    <3> HIDE DEF n
    <3> QED BY <3>1, <1>5
  <2>2. ~Before(ranked[i], ranked[i - 1])
    BY <2>1, <1>1
  <2>3. ~(CompositeScore(ranked[i]) > CompositeScore(ranked[i - 1]))
    BY <2>2 DEF Before
  <2> QED BY <2>1, <2>3, <1>1 DEF Comparable
<1> QED BY <1>1, <1>2, <1>4, <1>5 DEF ranked

(* The qualified are those in the map.                                     *)
LEMMA BuiltQualified ==
  ASSUME NEW table \in TableRows \cup {{}}
  PROVE  Qualified(table)
           = {c.strategy : c \in UNION {Range(Ranked(table)[r]) : r \in DOMAIN Ranked(table)}}
<1>1. \A r \in DOMAIN Ranked(table) : Range(Ranked(table)[r]) = InRegime(table, r)
  BY BuiltRanked
<1>2. UNION {InRegime(table, r) : r \in DOMAIN Ranked(table)} = Passing(table)
  BY DEF InRegime, Ranked
<1>3. {Range(Ranked(table)[r]) : r \in DOMAIN Ranked(table)}
        = {InRegime(table, r) : r \in DOMAIN Ranked(table)}
  BY <1>1
<1> QED BY <1>2, <1>3 DEF Qualified

(***************************************************************************)
(* The protocol: what a run left in the table never changes again, so that *)
(* each file is what is built of a run still there; and as long as a       *)
(* vetting has met no other one, the files are its own.                    *)
(***************************************************************************)
Readable(run) == (run = 0 \/ run \in Committed) /\ Builds(CellsOf(run))
MapOf(run) == [run |-> run, regimes |-> Ranked(CellsOf(run))]
WeightsOf(run) == [run |-> run, regimes |-> Shares(CellsOf(run))]
Alone(v) == vetter[v].at # "idle" /\ vetter[v].alone

StoredOK ==
  /\ stored \in Seq(TableRows \cup {Missing}) /\ Len(stored) <= MaxRuns
  /\ ends \in 0..MaxEnds

BegunOK ==
  /\ \A a \in Attributors : begun[a] # Missing =>
       begun[a] \in DOMAIN stored /\ stored[begun[a]] = Missing
  /\ \A a, b \in Attributors : begun[a] # Missing /\ begun[a] = begun[b] => a = b
  /\ begun = [a \in Attributors |-> begun[a]]

Stage == [at : {"idle", "map", "weights", "registry"}, run : Nat, alone : BOOLEAN]

VetterIs(v) ==
  /\ vetter[v].at # "idle" => Readable(vetter[v].run)
  /\ Alone(v) => \A u \in Vetters \ {v} : vetter[u].at = "idle"
  /\ Alone(v) /\ vetter[v].at \in {"weights", "registry"} => map = MapOf(vetter[v].run)
  /\ Alone(v) /\ vetter[v].at = "registry" => weights = WeightsOf(vetter[v].run)

VetterOK == vetter \in [Vetters -> Stage] /\ \A v \in Vetters : VetterIs(v)

FilesOK ==
  /\ map # Missing => Readable(map.run) /\ map = MapOf(map.run)
  /\ weights # Missing => Readable(weights.run) /\ weights = WeightsOf(weights.run)

SettledOK ==
  settled =>
    /\ \E run \in Committed \cup {0} :
         /\ Readable(run) /\ map = MapOf(run) /\ weights = WeightsOf(run)
         /\ registry = Qualified(CellsOf(run))
    /\ \A v \in Vetters : vetter[v].at \in {"idle", "map"}

VetIInv == StoredOK /\ BegunOK /\ VetterOK /\ FilesOK /\ SettledOK

(* What can be read is a stored run or none, and builds.                   *)
LEMMA CellsKnown ==
  ASSUME StoredOK, NEW run, Readable(run)
  PROVE  CellsOf(run) \in TableRows \cup {{}} /\ Builds(CellsOf(run))
BY DEF Readable, CellsOf, Committed, StoredOK

(* The latest run is one that was committed, or none.                      *)
LEMMA LatestKnown ==
  ASSUME StoredOK
  PROVE  Latest \in Nat /\ (Latest = 0 \/ Latest \in Committed)
<1>1. CASE Committed = {}
  BY <1>1 DEF Latest
<1>2. CASE Committed # {}
  <2>1. Committed \in SUBSET (1..Len(stored)) /\ Len(stored) \in Nat
    BY DEF Committed, StoredOK
  <2>2. Max(Committed) \in Committed
    BY <1>2, <2>1, LastOf
  <2>3. \A r \in Committed : r \in Nat
    BY <2>1
  <2> QED BY <1>2, <2>2, <2>3 DEF Latest
<1> QED BY <1>1, <1>2

(* What was read is there for good.                                        *)
LEMMA KeptReadable ==
  ASSUME VetIInv, [VetNext]_vetVars, NEW run, Readable(run)
  PROVE  Readable(run)' /\ CellsOf(run)' = CellsOf(run)
<1>1. ASSUME NEW r \in Committed PROVE r \in Committed' /\ stored'[r] = stored[r]
  <2>1. r \in DOMAIN stored /\ stored[r] # Missing /\ stored \in Seq(TableRows \cup {Missing})
    BY <1>1 DEF Committed, VetIInv, StoredOK
  <2>2. ASSUME NEW a \in Attributors, PersistDb(a)
        PROVE  r \in DOMAIN stored' /\ stored'[r] = stored[r]
    BY <2>1, <2>2 DEF PersistDb
  <2>3. ASSUME NEW a \in Attributors, Commit(a)
        PROVE  r \in DOMAIN stored' /\ stored'[r] = stored[r]
    <3>1. begun[a] # r
      BY <2>1, <2>3 DEF Commit, VetIInv, BegunOK
    <3>2. PICK rows : stored' = [stored EXCEPT ![begun[a]] = rows]
      BY <2>3 DEF Commit
    <3> QED BY <2>1, <3>1, <3>2
  <2>4. UNCHANGED stored => r \in DOMAIN stored' /\ stored'[r] = stored[r]
    BY <2>1
  <2>5. r \in DOMAIN stored' /\ stored'[r] = stored[r]
    BY <2>2, <2>3, <2>4
       DEF VetNext, vetVars, Build, WriteMap, WriteWeights, UpdateRegistry, EndEarly
  <2> QED BY <2>1, <2>5 DEF Committed
<1>2. CASE run = 0
  BY <1>2 DEF Readable, CellsOf
<1>3. CASE run \in Committed /\ run # 0
  <2>1. CellsOf(run)' = CellsOf(run)
    BY <1>1, <1>3 DEF CellsOf
  <2>2. Builds(CellsOf(run)')
    BY <2>1 DEF Readable
  <2> QED BY <1>1, <1>3, <2>1, <2>2 DEF Readable
<1> QED BY <1>2, <1>3 DEF Readable

(* Nor do the files built of it.                                           *)
LEMMA KeptFiles ==
  ASSUME VetIInv, [VetNext]_vetVars, NEW run, Readable(run)
  PROVE  MapOf(run)' = MapOf(run) /\ WeightsOf(run)' = WeightsOf(run)
BY KeptReadable DEF MapOf, WeightsOf

(* The invariant holds at the start.                                       *)
LEMMA VetInitial == ASSUME VetInit PROVE VetIInv
<1>1. StoredOK
  BY VettingAssumption DEF VetInit, StoredOK
<1>2. BegunOK /\ VetterOK /\ FilesOK /\ SettledOK
  BY DEF VetInit, BegunOK, VetterOK, FilesOK, SettledOK, NotVetting, Alone,
         VetterIs, Stage
<1> QED BY <1>1, <1>2 DEF VetIInv

(* An attribution disturbs nothing that was read.                          *)
LEMMA AttributionKeeps ==
  ASSUME VetIInv, NEW a \in Attributors, PersistDb(a) \/ Commit(a)
  PROVE  VetIInv'
<1>0. [VetNext]_vetVars
  BY DEF VetNext
<1>1. StoredOK' /\ BegunOK'
  <2>1. /\ stored \in Seq(TableRows \cup {Missing}) /\ Len(stored) <= MaxRuns
        /\ ends \in 0..MaxEnds /\ begun = [b \in Attributors |-> begun[b]]
        /\ \A b \in Attributors : begun[b] # Missing =>
             begun[b] \in DOMAIN stored /\ stored[begun[b]] = Missing
        /\ \A b, c \in Attributors : begun[b] # Missing /\ begun[b] = begun[c] => b = c
    BY DEF VetIInv, StoredOK, BegunOK
  <2>2. CASE PersistDb(a)
    <3>1. StoredOK'
      BY <2>1, <2>2, VettingAssumption DEF PersistDb, StoredOK
    <3>2. /\ DOMAIN stored' = 1..(Len(stored) + 1) /\ stored'[Len(stored) + 1] = Missing
          /\ \A r \in DOMAIN stored : r \in DOMAIN stored' /\ stored'[r] = stored[r]
          /\ Len(stored) + 1 \notin DOMAIN stored /\ Len(stored) + 1 \in DOMAIN stored'
      BY <2>1, <2>2 DEF PersistDb
    <3>3. /\ begun' = [b \in Attributors |-> begun'[b]] /\ begun'[a] = Len(stored) + 1
          /\ \A b \in Attributors \ {a} : begun'[b] = begun[b]
      BY <2>1, <2>2 DEF PersistDb
    <3>4. BegunOK'
      BY <2>1, <3>2, <3>3 DEF BegunOK
    <3> QED BY <3>1, <3>4
  <2>3. CASE Commit(a)
    <3>1. PICK rows \in TableRows : stored' = [stored EXCEPT ![begun[a]] = rows]
      BY <2>3 DEF Commit, TableRows
    <3>2. begun[a] \in DOMAIN stored /\ begun[a] # Missing /\ ends' = ends
      BY <2>1, <2>3 DEF Commit
    <3>3. stored' \in Seq(TableRows \cup {Missing}) /\ Len(stored') = Len(stored)
          /\ DOMAIN stored' = DOMAIN stored
          /\ \A r \in DOMAIN stored : r # begun[a] => stored'[r] = stored[r]
      BY <2>1, <3>1, <3>2
    <3>4. begun' = [begun EXCEPT ![a] = Missing]
      BY <2>3 DEF Commit
    <3>5. StoredOK'
      BY <2>1, <3>2, <3>3 DEF StoredOK
    <3>6. /\ begun' = [b \in Attributors |-> begun'[b]] /\ begun'[a] = Missing
          /\ \A b \in Attributors \ {a} : begun'[b] = begun[b]
      BY <2>1, <3>4
    <3>7. \A b \in Attributors \ {a} : begun[b] # Missing => begun[b] # begun[a]
      BY <2>1, <3>2
    <3>8. BegunOK'
      BY <2>1, <3>3, <3>6, <3>7 DEF BegunOK
    <3> QED BY <3>5, <3>8
  <2> QED BY <2>2, <2>3
<1>2. /\ vetter' = vetter /\ map' = map /\ weights' = weights /\ registry' = registry
      /\ settled' = settled
  BY DEF PersistDb, Commit
<1>3. VetterOK'
  <2>1. ASSUME NEW v \in Vetters, vetter[v].at # "idle"
        PROVE  /\ Readable(vetter[v].run)'
               /\ MapOf(vetter[v].run)' = MapOf(vetter[v].run)
               /\ WeightsOf(vetter[v].run)' = WeightsOf(vetter[v].run)
    <3>1. Readable(vetter[v].run)
      BY <2>1 DEF VetIInv, VetterOK, VetterIs
    <3> QED BY <1>0, <1>2, <3>1, KeptReadable, KeptFiles
  <2> QED BY <1>2, <2>1 DEF VetIInv, VetterOK, VetterIs, Alone
<1>4. FilesOK' /\ SettledOK'
  <2>1. \A run : Readable(run) => /\ Readable(run)' /\ CellsOf(run)' = CellsOf(run)
                                 /\ MapOf(run)' = MapOf(run) /\ WeightsOf(run)' = WeightsOf(run)
    BY <1>0, KeptReadable, KeptFiles
  <2>2. FilesOK'
    BY <1>2, <2>1 DEF VetIInv, FilesOK
  <2>3. SettledOK'
    <3>1. SUFFICES ASSUME settled PROVE SettledOK'
      BY <1>2 DEF SettledOK
    <3>2. PICK run \in Committed \cup {0} :
            /\ Readable(run) /\ map = MapOf(run) /\ weights = WeightsOf(run)
            /\ registry = Qualified(CellsOf(run))
      BY <3>1 DEF VetIInv, SettledOK
    <3>3. /\ Readable(run)' /\ map' = MapOf(run)' /\ weights' = WeightsOf(run)'
          /\ registry' = Qualified(CellsOf(run)')
      BY <1>2, <2>1, <3>2
    <3>4. run \in Committed' \cup {0}
      BY <3>3 DEF Readable
    <3>5. \A v \in Vetters : vetter'[v].at \in {"idle", "map"}
      BY <1>2, <3>1 DEF VetIInv, SettledOK
    <3> QED BY <3>3, <3>4, <3>5 DEF SettledOK
  <2> QED BY <2>2, <2>3
<1> QED BY <1>1, <1>3, <1>4 DEF VetIInv

(* Where the table stays, so does what is built of it.                     *)
LEMMA SameTable ==
  ASSUME UNCHANGED stored
  PROVE  /\ Committed' = Committed
         /\ \A run : /\ Readable(run)' = Readable(run) /\ CellsOf(run)' = CellsOf(run)
                     /\ MapOf(run)' = MapOf(run) /\ WeightsOf(run)' = WeightsOf(run)
BY DEF Committed, Readable, CellsOf, MapOf, WeightsOf

(* A vetting leaves the table alone.                                       *)
LEMMA VetterKeepsTable ==
  ASSUME StoredOK, BegunOK, UNCHANGED <<stored, begun>>, ends' \in 0..MaxEnds
  PROVE  StoredOK' /\ BegunOK'
BY DEF StoredOK, BegunOK

(* Reading and building: the others are no longer alone.                   *)
LEMMA BuildKeeps ==
  ASSUME VetIInv, NEW v \in Vetters, Build(v)
  PROVE  VetIInv'
<1>1. StoredOK' /\ BegunOK'
  BY VetterKeepsTable DEF Build, VetIInv, StoredOK
<1> DEFINE others == {u \in Vetters : vetter[u].at # "idle"}
<1>2. vetter' = [u \in Vetters |->
        IF u = v THEN [at |-> "map", run |-> Latest, alone |-> others = {}]
        ELSE IF u \in others THEN [vetter[u] EXCEPT !.alone = FALSE] ELSE vetter[u]]
  BY DEF Build
<1>3. vetter \in [Vetters -> Stage] /\ \A u \in Vetters : VetterIs(u)
  BY DEF VetIInv, VetterOK
<1>4. Latest \in Nat /\ Readable(Latest)
  BY LatestKnown DEF VetIInv, Build, Readable
<1>5. UNCHANGED <<stored, map, weights, registry, settled>>
  BY DEF Build
<1>6. vetter'[v] = [at |-> "map", run |-> Latest, alone |-> others = {}]
  BY <1>2
<1>7. ASSUME NEW u \in Vetters \ {v}
      PROVE  /\ vetter'[u].at = vetter[u].at /\ vetter'[u].run = vetter[u].run
             /\ vetter[u].at # "idle" => vetter'[u].alone = FALSE
             /\ vetter'[u] \in Stage
  <2>1. vetter[u] \in Stage
    BY <1>3
  <2>2. vetter'[u] = IF u \in others THEN [vetter[u] EXCEPT !.alone = FALSE] ELSE vetter[u]
    BY <1>2
  <2> QED BY <2>1, <2>2 DEF Stage
<1>8. vetter' \in [Vetters -> Stage]
  <2>1. vetter'[v] \in Stage
    BY <1>4, <1>6 DEF Stage
  <2>2. vetter' = [u \in Vetters |-> vetter'[u]]
    BY <1>2
  <2> QED BY <1>7, <2>1, <2>2
<1>9. \A run : /\ Readable(run)' = Readable(run) /\ MapOf(run)' = MapOf(run)
              /\ WeightsOf(run)' = WeightsOf(run) /\ CellsOf(run)' = CellsOf(run)
  BY <1>5, SameTable
<1>10. ASSUME NEW u \in Vetters PROVE VetterIs(u)'
  <2>1. CASE u = v
    <3>1. vetter'[v].alone => \A t \in Vetters \ {v} : vetter[t].at = "idle"
      <4>1. vetter'[v].alone = (others = {})
        BY <1>6
      <4>2. others = {} => \A t \in Vetters \ {v} : vetter[t].at = "idle"
        OBVIOUS
      <4> QED BY <4>1, <4>2
    <3>2. vetter'[v].at = "map" /\ vetter'[v].run = Latest
      BY <1>6
    <3>3. Readable(vetter[v].run)'
      BY <1>4, <1>9, <3>2
    <3>4. Alone(v)' => \A t \in Vetters \ {v} : vetter'[t].at = "idle"
      BY <1>7, <3>1 DEF Alone
    <3> QED BY <2>1, <3>2, <3>3, <3>4 DEF VetterIs
  <2>2. CASE u # v
    <3>1. ~Alone(u)'
      BY <2>2, <1>7 DEF Alone
    <3>2. vetter'[u].at # "idle" => Readable(vetter[u].run)'
      BY <2>2, <1>3, <1>7, <1>9 DEF VetterIs
    <3> QED BY <3>1, <3>2 DEF VetterIs
  <2> QED BY <2>1, <2>2
<1>11. VetterOK'
  BY <1>8, <1>10 DEF VetterOK
<1>12. FilesOK'
  BY <1>5, <1>9 DEF VetIInv, FilesOK
<1>13. SettledOK'
  <2>1. SUFFICES ASSUME settled PROVE SettledOK'
    BY <1>5 DEF SettledOK
  <2>2. Committed' = Committed
    BY <1>5, SameTable
  <2>3. \A u \in Vetters : vetter'[u].at \in {"idle", "map"}
    <3>1. \A u \in Vetters : vetter[u].at \in {"idle", "map"}
      BY <2>1 DEF VetIInv, SettledOK
    <3>2. vetter'[v].at = "map"
      BY <1>6
    <3>3. \A u \in Vetters \ {v} : vetter'[u].at \in {"idle", "map"}
      BY <1>7, <3>1
    <3> QED BY <3>2, <3>3
  <2>4. \E run \in Committed \cup {0} :
          /\ Readable(run) /\ map = MapOf(run) /\ weights = WeightsOf(run)
          /\ registry = Qualified(CellsOf(run))
    BY <2>1 DEF VetIInv, SettledOK
  <2> QED BY <2>2, <2>3, <2>4, <1>5, <1>9 DEF SettledOK
<1> QED BY <1>1, <1>11, <1>12, <1>13 DEF VetIInv

(* Writing the map: whoever else was alone would have had to be idle.      *)
LEMMA WriteMapKeeps ==
  ASSUME VetIInv, NEW v \in Vetters, WriteMap(v)
  PROVE  VetIInv'
<1>1. StoredOK' /\ BegunOK'
  BY VetterKeepsTable DEF WriteMap, VetIInv, StoredOK
<1>2. /\ vetter' = [vetter EXCEPT ![v].at = "weights"] /\ vetter[v].at = "map"
      /\ UNCHANGED <<stored, weights, registry>> /\ settled' = FALSE
      /\ map' = MapOf(vetter[v].run)
  BY DEF WriteMap, MapOf
<1>3. vetter \in [Vetters -> Stage] /\ \A u \in Vetters : VetterIs(u)
  BY DEF VetIInv, VetterOK
<1>4. /\ vetter' \in [Vetters -> Stage] /\ vetter'[v].at = "weights"
      /\ vetter'[v].run = vetter[v].run /\ vetter'[v].alone = vetter[v].alone
      /\ \A u \in Vetters \ {v} : vetter'[u] = vetter[u]
  BY <1>2, <1>3 DEF Stage
<1>5. \A run : /\ Readable(run)' = Readable(run) /\ MapOf(run)' = MapOf(run)
              /\ WeightsOf(run)' = WeightsOf(run) /\ CellsOf(run)' = CellsOf(run)
  BY <1>2, SameTable
<1>6. ASSUME NEW u \in Vetters PROVE VetterIs(u)'
  <2>1. CASE u = v
    <3>1. Readable(vetter[v].run)' /\ map' = MapOf(vetter[v].run)'
      BY <1>2, <1>3, <1>4, <1>5 DEF VetterIs
    <3>2. Alone(v)' => \A t \in Vetters \ {v} : vetter'[t].at = "idle"
      BY <1>2, <1>3, <1>4 DEF VetterIs, Alone
    <3> QED BY <2>1, <3>1, <3>2, <1>4 DEF VetterIs
  <2>2. CASE u # v
    <3>1. vetter'[u] = vetter[u] /\ VetterIs(u)
      BY <2>2, <1>3, <1>4
    <3>2. ~Alone(u)
      BY <2>2, <3>1, <1>2 DEF VetterIs
    <3>3. ~Alone(u)'
      BY <3>1, <3>2 DEF Alone
    <3>4. vetter'[u].at # "idle" => Readable(vetter[u].run)'
      BY <3>1, <1>5 DEF VetterIs
    <3> QED BY <3>3, <3>4 DEF VetterIs
  <2> QED BY <2>1, <2>2
<1>7. VetterOK'
  BY <1>4, <1>6 DEF VetterOK
<1>8. FilesOK'
  <2>1. Readable(vetter[v].run) /\ map'.run = vetter[v].run
    BY <1>2, <1>3 DEF VetterIs, MapOf
  <2>2. Readable(map.run)' /\ map' = MapOf(map.run)'
    BY <2>1, <1>2, <1>5
  <2> QED BY <2>2, <1>2, <1>5 DEF VetIInv, FilesOK
<1>9. SettledOK'
  BY <1>2 DEF SettledOK
<1> QED BY <1>1, <1>7, <1>8, <1>9 DEF VetIInv

(* Writing the weights.                                                    *)
LEMMA WriteWeightsKeeps ==
  ASSUME VetIInv, NEW v \in Vetters, WriteWeights(v)
  PROVE  VetIInv'
<1>1. StoredOK' /\ BegunOK'
  BY VetterKeepsTable DEF WriteWeights, VetIInv, StoredOK
<1>2. /\ vetter' = [vetter EXCEPT ![v].at = "registry"] /\ vetter[v].at = "weights"
      /\ UNCHANGED <<stored, map, registry, settled>>
      /\ weights' = WeightsOf(vetter[v].run)
  BY DEF WriteWeights, WeightsOf
<1>3. vetter \in [Vetters -> Stage] /\ \A u \in Vetters : VetterIs(u)
  BY DEF VetIInv, VetterOK
<1>4. /\ vetter' \in [Vetters -> Stage] /\ vetter'[v].at = "registry"
      /\ vetter'[v].run = vetter[v].run /\ vetter'[v].alone = vetter[v].alone
      /\ \A u \in Vetters \ {v} : vetter'[u] = vetter[u]
  BY <1>2, <1>3 DEF Stage
<1>5. \A run : /\ Readable(run)' = Readable(run) /\ MapOf(run)' = MapOf(run)
              /\ WeightsOf(run)' = WeightsOf(run) /\ CellsOf(run)' = CellsOf(run)
  BY <1>2, SameTable
<1>6. ASSUME NEW u \in Vetters PROVE VetterIs(u)'
  <2>1. CASE u = v
    <3>1. Readable(vetter[v].run)' /\ weights' = WeightsOf(vetter[v].run)'
      BY <1>2, <1>3, <1>4, <1>5 DEF VetterIs
    <3>2. Alone(v)' => \A t \in Vetters \ {v} : vetter'[t].at = "idle"
      BY <1>2, <1>3, <1>4 DEF VetterIs, Alone
    <3>3. Alone(v)' => map' = MapOf(vetter[v].run)'
      BY <1>2, <1>3, <1>4, <1>5 DEF VetterIs, Alone
    <3> QED BY <2>1, <3>1, <3>2, <3>3, <1>4 DEF VetterIs
  <2>2. CASE u # v
    <3>1. vetter'[u] = vetter[u] /\ VetterIs(u)
      BY <2>2, <1>3, <1>4
    <3>2. ~Alone(u)
      BY <2>2, <3>1, <1>2 DEF VetterIs
    <3>3. ~Alone(u)'
      BY <3>1, <3>2 DEF Alone
    <3>4. vetter'[u].at # "idle" => Readable(vetter[u].run)'
      BY <3>1, <1>5 DEF VetterIs
    <3> QED BY <3>3, <3>4 DEF VetterIs
  <2> QED BY <2>1, <2>2
<1>7. VetterOK'
  BY <1>4, <1>6 DEF VetterOK
<1>8. FilesOK'
  <2>1. Readable(vetter[v].run) /\ weights'.run = vetter[v].run
    BY <1>2, <1>3 DEF VetterIs, WeightsOf
  <2>2. Readable(weights.run)' /\ weights' = WeightsOf(weights.run)'
    BY <2>1, <1>2, <1>5
  <2> QED BY <2>2, <1>2, <1>5 DEF VetIInv, FilesOK
<1>9. SettledOK'
  BY <1>2 DEF VetIInv, SettledOK
<1> QED BY <1>1, <1>7, <1>8, <1>9 DEF VetIInv

(* Becoming idle disturbs nobody.                                          *)
LEMMA EndsIdle ==
  ASSUME VetIInv, NEW v \in Vetters, vetter' = [vetter EXCEPT ![v] = NotVetting],
         UNCHANGED <<stored, map, weights>>
  PROVE  VetterOK' /\ FilesOK' /\ \A u \in Vetters \ {v} : vetter'[u] = vetter[u]
<1>3. vetter \in [Vetters -> Stage] /\ \A u \in Vetters : VetterIs(u)
  BY DEF VetIInv, VetterOK
<1>4. /\ vetter' \in [Vetters -> Stage] /\ vetter'[v].at = "idle"
      /\ \A u \in Vetters \ {v} : vetter'[u] = vetter[u]
  BY <1>3 DEF Stage, NotVetting
<1>5. \A run : /\ Readable(run)' = Readable(run) /\ MapOf(run)' = MapOf(run)
              /\ WeightsOf(run)' = WeightsOf(run) /\ CellsOf(run)' = CellsOf(run)
  BY SameTable
<1>6. ASSUME NEW u \in Vetters PROVE VetterIs(u)'
  <2>1. CASE u = v
    BY <2>1, <1>4 DEF VetterIs, Alone
  <2>2. CASE u # v
    <3>1. vetter'[u] = vetter[u] /\ VetterIs(u)
      BY <2>2, <1>3, <1>4
    <3>2. Alone(u)' => \A t \in Vetters \ {u} : vetter'[t].at = "idle"
      BY <3>1, <1>4 DEF VetterIs, Alone
    <3>3. /\ vetter'[u].at # "idle" => Readable(vetter[u].run)'
          /\ Alone(u)' /\ vetter'[u].at \in {"weights", "registry"}
               => map' = MapOf(vetter[u].run)'
          /\ Alone(u)' /\ vetter'[u].at = "registry" => weights' = WeightsOf(vetter[u].run)'
      BY <3>1, <1>5 DEF VetterIs, Alone
    <3> QED BY <3>2, <3>3 DEF VetterIs
  <2> QED BY <2>1, <2>2
<1>7. VetterOK'
  BY <1>4, <1>6 DEF VetterOK
<1>8. FilesOK'
  BY <1>5 DEF VetIInv, FilesOK
<1> QED BY <1>4, <1>7, <1>8

(* The registry: who was alone all along leaves one run in all three.      *)
LEMMA UpdateRegistryKeeps ==
  ASSUME VetIInv, NEW v \in Vetters, UpdateRegistry(v)
  PROVE  VetIInv'
<1>1. StoredOK' /\ BegunOK'
  BY VetterKeepsTable DEF UpdateRegistry, VetIInv, StoredOK
<1>2. VetterOK' /\ FilesOK' /\ \A u \in Vetters \ {v} : vetter'[u] = vetter[u]
  BY EndsIdle DEF UpdateRegistry
<1>3. SettledOK'
  <2>1. SUFFICES ASSUME settled' PROVE SettledOK'
    BY DEF SettledOK
  <2>2. VetterIs(v) /\ vetter[v].at = "registry" /\ Alone(v)
    BY <2>1 DEF UpdateRegistry, VetIInv, VetterOK, Alone
  <2> DEFINE run == vetter[v].run
  <2>3. /\ Readable(run) /\ map = MapOf(run) /\ weights = WeightsOf(run)
        /\ \A u \in Vetters \ {v} : vetter[u].at = "idle"
    BY <2>2 DEF VetterIs
  <2>4. registry' = Qualified(CellsOf(run)) /\ UNCHANGED <<stored, map, weights>>
    BY DEF UpdateRegistry
  <2> HIDE DEF run
  <2>5. PICK r : r = run
    OBVIOUS
  <2>6. /\ Readable(r)' /\ map' = MapOf(r)' /\ weights' = WeightsOf(r)'
        /\ registry' = Qualified(CellsOf(r)')
    BY <2>3, <2>4, <2>5, SameTable
  <2>7. r \in Committed' \cup {0}
    BY <2>6 DEF Readable
  <2>8. \A u \in Vetters : vetter'[u].at \in {"idle", "map"}
    <3>1. vetter'[v].at = "idle"
      BY DEF UpdateRegistry, NotVetting, VetIInv, VetterOK
    <3> QED BY <3>1, <2>3, <1>2
  <2> QED BY <2>6, <2>7, <2>8 DEF SettledOK
<1> QED BY <1>1, <1>2, <1>3 DEF VetIInv

(* A kill: nothing written changes.                                        *)
LEMMA EndEarlyKeeps ==
  ASSUME VetIInv, NEW v \in Vetters, EndEarly(v)
  PROVE  VetIInv'
<1>1. StoredOK' /\ BegunOK'
  <2>1. ends' \in 0..MaxEnds
    BY VettingAssumption DEF EndEarly, VetIInv, StoredOK
  <2> QED BY <2>1, VetterKeepsTable DEF EndEarly, VetIInv
<1>2. VetterOK' /\ FilesOK' /\ \A u \in Vetters \ {v} : vetter'[u] = vetter[u]
  BY EndsIdle DEF EndEarly
<1>3. SettledOK'
  <2>1. vetter'[v].at = "idle"
    BY DEF EndEarly, NotVetting, VetIInv, VetterOK
  <2>2. settled => \A u \in Vetters : vetter'[u].at \in {"idle", "map"}
    BY <2>1, <1>2 DEF VetIInv, SettledOK
  <2>3. UNCHANGED <<stored, map, weights, registry, settled>>
    BY DEF EndEarly
  <2>4. /\ Committed' = Committed
        /\ \A run : /\ Readable(run)' = Readable(run) /\ CellsOf(run)' = CellsOf(run)
                    /\ MapOf(run)' = MapOf(run) /\ WeightsOf(run)' = WeightsOf(run)
    BY <2>3, SameTable
  <2> QED BY <2>2, <2>3, <2>4 DEF VetIInv, SettledOK
<1> QED BY <1>1, <1>2, <1>3 DEF VetIInv

(* Every step keeps the invariant.                                         *)
LEMMA VetInductive == ASSUME VetIInv, [VetNext]_vetVars PROVE VetIInv'
<1>1. CASE UNCHANGED vetVars
  <2>1. UNCHANGED <<stored, begun, vetter, map, weights, registry, settled, ends>>
    BY <1>1 DEF vetVars
  <2>2. StoredOK' /\ BegunOK'
    BY <2>1, VetterKeepsTable DEF VetIInv, StoredOK
  <2>3. /\ Committed' = Committed
        /\ \A run : /\ Readable(run)' = Readable(run) /\ CellsOf(run)' = CellsOf(run)
                    /\ MapOf(run)' = MapOf(run) /\ WeightsOf(run)' = WeightsOf(run)
    BY <2>1, SameTable
  <2>4. \A v \in Vetters : VetterIs(v)'
    BY <2>1, <2>3 DEF VetIInv, VetterOK, VetterIs, Alone
  <2>5. VetterOK' /\ FilesOK' /\ SettledOK'
    BY <2>1, <2>3, <2>4 DEF VetIInv, VetterOK, FilesOK, SettledOK
  <2> QED BY <2>2, <2>5 DEF VetIInv
<1>2. CASE VetNext
  BY <1>2, AttributionKeeps, BuildKeeps, WriteMapKeeps, WriteWeightsKeeps, UpdateRegistryKeeps,
     EndEarlyKeeps DEF VetNext
<1> QED BY <1>1, <1>2

(* A stored run is never one that is refused, an open transaction has a   *)
(* run of the table, and a vetter is at one of its steps (vet.run,         *)
(* attribute.run).                                                         *)
THEOREM VetTypeCorrect == VetSpec => []VetTypeOK
<1>1. VetIInv => VetTypeOK
  <2>1. SUFFICES ASSUME VetIInv PROVE VetTypeOK
    OBVIOUS
  <2>2. \A r \in DOMAIN stored : stored[r] = Missing \/ ~Refuses(stored[r])
    BY <2>1, RowsNotRefused DEF VetIInv, StoredOK
  <2>3. \A a \in Attributors : begun[a] = Missing \/ begun[a] \in 1..MaxRuns
    BY <2>1, VettingAssumption DEF VetIInv, StoredOK, BegunOK
  <2>4. \A v \in Vetters : vetter[v].at \in {"idle", "map", "weights", "registry"}
    BY <2>1 DEF VetIInv, VetterOK, Stage
  <2> QED BY <2>1, <2>2, <2>3, <2>4 DEF VetTypeOK, VetIInv, StoredOK
<1> QED BY <1>1, VetInitial, VetInductive, PTL DEF VetSpec

(* It says what is promised of the files.                                  *)
LEMMA VetSound == ASSUME VetIInv PROVE AllocationSound
<1>1. ASSUME map # Missing, NEW r \in DOMAIN map.regimes
      PROVE  /\ r \in Regimes
             /\ \A i \in DOMAIN map.regimes[r] :
                  /\ map.regimes[r][i].trades >= NMin /\ EvaluateGates(map.regimes[r][i])
                  /\ i > 1 => CompositeScore(map.regimes[r][i])
                                <= CompositeScore(map.regimes[r][i - 1])
  <2>1. Readable(map.run) /\ map = MapOf(map.run)
    BY <1>1 DEF VetIInv, FilesOK
  <2> DEFINE table == CellsOf(map.run)
  <2>2. table \in TableRows \cup {{}} /\ Builds(table)
    BY <2>1, CellsKnown DEF VetIInv
  <2>3. map.regimes = Ranked(table)
    BY <2>1 DEF MapOf
  <2> HIDE DEF table
  <2> QED BY <1>1, <2>2, <2>3, BuiltGated
<1>2. ASSUME map # Missing, weights # Missing, map.run = weights.run
      PROVE  /\ DOMAIN map.regimes = DOMAIN weights.regimes
             /\ \A r \in DOMAIN map.regimes : FairlyShared(map.regimes[r], weights.regimes[r])
  <2>1. Readable(map.run) /\ map = MapOf(map.run) /\ weights = WeightsOf(map.run)
    BY <1>2 DEF VetIInv, FilesOK
  <2> DEFINE table == CellsOf(map.run)
  <2>2. table \in TableRows \cup {{}} /\ Builds(table)
    BY <2>1, CellsKnown DEF VetIInv
  <2>3. map.regimes = Ranked(table) /\ weights.regimes = Shares(table)
    BY <2>1 DEF MapOf, WeightsOf
  <2> HIDE DEF table
  <2>4. DOMAIN Shares(table) = DOMAIN Ranked(table)
    BY DEF Shares
  <2> QED BY <2>2, <2>3, <2>4, BuiltFair
<1>3. ASSUME settled
      PROVE  /\ map.run = weights.run
             /\ registry = {c.strategy : c \in UNION {Range(map.regimes[r]) :
                                                      r \in DOMAIN map.regimes}}
  <2>1. PICK run \in Committed \cup {0} :
          /\ Readable(run) /\ map = MapOf(run) /\ weights = WeightsOf(run)
          /\ registry = Qualified(CellsOf(run))
    BY <1>3 DEF VetIInv, SettledOK
  <2>2. CellsOf(run) \in TableRows \cup {{}}
    BY <2>1, CellsKnown DEF VetIInv
  <2>3. map.run = run /\ weights.run = run /\ map.regimes = Ranked(CellsOf(run))
    BY <2>1 DEF MapOf, WeightsOf
  <2> QED BY <2>1, <2>2, <2>3, BuiltQualified
<1> QED BY <1>1, <1>2, <1>3 DEF AllocationSound

(* Whatever the tables, and however attributions, vettings and kills       *)
(* interleave: the map has only what passed all gates, by rank, the shares *)
(* of the same run are fair, and a vetting that met no other one leaves    *)
(* map, weights and registry of one run (vet.py).                          *)
THEOREM AllocationIsSound == VetSpec => []AllocationSound
BY VetInitial, VetInductive, VetSound, PTL DEF VetSpec
===============================================================================
