----------------------------- MODULE RetrainProofs -----------------------------
(***************************************************************************)
(* Theorems about Retrain, for every set of runs, operators and candidates *)
(* and every bound.                                                        *)
(*                                                                         *)
(* 1. TypeCorrect, MutualExclusion and LockReleased hold of the whole      *)
(*    specification.                                                       *)
(* 2. LiveBundleSafe, LiveBundleEarned, PointerForward, StateFileBehind,   *)
(*    RefinesCatalog and TrimBounds hold when publish() is only reached    *)
(*    through the orchestrator (Operators = {}).                           *)
(* 3. RecentLiveKept and GatedBundleKept hold beside people who publish by *)
(*    hand, each publish in a second of its own.                           *)
(***************************************************************************)
EXTENDS Retrain, FiniteSetTheorems, WellFoundedInduction, TLAPS

(***************************************************************************)
(* Types and mutual exclusion                                              *)
(***************************************************************************)

(* What a process may be doing: operators only ever publish.               *)
OperatorSteps == {"idle"} \cup PublishSteps \cup PublishEnds

(* Once the pipeline has produced a candidate it is at hand until publish. *)
CandidateSteps == {"map", "weights", "gates"} \cup PublishSteps

LockOwned == \A p \in Runs : HoldsLock(p) => lock = p

OperatorsOnlyPublish == \A p \in Operators : pc[p] \in OperatorSteps

CandidateKnown ==
  \A p \in Runs : pc[p] \in CandidateSteps => run[p].candidate \in Candidates

TypeInv == TypeOK /\ LockOwned /\ OperatorsOnlyPublish /\ CandidateKnown

(***************************************************************************)
(* Facts about the initial local variables and the steps of publish()      *)
(***************************************************************************)

(* The initial local variables are well typed.                             *)
LEMMA InitialLocals ==
  /\ NoSums \in Checksum
  /\ NoPublish \in PublishLocals
  /\ NoState \in RetrainState
  /\ NoRun \in RunLocals
BY DEF NoSums, NoPublish, NoState, NoRun, Checksum, PublishLocals, RetrainState,
       RunLocals

(* What publish() does to control: it stays inside publish() or ends.      *)
LEMMA PublishMoves ==
  ASSUME pc \in [Procs -> Steps], NEW p \in Procs, PublishStep(p) \/ PublishFault(p)
  PROVE  /\ pc[p] \in PublishSteps
         /\ pc' \in [Procs -> Steps]
         /\ pc'[p] \in PublishSteps \cup PublishEnds
         /\ \A q \in Procs \ {p} : pc'[q] = pc[q]
         /\ UNCHANGED <<clock, work>>
<1> USE DEF Goto, PublishSteps, PublishEnds, Steps, LockedSteps
<1>1. CASE Guard(p) \/ Hash(p) \/ Rehash(p) \/ RefuseSecret(p)
  BY <1>1 DEF Guard, Hash, Rehash, RefuseSecret
<1>2. CASE Put(p) \/ Verify(p) \/ UploadError(p) \/ Cleanup(p)
  BY <1>2 DEF Put, Verify, UploadError, Cleanup
<1>3. CASE Flip(p) \/ ListVersions(p) \/ TrimVersion(p) \/ LateError(p)
  BY <1>3 DEF Flip, ListVersions, TrimVersion, LateError
<1> QED BY <1>1, <1>2, <1>3 DEF PublishStep, PublishFault

(* The accuracy _incumbent() finds is a number or missing.                 *)
LEMMA LiveAccuracyType ==
  ASSUME RegistryTypeOK(Steps)
  PROVE  LiveAccuracy \in Nat \cup {None}
<1> DEFINE metas == {o \in objects : o.version = latest.version /\ o.file = Metadata}
<1> CASE latest # None /\ metas # {}
  <2>1. PICK o \in objects : o.file = Metadata /\ o = CHOOSE m \in metas : TRUE
    OBVIOUS
  <2>2. o.blob \in MetadataBlob
    BY <2>1 DEF RegistryTypeOK, Object, Metadata, Sources, Hmm, Weights, Map
  <2> QED BY <2>1, <2>2 DEF LiveAccuracy, MetadataBlob
<1> QED BY DEF LiveAccuracy

(***************************************************************************)
(* The type invariant                                                      *)
(***************************************************************************)

(* Initially everything is well typed and nobody is inside the lock.       *)
LEMMA InitTypeInv == Init => TypeInv
BY InitialLocals, ProcsAssumption
   DEF Init, RegistryInit, TypeInv, TypeOK, RegistryTypeOK, Checksum, LockOwned,
       HoldsLock, OperatorsOnlyPublish, OperatorSteps, CandidateKnown,
       CandidateSteps, LockedSteps, PipelineSteps, PublishSteps, PublishEnds, Steps

(* A publish has local variables of its own.                               *)
LEMMA PublishOwnLocals ==
  ASSUME NEW p \in Procs, PublishStep(p) \/ PublishFault(p)
  PROVE  pub' = pub \/ \E l : pub' = [pub EXCEPT ![p] = l]
<1>1. CASE Guard(p) \/ Hash(p) \/ Rehash(p)
  BY <1>1 DEF Guard, Hash, Rehash
<1>2. CASE Put(p) \/ Verify(p) \/ Cleanup(p)
  BY <1>2 DEF Put, Verify, Cleanup
<1>3. CASE Flip(p) \/ ListVersions(p) \/ TrimVersion(p) \/ PublishFault(p)
  BY <1>3 DEF Flip, ListVersions, TrimVersion, PublishFault, RefuseSecret, UploadError,
              LateError
<1> QED BY <1>1, <1>2, <1>3 DEF PublishStep

(* The registry's variables keep their types under every step of publish().*)
LEMMA PublishLocalsTyped ==
  ASSUME RegistryTypeOK(Steps), NEW p \in Procs, PublishStep(p) \/ PublishFault(p)
  PROVE  pub' \in [Procs -> PublishLocals]
<1> USE DEF RegistryTypeOK
<1>1. pub[p] \in PublishLocals
  OBVIOUS
<1>2. CASE Guard(p)
  BY <1>1, <1>2 DEF Guard, PublishLocals, Hmm
<1>3. CASE Hash(p) \/ Rehash(p)
  <2>1. CASE pub[p].file \in Sources
    <3>1. pub[p].file + 1 \in 1..5
      BY <2>1 DEF Sources, Hmm, Weights, Map
    <3>2. work[pub[p].file] \in Content \cup {None}
      BY <2>1
    <3>3. /\ [pub[p].sums EXCEPT ![pub[p].file] = work[pub[p].file]] \in Checksum
          /\ [pub[p].sha EXCEPT ![pub[p].file] = work[pub[p].file]] \in Checksum
      BY <1>1, <2>1, <3>2 DEF Checksum, PublishLocals
    <3>4. CASE Hash(p)
      BY <1>1, <2>1, <3>1, <3>3, <3>4 DEF Hash, PublishLocals
    <3>5. CASE Rehash(p)
      BY <1>1, <2>1, <3>1, <3>3, <3>5 DEF Rehash, PublishLocals
    <3> QED BY <1>3, <3>4, <3>5
  <2>2. CASE pub[p].file \notin Sources
    BY <1>1, <1>3, <2>2 DEF Hash, Rehash, PublishLocals, Hmm
  <2> QED BY <2>1, <2>2
<1>4. CASE Put(p) \/ Verify(p)
  BY <1>1, <1>4 DEF Put, Verify, PublishLocals, Files, Sources, Hmm, Weights, Map, Metadata
<1>5. CASE ListVersions(p)
  <2>1. StaleVersions \subseteq Nat
    BY DEF StaleVersions, Versions, Object
  <2> QED BY <1>1, <1>5, <2>1 DEF ListVersions, PublishLocals
<1>6. CASE TrimVersion(p)
  BY <1>1, <1>6 DEF TrimVersion, PublishLocals
<1>7. CASE Cleanup(p) \/ Flip(p) \/ PublishFault(p)
  BY <1>7 DEF Cleanup, Flip, PublishFault, RefuseSecret, UploadError, LateError
<1> QED BY <1>2, <1>3, <1>4, <1>5, <1>6, <1>7 DEF PublishStep

(* The stored objects keep their types under every step of publish().      *)
LEMMA ObjectsTyped ==
  ASSUME RegistryTypeOK(Steps), NEW p \in Procs, PublishStep(p) \/ PublishFault(p)
  PROVE  objects' \subseteq Object
<1> USE DEF RegistryTypeOK
<1>1. CASE Put(p)
  <2> DEFINE v == pub[p].version
             f == pub[p].file
  <2>1. CASE objects' = objects \cup {[version |-> v, file |-> f, blob |-> LocalBlob(p, f)]}
              /\ f \in Files
    <3>1. StagedMetadata(p) \in MetadataBlob
      BY DEF StagedMetadata, MetadataBlob, PublishLocals
    <3>2. [version |-> v, file |-> f, blob |-> LocalBlob(p, f)] \in Object
      BY <2>1, <3>1 DEF Object, LocalBlob, Files, PublishLocals
    <3> QED BY <2>1, <3>2
  <2> QED BY <1>1, <2>1 DEF Put, PutObject
<1>2. CASE Cleanup(p) \/ TrimVersion(p)
  BY <1>2 DEF Cleanup, TrimVersion, DeletePrefix
<1>3. CASE Guard(p) \/ Hash(p) \/ Rehash(p) \/ Verify(p) \/ Flip(p) \/ ListVersions(p)
  BY <1>3 DEF Guard, Hash, Rehash, Verify, Flip, ListVersions
<1>4. CASE PublishFault(p)
  BY <1>4 DEF PublishFault, RefuseSecret, UploadError, LateError
<1> QED BY <1>1, <1>2, <1>3, <1>4 DEF PublishStep

(* Only the flip moves the pointer.                                        *)
LEMMA PointerMoves ==
  ASSUME RegistryTypeOK(Steps), NEW p \in Procs, PublishStep(p) \/ PublishFault(p)
  PROVE  /\ latest' \in Pointer \cup {None}
         /\ latest' = latest \/ Flip(p)
<1>1. CASE Flip(p)
  BY <1>1 DEF RegistryTypeOK, Flip, Pointer, StagedMetadata, MetadataBlob, PublishLocals
<1>2. CASE Guard(p) \/ Hash(p) \/ Rehash(p) \/ Put(p) \/ Verify(p) \/ Cleanup(p)
  BY <1>2 DEF RegistryTypeOK, Guard, Hash, Rehash, Put, Verify, Cleanup
<1>3. CASE ListVersions(p) \/ TrimVersion(p) \/ PublishFault(p)
  BY <1>3 DEF RegistryTypeOK, ListVersions, TrimVersion, PublishFault, RefuseSecret,
              UploadError, LateError
<1> QED BY <1>1, <1>2, <1>3 DEF PublishStep

(* So does everything of the registry.                                     *)
LEMMA PublishTypes ==
  ASSUME RegistryTypeOK(Steps), NEW p \in Procs, PublishStep(p) \/ PublishFault(p)
  PROVE  RegistryTypeOK(Steps)'
BY PublishMoves, PublishLocalsTyped, ObjectsTyped, PointerMoves DEF RegistryTypeOK

(* Vetting and the gates work on a candidate.                              *)
LEMMA CandidateAtHand ==
  ASSUME TypeInv, NEW p \in Procs, pc[p] \in {"map", "weights", "gates"}
  PROVE  p \in Runs /\ run[p].candidate \in Candidates
BY ProcsAssumption DEF TypeInv, OperatorsOnlyPublish, OperatorSteps, PublishSteps,
   PublishEnds, CandidateKnown, CandidateSteps

(* The scheduler's local variables keep their types.                       *)
LEMMA RunLocalsTyped ==
  ASSUME TypeInv, NEW p \in Procs, RetrainStep(p) \/ PipelineError(p)
  PROVE  run' \in [Procs -> RunLocals]
<1> USE DEF TypeInv, TypeOK
<1>1. /\ run[p] \in RunLocals
      /\ clock \in Nat
  BY DEF RegistryTypeOK
<1>2. CASE Evaluate(p)
  <2>1. PICK forced \in BOOLEAN :
          run' = [run EXCEPT ![p] =
                    [NoRun EXCEPT !.forced = forced, !.now = clock, !.state = saved]]
    BY <1>2 DEF Evaluate
  <2>2. [NoRun EXCEPT !.forced = forced, !.now = clock, !.state = saved] \in RunLocals
    BY <1>1, InitialLocals DEF RunLocals
  <2> QED BY <2>1, <2>2
<1>3. CASE AcquireLock(p)
  BY <1>1, <1>3 DEF AcquireLock, RunLocals
<1>4. CASE StampLock(p) \/ ReadIncumbent(p)
  BY <1>1, <1>4, LiveAccuracyType DEF StampLock, ReadIncumbent, RunLocals
<1>5. CASE TrainRegime(p)
  BY <1>1, <1>5 DEF TrainRegime, RunLocals
<1>6. CASE ApplyGates(p) \/ PublishReturns(p) \/ PipelineError(p)
  BY <1>1, <1>6 DEF ApplyGates, PublishReturns, PipelineError, RunLocals
<1>7. CASE AbortRun(p) \/ ReleaseLock(p) \/ SaveState(p)
  BY <1>1, <1>7, InitialLocals DEF AbortRun, ReleaseLock, SaveState
<1>8. CASE VetMap(p) \/ VetWeights(p)
  BY <1>8 DEF VetMap, VetWeights
<1> QED BY <1>2, <1>3, <1>4, <1>5, <1>6, <1>7, <1>8 DEF RetrainStep

(* Control stays within the steps of run().                                *)
LEMMA RetrainMoves ==
  ASSUME pc \in [Procs -> Steps], NEW p \in Procs, RetrainStep(p) \/ PipelineError(p)
  PROVE  /\ pc' \in [Procs -> Steps]
         /\ \A q \in Procs \ {p} : pc'[q] = pc[q]
<1> USE DEF Goto, Steps, LockedSteps, PipelineSteps, PublishSteps, PublishEnds
<1>1. CASE Evaluate(p) \/ AcquireLock(p) \/ AbortRun(p) \/ StampLock(p) \/ ReadIncumbent(p)
  BY <1>1 DEF Evaluate, AcquireLock, AbortRun, StampLock, ReadIncumbent
<1>2. CASE TrainRegime(p) \/ VetMap(p) \/ VetWeights(p) \/ PipelineError(p)
  BY <1>2 DEF TrainRegime, VetMap, VetWeights, PipelineError
<1>3. CASE ApplyGates(p) \/ PublishReturns(p) \/ ReleaseLock(p) \/ SaveState(p)
  BY <1>3 DEF ApplyGates, PublishReturns, ReleaseLock, SaveState
<1> QED BY <1>1, <1>2, <1>3 DEF RetrainStep

(* Outside publish() the scheduler writes the artifacts, and the locals of *)
(* the publish it starts or has finished; never an object or the pointer.  *)
LEMMA RetrainTypes ==
  ASSUME TypeInv, NEW p \in Procs, RetrainStep(p) \/ PipelineError(p)
  PROVE  /\ TypeOK'
         /\ UNCHANGED <<objects, latest>>
<1>1. /\ run' \in [Procs -> RunLocals]
      /\ pc' \in [Procs -> Steps]
  BY RunLocalsTyped, RetrainMoves DEF TypeInv, TypeOK, RegistryTypeOK
<1>2. /\ clock' \in Nat
      /\ UNCHANGED <<objects, latest>>
      /\ lock' \in Procs \cup {None, Orphan}
  <2> USE DEF TypeInv, TypeOK, RegistryTypeOK
  <2>1. CASE Evaluate(p) \/ AcquireLock(p) \/ AbortRun(p) \/ StampLock(p) \/ ReadIncumbent(p)
    BY <2>1 DEF Evaluate, AcquireLock, AbortRun, StampLock, ReadIncumbent
  <2>2. CASE TrainRegime(p) \/ VetMap(p) \/ VetWeights(p) \/ PipelineError(p)
    BY <2>2 DEF TrainRegime, VetMap, VetWeights, PipelineError
  <2>3. CASE ApplyGates(p) \/ PublishReturns(p) \/ ReleaseLock(p) \/ SaveState(p)
    BY <2>3 DEF ApplyGates, PublishReturns, ReleaseLock, SaveState
  <2> QED BY <2>1, <2>2, <2>3 DEF RetrainStep
<1>3. work' \in [Sources -> Content \cup {None}]
  <2> USE DEF TypeInv, TypeOK, RegistryTypeOK
  <2>1. CASE TrainRegime(p)
    BY <2>1 DEF TrainRegime, Content
  <2>2. CASE VetMap(p) \/ VetWeights(p)
    <3>1. run[p].candidate \in Candidates
      BY <2>2, CandidateAtHand DEF VetMap, VetWeights
    <3> QED BY <2>2, <3>1 DEF VetMap, VetWeights, Content
  <2>3. CASE PipelineError(p)
    BY <2>3 DEF PipelineError, WorkLeftBy, Content
  <2>4. CASE Evaluate(p) \/ AcquireLock(p) \/ AbortRun(p) \/ StampLock(p) \/ ReadIncumbent(p)
    BY <2>4 DEF Evaluate, AcquireLock, AbortRun, StampLock, ReadIncumbent
  <2>5. CASE ApplyGates(p) \/ PublishReturns(p) \/ ReleaseLock(p) \/ SaveState(p)
    BY <2>5 DEF ApplyGates, PublishReturns, ReleaseLock, SaveState
  <2> QED BY <2>1, <2>2, <2>3, <2>4, <2>5 DEF RetrainStep
<1>4. pub' \in [Procs -> PublishLocals]
  <2> USE DEF TypeInv, TypeOK, RegistryTypeOK
  <2>1. CASE ApplyGates(p)
    <3>1. run[p].candidate \in Candidates
      BY <2>1, CandidateAtHand DEF ApplyGates
    <3>2. [NoPublish EXCEPT !.accuracy = run[p].candidate.accuracy] \in PublishLocals
      BY <3>1, InitialLocals, CandidatesType DEF PublishLocals, CandidateRecord
    <3> QED BY <2>1, <3>2 DEF ApplyGates
  <2>2. CASE ReleaseLock(p) \/ SaveState(p)
    BY <2>2, InitialLocals DEF ReleaseLock, SaveState
  <2>3. CASE Evaluate(p) \/ AcquireLock(p) \/ AbortRun(p) \/ StampLock(p) \/ ReadIncumbent(p)
             \/ PipelineError(p)
    BY <2>3 DEF Evaluate, AcquireLock, AbortRun, StampLock, ReadIncumbent, PipelineError
  <2>4. CASE TrainRegime(p) \/ VetMap(p) \/ VetWeights(p) \/ PublishReturns(p)
    BY <2>4 DEF TrainRegime, VetMap, VetWeights, PublishReturns
  <2> QED BY <2>1, <2>2, <2>3, <2>4 DEF RetrainStep
<1>5. saved' \in RetrainState
  <2> USE DEF TypeInv, TypeOK, RegistryTypeOK
  <2>1. CASE SaveState(p)
    BY <2>1 DEF SaveState, RetrainState, RunLocals, PublishLocals
  <2>2. CASE Evaluate(p) \/ AcquireLock(p) \/ AbortRun(p) \/ StampLock(p) \/ ReadIncumbent(p)
             \/ PipelineError(p)
    BY <2>2 DEF Evaluate, AcquireLock, AbortRun, StampLock, ReadIncumbent, PipelineError
  <2>3. CASE TrainRegime(p) \/ VetMap(p) \/ VetWeights(p)
    BY <2>3 DEF TrainRegime, VetMap, VetWeights
  <2>4. CASE ApplyGates(p) \/ PublishReturns(p) \/ ReleaseLock(p)
    BY <2>4 DEF ApplyGates, PublishReturns, ReleaseLock
  <2> QED BY <2>1, <2>2, <2>3, <2>4 DEF RetrainStep
<1> QED BY <1>1, <1>2, <1>3, <1>4, <1>5 DEF TypeInv, TypeOK, RegistryTypeOK

(* A process that is not a run never gets at the lock's steps; a run gets  *)
(* to them only by taking a free lock, and leaves them by releasing it.    *)
LEMMA RetrainControl ==
  ASSUME TypeInv, NEW p \in Procs, RetrainStep(p) \/ PipelineError(p)
  PROVE  LockOwned' /\ OperatorsOnlyPublish' /\ CandidateKnown'
<1> USE DEF OperatorSteps, CandidateSteps, LockedSteps, PipelineSteps, PublishSteps,
            PublishEnds, HoldsLock
<1>1. /\ p \in Runs
      /\ p \notin Operators
      /\ pc \in [Procs -> Steps]
      /\ run \in [Procs -> RunLocals]
      /\ \A q \in Runs : q \in Procs
  <2>1. p \in Runs
    BY ProcsAssumption DEF TypeInv, OperatorsOnlyPublish, RetrainStep, Evaluate,
       AcquireLock, AbortRun, StampLock, ReadIncumbent, TrainRegime, VetMap, VetWeights,
       PipelineError,
       ApplyGates, PublishReturns, ReleaseLock, SaveState
  <2> QED BY <2>1, ProcsAssumption DEF TypeInv, TypeOK, RegistryTypeOK
<1>2. OperatorsOnlyPublish'
  BY <1>1, RetrainMoves, ProcsAssumption DEF TypeInv, OperatorsOnlyPublish
<1> USE DEF Goto
<1>3. LockOwned'
  <2> USE DEF TypeInv, LockOwned
  <2>1. CASE AcquireLock(p)
    BY <1>1, <2>1, FreeAssumption DEF AcquireLock
  <2>2. CASE ReleaseLock(p)
    BY <1>1, <2>2 DEF ReleaseLock
  <2>3. CASE Evaluate(p) \/ AbortRun(p) \/ SaveState(p)
    BY <1>1, <2>3 DEF Evaluate, AbortRun, SaveState
  <2>4. CASE StampLock(p) \/ ReadIncumbent(p) \/ PipelineError(p) \/ ApplyGates(p)
             \/ PublishReturns(p)
    BY <1>1, <2>4 DEF StampLock, ReadIncumbent, PipelineError, ApplyGates, PublishReturns
  <2>5. CASE TrainRegime(p) \/ VetMap(p) \/ VetWeights(p)
    BY <1>1, <2>5 DEF TrainRegime, VetMap, VetWeights
  <2> QED BY <2>1, <2>2, <2>3, <2>4, <2>5 DEF RetrainStep
<1>4. CandidateKnown'
  <2> USE DEF TypeInv, CandidateKnown
  <2>1. CASE Evaluate(p) \/ AcquireLock(p) \/ AbortRun(p) \/ SaveState(p) \/ ReleaseLock(p)
    BY <1>1, <2>1 DEF Evaluate, AcquireLock, AbortRun, SaveState, ReleaseLock
  <2>2. CASE StampLock(p) \/ ReadIncumbent(p) \/ PipelineError(p) \/ PublishReturns(p)
    BY <1>1, <2>2 DEF StampLock, ReadIncumbent, PipelineError, PublishReturns
  <2>3. CASE TrainRegime(p)
    BY <1>1, <2>3 DEF TrainRegime, RunLocals
  <2>4. CASE VetMap(p) \/ VetWeights(p) \/ ApplyGates(p)
    BY <1>1, <2>4 DEF VetMap, VetWeights, ApplyGates
  <2> QED BY <2>1, <2>2, <2>3, <2>4 DEF RetrainStep
<1> QED BY <1>2, <1>3, <1>4

(* Inside publish() a run keeps the lock and its candidate.                *)
LEMMA PublishControl ==
  ASSUME TypeInv, NEW p \in Procs, PublishStep(p) \/ PublishFault(p),
         UNCHANGED <<lock, saved, run>>
  PROVE  LockOwned' /\ OperatorsOnlyPublish' /\ CandidateKnown'
<1>1. /\ pc \in [Procs -> Steps]
      /\ pc[p] \in PublishSteps
      /\ pc'[p] \in PublishSteps \cup PublishEnds
      /\ \A q \in Procs \ {p} : pc'[q] = pc[q]
  BY PublishMoves DEF TypeInv, TypeOK, RegistryTypeOK
<1>2. \A q \in Runs \cup Operators : q \in Procs
  BY ProcsAssumption
<1>3. LockOwned'
  BY <1>1, <1>2 DEF TypeInv, LockOwned, HoldsLock, LockedSteps
<1>4. OperatorsOnlyPublish'
  BY <1>1, <1>2 DEF TypeInv, OperatorsOnlyPublish, OperatorSteps
<1>5. CandidateKnown'
  BY <1>1, <1>2 DEF TypeInv, CandidateKnown, CandidateSteps, PublishSteps, PublishEnds
<1> QED BY <1>3, <1>4, <1>5

(* Starting and ending a manual publish, a kill, a clock tick and clearing *)
(* a stale lock.                                                           *)
LEMMA EnvironmentInv ==
  ASSUME TypeInv,
         \/ \E p \in Procs : ManualPublish(p) \/ ManualReturns(p) \/ StopHere(p)
         \/ Tick
         \/ ClearStaleLock
  PROVE  TypeInv'
<1> USE DEF TypeInv, TypeOK, RegistryTypeOK
<1> USE DEF LockOwned, OperatorsOnlyPublish, CandidateKnown, HoldsLock
<1>1. CASE Tick
  BY <1>1 DEF Tick
<1>2. CASE ClearStaleLock
  BY <1>2 DEF ClearStaleLock
<1>3. ASSUME NEW p \in Procs, ManualPublish(p) \/ ManualReturns(p)
      PROVE  TypeInv'
  BY <1>3, InitialLocals, ProcsAssumption
     DEF ManualPublish, ManualReturns, Goto, OperatorSteps, CandidateSteps, LockedSteps,
         PipelineSteps, PublishSteps, PublishEnds, Steps
<1>4. ASSUME NEW p \in Procs, StopHere(p)
      PROVE  TypeInv'
  <2>1. work' \in [Sources -> Content \cup {None}]
    BY <1>4 DEF StopHere, WorkLeftBy, Content
  <2>2. /\ run' \in [Procs -> RunLocals]
        /\ pub' \in [Procs -> PublishLocals]
    BY <1>4, InitialLocals DEF StopHere
  <2>3. pc' = [pc EXCEPT ![p] = "idle"] /\ pc' \in [Procs -> Steps]
    BY <1>4 DEF StopHere, Goto, Steps
  <2>4. LockOwned' /\ OperatorsOnlyPublish'
    BY <1>4, <2>3, ProcsAssumption
       DEF StopHere, OperatorSteps, LockedSteps, PipelineSteps, PublishSteps, PublishEnds
  <2>5. CandidateKnown'
    BY <1>4, <2>3, ProcsAssumption DEF StopHere, CandidateSteps, PublishSteps
  <2> QED BY <1>4, <2>1, <2>2, <2>3, <2>4, <2>5 DEF StopHere
<1> QED BY <1>1, <1>2, <1>3, <1>4

(* Every step of the system preserves the type invariant.                  *)
LEMMA NextTypeInv == TypeInv /\ [Next]_vars => TypeInv'
<1> SUFFICES ASSUME TypeInv, [Next]_vars
             PROVE  TypeInv'
  OBVIOUS
<1>1. ASSUME NEW p \in Procs, RetrainStep(p) \/ PipelineError(p)
      PROVE  TypeInv'
  BY <1>1, RetrainTypes, RetrainControl DEF TypeInv
<1>2. ASSUME NEW p \in Procs, Publishing(p)
      PROVE  TypeInv'
  <2>1. PublishStep(p) \/ PublishFault(p)
    BY <1>2 DEF Publishing
  <2>2. UNCHANGED <<lock, saved, run>>
    BY <1>2 DEF Publishing
  <2>3. RegistryTypeOK(Steps)'
    BY <2>1, PublishTypes DEF TypeInv, TypeOK
  <2>4. LockOwned' /\ OperatorsOnlyPublish' /\ CandidateKnown'
    BY <2>1, <2>2, PublishControl
  <2> QED BY <2>2, <2>3, <2>4 DEF TypeInv, TypeOK
<1>3. CASE \/ \E p \in Procs : ManualPublish(p) \/ ManualReturns(p) \/ StopHere(p)
           \/ Tick
           \/ ClearStaleLock
  BY <1>3, EnvironmentInv
<1>4. CASE UNCHANGED vars
  BY <1>4 DEF vars, TypeInv, TypeOK, RegistryTypeOK, LockOwned, HoldsLock,
              OperatorsOnlyPublish, CandidateKnown
<1> QED BY <1>1, <1>2, <1>3, <1>4 DEF Next, Crash, FileError

(* Every reachable state of the scheduler and the registry is well typed:  *)
(* no interleaving, kill or exception leaves a local of run() or publish() *)
(* half set where a later step reads it.                                   *)
THEOREM TypeCorrect == Spec => []TypeOK
<1>1. TypeInv => TypeOK
  BY DEF TypeInv
<1> QED BY <1>1, InitTypeInv, NextTypeInv, PTL DEF Spec

(* SingleFlightLock works: at most one orchestrator run is inside, whoever *)
(* is killed while holding the lock file and whenever it is cleared.       *)
THEOREM MutualExclusion == Spec => []SingleFlight
<1>1. TypeInv => SingleFlight
  BY DEF TypeInv, LockOwned, SingleFlight
<1> QED BY <1>1, InitTypeInv, NextTypeInv, PTL DEF Spec

(* The file of a run at work is in the locked section: creating it enters  *)
(* the section, and every way out deletes it, is a kill or a failing call. *)
LEMMA NextLockHeld == TypeInv /\ NoLockLeftBehind /\ [Next]_vars => NoLockLeftBehind'
<1> SUFFICES ASSUME TypeInv, NoLockLeftBehind, [Next]_vars, lock' \in Procs
             PROVE  HoldsLock(lock)'
  BY DEF NoLockLeftBehind
<1>1. /\ pc \in [Procs -> Steps]
      /\ None \notin Procs /\ Orphan \notin Procs
      /\ \A q \in Runs : q \in Procs /\ q \notin Operators
      /\ \A p \in Operators : pc[p] \in OperatorSteps
      /\ lock \in Procs => lock \in Runs /\ HoldsLock(lock)
  BY ProcsAssumption, FreeAssumption
     DEF TypeInv, TypeOK, RegistryTypeOK, OperatorsOnlyPublish, NoLockLeftBehind, HoldsLock
<1> USE DEF HoldsLock, LockedSteps, PipelineSteps, PublishSteps, PublishEnds, OperatorSteps
<1>2. ASSUME NEW p \in Procs, RetrainStep(p) \/ PipelineError(p)
      PROVE  HoldsLock(lock)'
  <2> USE DEF Goto
  <2>1. CASE AcquireLock(p)
    BY <1>1, <2>1, ProcsAssumption DEF AcquireLock
  <2>2. CASE Evaluate(p) \/ AbortRun(p) \/ SaveState(p) \/ ReleaseLock(p)
    BY <1>1, <2>2 DEF Evaluate, AbortRun, SaveState, ReleaseLock
  <2>3. CASE StampLock(p) \/ ReadIncumbent(p) \/ PipelineError(p) \/ ApplyGates(p)
             \/ PublishReturns(p)
    BY <1>1, <2>3 DEF StampLock, ReadIncumbent, PipelineError, ApplyGates, PublishReturns
  <2>4. CASE TrainRegime(p) \/ VetMap(p) \/ VetWeights(p)
    BY <1>1, <2>4 DEF TrainRegime, VetMap, VetWeights
  <2> QED BY <1>2, <2>1, <2>2, <2>3, <2>4 DEF RetrainStep
<1>3. ASSUME NEW p \in Procs, Publishing(p)
      PROVE  HoldsLock(lock)'
  <2>1. /\ UNCHANGED lock
        /\ pc[p] \in PublishSteps
        /\ pc'[p] \in PublishSteps \cup PublishEnds
        /\ \A q \in Procs \ {p} : pc'[q] = pc[q]
    BY <1>1, <1>3, PublishMoves DEF Publishing
  <2> QED BY <1>1, <2>1
<1>4. ASSUME NEW p \in Procs, ManualPublish(p) \/ ManualReturns(p) \/ StopHere(p)
      PROVE  HoldsLock(lock)'
  BY <1>1, <1>4 DEF ManualPublish, ManualReturns, StopHere, Goto
<1>5. CASE Tick \/ ClearStaleLock \/ UNCHANGED vars
  BY <1>1, <1>5 DEF Tick, ClearStaleLock, vars
<1> QED BY <1>2, <1>3, <1>4, <1>5 DEF Next, Crash, FileError

(* However its steps end, by gates, refusal, exception or success, a run   *)
(* that has left the locked section has removed its lock file, unless it   *)
(* was killed there or writing or removing that file itself failed.        *)
THEOREM LockReleased == Spec => []NoLockLeftBehind
<1>1. Init => NoLockLeftBehind
  BY FreeAssumption DEF Init, NoLockLeftBehind
<1> QED BY <1>1, InitTypeInv, NextTypeInv, NextLockHeld, PTL DEF Spec

(***************************************************************************)
(* What a run knows between taking the lock and its flip                   *)
(*                                                                         *)
(* From here on publish() is only reached through the orchestrator.        *)
(***************************************************************************)
Versioned  == {"hash", "rehash", "put", "verify", "cleanup", "flip"}
BeforeFlip == {"stamp", "incumbent", "gates", "guard"} \cup PipelineSteps \cup Versioned

(* Versions are handed out in order: the pointer is no newer than the lock *)
(* and a bundle being uploaded is newer.                                   *)
VersionOrder(p) ==
  /\ pc[p] \in BeforeFlip =>
       /\ run[p].began <= clock
       /\ latest # None => latest.version <= run[p].began
  /\ pc[p] \in {"weights", "gates", "guard"} => run[p].began < clock
  /\ pc[p] \in Versioned => run[p].began < pub[p].version /\ pub[p].version <= clock

(* Nobody else writes the artifacts of the run inside the lock.            *)
ArtifactsOwned(p) ==
  /\ pc[p] \in {"map", "weights"} => work[Hmm] = run[p].candidate
  /\ pc[p] = "weights" => work[Map] = run[p].candidate
  /\ pc[p] \in {"gates", "guard", "hash", "rehash", "put"} =>
       \A f \in Sources : work[f] = run[p].candidate

(* The incumbent the run compared with is still the live one.              *)
IncumbentCurrent(p) ==
  pc[p] \in BeforeFlip \ {"stamp", "incumbent"} =>
    run[p].incumbent = IF latest = None THEN None ELSE latest.metadata.accuracy

(* Only a candidate that passed the gates is published.                    *)
CandidateGated(p) ==
  pc[p] \in PublishSteps =>
    /\ Deployable(run[p].candidate)
    /\ pub[p].accuracy = run[p].candidate.accuracy
    /\ pc[p] \in BeforeFlip => BeatsIncumbent(run[p].candidate, run[p].incumbent)

(* Both rounds of hashes are the candidate's, as far as the loops got.     *)
HashesTrue(p) ==
  \A f \in Sources :
    /\ pc[p] \in {"rehash", "put", "verify", "flip"} \/ (pc[p] = "hash" /\ f < pub[p].file)
         => pub[p].sums[f] = run[p].candidate
    /\ pc[p] \in {"put", "verify", "flip"} \/ (pc[p] = "rehash" /\ f < pub[p].file)
         => pub[p].sha[f] = run[p].candidate

(* What was verified is stored, and after the flip it is what is live.     *)
BundleVerified(p) ==
  /\ \A f \in Files :
       pc[p] = "flip" \/ (pc[p] = "verify" /\ f < pub[p].file)
         => Holds(pub[p].version, f, ExpectedBlob(p, f))
  /\ pc[p] \in {"list", "trim"} => latest # None /\ latest.version = pub[p].version

(* What concerns the run's own candidate, whoever else publishes.          *)
CandidateInv(p) == ArtifactsOwned(p) /\ CandidateGated(p) /\ HashesTrue(p)

RunInv(p) ==
  /\ VersionOrder(p)
  /\ CandidateInv(p)
  /\ IncumbentCurrent(p)
  /\ BundleVerified(p)

(* Objects are immutable and no version lies in the future.                *)
StoreInv ==
  /\ \A o \in objects : o.version <= clock
  /\ \A o1, o2 \in objects : o1.version = o2.version /\ o1.file = o2.file => o1 = o2

LockedInv == \A p \in Runs : HoldsLock(p) => RunInv(p)

PublishInv == TypeInv /\ StoreInv /\ LockedInv /\ LiveBundleComplete /\ LiveBundleVetted

(***************************************************************************)
(* The invariant is inductive                                              *)
(***************************************************************************)

(* Nothing another process does disturbs what the run inside knows, first  *)
(* of its candidate, then of the registry.                                 *)
LEMMA CandidateFrame ==
  ASSUME NEW p \in Runs, CandidateInv(p),
         pc'[p] = pc[p], run'[p] = run[p], pub'[p] = pub[p], UNCHANGED work
  PROVE  CandidateInv(p)'
BY DEF CandidateInv, ArtifactsOwned, CandidateGated, HashesTrue

LEMMA RunFrame ==
  ASSUME TypeInv, NEW p \in Runs, RunInv(p),
         pc'[p] = pc[p], run'[p] = run[p], pub'[p] = pub[p],
         clock' \in Nat, clock <= clock', UNCHANGED <<work, objects, latest>>
  PROVE  RunInv(p)'
<1>1. /\ pub[p].version \in Nat
      /\ run[p].began \in Nat
      /\ clock \in Nat
  BY ProcsAssumption DEF TypeInv, TypeOK, RegistryTypeOK, PublishLocals, RunLocals
<1>2. VersionOrder(p)'
  BY <1>1 DEF RunInv, VersionOrder
<1>3. CandidateInv(p)' /\ IncumbentCurrent(p)'
  BY CandidateFrame DEF RunInv, IncumbentCurrent
<1>4. BundleVerified(p)'
  BY DEF RunInv, BundleVerified, Holds, ExpectedBlob, StagedMetadata
<1> QED BY <1>2, <1>3, <1>4 DEF RunInv

(* No step of publish() makes the run inside the lock forget, or mix up,   *)
(* the candidate it trained, gated and hashed.                             *)
LEMMA PublishKeepsCandidate ==
  ASSUME TypeInv, NEW p \in Runs, CandidateInv(p), PublishStep(p) \/ PublishFault(p),
         UNCHANGED run
  PROVE  CandidateInv(p)'
<1>1. /\ p \in Procs
      /\ pc \in [Procs -> Steps]
      /\ pub \in [Procs -> PublishLocals]
      /\ pub' \in [Procs -> PublishLocals]
      /\ run[p] \in RunLocals
  BY ProcsAssumption, PublishLocalsTyped DEF TypeInv, TypeOK, RegistryTypeOK
<1> USE DEF PublishLocals, RunLocals, Goto, BeforeFlip, Versioned, PipelineSteps,
            PublishSteps, PublishEnds, Files, Sources, Hmm, Weights, Map, Metadata
<1>2. ArtifactsOwned(p)'
  <2> USE DEF CandidateInv, ArtifactsOwned
  <2>1. CASE Guard(p) \/ Hash(p) \/ Rehash(p) \/ Put(p) \/ Verify(p)
    BY <1>1, <2>1 DEF Guard, Hash, Rehash, Put, Verify
  <2>2. CASE Cleanup(p) \/ Flip(p) \/ ListVersions(p) \/ TrimVersion(p)
    BY <1>1, <2>2 DEF Cleanup, Flip, ListVersions, TrimVersion
  <2>3. CASE PublishFault(p)
    BY <1>1, <2>3 DEF PublishFault, RefuseSecret, UploadError, LateError
  <2> QED BY <2>1, <2>2, <2>3 DEF PublishStep
<1>3. CandidateGated(p)'
  <2> USE DEF CandidateInv, CandidateGated, BeatsIncumbent
  <2>1. CASE Guard(p) \/ Hash(p) \/ Rehash(p) \/ Put(p) \/ Verify(p)
    BY <1>1, <2>1 DEF Guard, Hash, Rehash, Put, Verify
  <2>2. CASE Cleanup(p) \/ Flip(p) \/ ListVersions(p) \/ TrimVersion(p)
    BY <1>1, <2>2 DEF Cleanup, Flip, ListVersions, TrimVersion
  <2>3. CASE PublishFault(p)
    BY <1>1, <2>3 DEF PublishFault, RefuseSecret, UploadError, LateError
  <2> QED BY <2>1, <2>2, <2>3 DEF PublishStep
<1>4. HashesTrue(p)'
  <2> USE DEF CandidateInv, HashesTrue
  <2>1. CASE Hash(p)
    BY <1>1, <2>1 DEF Hash, ArtifactsOwned
  <2>2. CASE Rehash(p)
    BY <1>1, <2>2 DEF Rehash, ArtifactsOwned
  <2>3. CASE Guard(p) \/ Put(p)
    BY <1>1, <2>3 DEF Guard, Put
  <2>4. CASE Verify(p) \/ Cleanup(p)
    BY <1>1, <2>4 DEF Verify, Cleanup
  <2>5. CASE Flip(p) \/ ListVersions(p) \/ TrimVersion(p)
    BY <1>1, <2>5 DEF Flip, ListVersions, TrimVersion
  <2>6. CASE PublishFault(p)
    BY <1>1, <2>6 DEF PublishFault, RefuseSecret, UploadError, LateError
  <2> QED BY <2>1, <2>2, <2>3, <2>4, <2>5, <2>6 DEF PublishStep
<1> QED BY <1>2, <1>3, <1>4 DEF CandidateInv

(* The run's own steps of publish().                                       *)
LEMMA PublishKeepsRunInv ==
  ASSUME TypeInv, StoreInv, NEW p \in Runs, RunInv(p), PublishStep(p) \/ PublishFault(p),
         UNCHANGED run
  PROVE  RunInv(p)'
<1>1. /\ p \in Procs
      /\ pc \in [Procs -> Steps]
      /\ pub \in [Procs -> PublishLocals]
      /\ pub' \in [Procs -> PublishLocals]
      /\ run[p] \in RunLocals
      /\ latest # None => latest.version \in Nat
      /\ clock \in Nat
  BY ProcsAssumption, PublishLocalsTyped DEF TypeInv, TypeOK, RegistryTypeOK, Pointer
<1> USE DEF PublishLocals, RunLocals, Goto, BeforeFlip, Versioned, PipelineSteps,
            PublishSteps, PublishEnds, Files, Sources, Hmm, Weights, Map, Metadata
<1>2. VersionOrder(p)'
  <2>1. CASE Guard(p)
    BY <1>1, <2>1 DEF RunInv, VersionOrder, Guard
  <2>2. CASE Hash(p) \/ Rehash(p)
    <3>1. pub'[p].version = pub[p].version
      BY <1>1, <2>2 DEF Hash, Rehash
    <3>2. /\ pc[p] \in {"hash", "rehash"} /\ pc'[p] \in {"hash", "rehash", "put"}
          /\ UNCHANGED <<clock, latest>>
      BY <1>1, <2>2 DEF Hash, Rehash
    <3> QED BY <1>1, <3>1, <3>2 DEF RunInv, VersionOrder
  <2>3. CASE Put(p) \/ Verify(p) \/ Cleanup(p)
    BY <1>1, <2>3 DEF RunInv, VersionOrder, Put, Verify, Cleanup
  <2>4. CASE Flip(p) \/ ListVersions(p) \/ TrimVersion(p) \/ PublishFault(p)
    BY <1>1, <2>4 DEF RunInv, VersionOrder, Flip, ListVersions, TrimVersion,
       PublishFault, RefuseSecret, UploadError, LateError
  <2> QED BY <2>1, <2>2, <2>3, <2>4 DEF PublishStep
<1>3. IncumbentCurrent(p)'
  <2> USE DEF RunInv, IncumbentCurrent
  <2>1. CASE Guard(p) \/ Hash(p) \/ Rehash(p) \/ Put(p) \/ Verify(p)
    BY <1>1, <2>1 DEF Guard, Hash, Rehash, Put, Verify
  <2>2. CASE Cleanup(p) \/ Flip(p) \/ ListVersions(p) \/ TrimVersion(p)
    BY <1>1, <2>2 DEF Cleanup, Flip, ListVersions, TrimVersion
  <2>3. CASE PublishFault(p)
    BY <1>1, <2>3 DEF PublishFault, RefuseSecret, UploadError, LateError
  <2> QED BY <2>1, <2>2, <2>3 DEF PublishStep
<1>4. CandidateInv(p)'
  BY PublishKeepsCandidate DEF RunInv
<1>5. BundleVerified(p)'
  <2> USE DEF RunInv, BundleVerified, Holds, ExpectedBlob, StagedMetadata
  <2>1. CASE Put(p)
    BY <1>1, <2>1 DEF Put
  <2>2. CASE Verify(p)
    BY <1>1, <2>2 DEF Verify
  <2>3. CASE Flip(p)
    <3>1. latest' \in Pointer /\ latest'.version = pub[p].version
      BY <1>1, <2>3 DEF Flip, Pointer, MetadataBlob
    <3> QED BY <1>1, <2>3, <3>1, PointerAssumption DEF Flip
  <2>4. CASE Guard(p) \/ Hash(p) \/ Rehash(p) \/ Cleanup(p)
    BY <1>1, <2>4 DEF Guard, Hash, Rehash, Cleanup
  <2>5. CASE ListVersions(p) \/ TrimVersion(p)
    BY <1>1, <2>5 DEF ListVersions, TrimVersion
  <2>6. CASE PublishFault(p)
    BY <1>1, <2>6 DEF PublishFault, RefuseSecret, UploadError, LateError
  <2> QED BY <2>1, <2>2, <2>3, <2>4, <2>5, <2>6 DEF PublishStep
<1> QED BY <1>2, <1>3, <1>4, <1>5 DEF RunInv

(* The store: objects only ever appear with a version of the present or    *)
(* past, and never twice.                                                  *)
LEMMA PublishKeepsStore ==
  ASSUME TypeInv, StoreInv, NEW p \in Procs, PublishStep(p) \/ PublishFault(p),
         pc[p] = "put" => pub[p].version <= clock
  PROVE  StoreInv'
<1>1. clock' = clock
  BY PublishMoves DEF TypeInv, TypeOK, RegistryTypeOK
<1>2. CASE Put(p)
  BY <1>1, <1>2 DEF StoreInv, Put, PutObject, Exists
<1>3. CASE Cleanup(p) \/ TrimVersion(p)
  BY <1>1, <1>3 DEF StoreInv, Cleanup, TrimVersion, DeletePrefix
<1>4. CASE Guard(p) \/ Hash(p) \/ Rehash(p) \/ Verify(p) \/ Flip(p) \/ ListVersions(p)
  BY <1>1, <1>4 DEF StoreInv, Guard, Hash, Rehash, Verify, Flip, ListVersions
<1>5. CASE PublishFault(p)
  BY <1>1, <1>5 DEF StoreInv, PublishFault, RefuseSecret, UploadError, LateError
<1> QED BY <1>2, <1>3, <1>4, <1>5 DEF PublishStep

(* The flip makes live what was verified and gated.                        *)
LEMMA FlipMakesLive ==
  ASSUME TypeInv, NEW p \in Runs, RunInv(p), Flip(p)
  PROVE  /\ latest' # None
         /\ LiveBundleComplete'
         /\ run[p].candidate \in Candidates
         /\ Deployable(run[p].candidate)
         /\ latest'.metadata.accuracy = run[p].candidate.accuracy
         /\ \A f \in Sources : latest'.metadata.sums[f] = run[p].candidate
<1>1. /\ latest' = [version |-> pub[p].version, metadata |-> StagedMetadata(p)]
      /\ pc[p] = "flip"
      /\ UNCHANGED objects
  BY DEF Flip
<1>2. latest' # None
  <2>1. latest' \in Pointer
    BY <1>1, ProcsAssumption DEF TypeInv, TypeOK, RegistryTypeOK, Pointer, StagedMetadata,
       MetadataBlob, PublishLocals
  <2> QED BY <2>1, PointerAssumption
<1>3. /\ run[p].candidate \in Candidates
      /\ Deployable(run[p].candidate)
      /\ latest'.metadata.accuracy = run[p].candidate.accuracy
  BY <1>1 DEF TypeInv, CandidateKnown, CandidateSteps, PublishSteps, RunInv, CandidateInv,
     CandidateGated,
     StagedMetadata
<1>4. \A f \in Sources : latest'.metadata.sums[f] = run[p].candidate
  BY <1>1 DEF RunInv, CandidateInv, HashesTrue, StagedMetadata
<1>5. LiveBundleComplete'
  <2>1. Holds(pub[p].version, Metadata, StagedMetadata(p))
    BY <1>1 DEF RunInv, BundleVerified, ExpectedBlob, Files
  <2>2. \A f \in Sources : Holds(pub[p].version, f, pub[p].sums[f])
    BY <1>1 DEF RunInv, CandidateInv, BundleVerified, HashesTrue, ExpectedBlob, Files, Sources,
       Hmm, Weights, Map, Metadata
  <2> QED BY <1>1, <2>1, <2>2 DEF LiveBundleComplete, BundleComplete, Holds, StagedMetadata
<1> QED BY <1>2, <1>3, <1>4, <1>5

(* No other step of publish() touches the pointer, and no object it deletes*)
(* belongs to the live bundle.                                             *)
LEMMA PublishKeepsLive ==
  ASSUME TypeInv, StoreInv, LiveBundleComplete, NEW p \in Runs, RunInv(p),
         PublishStep(p) \/ PublishFault(p), ~Flip(p)
  PROVE  latest' = latest /\ LiveBundleComplete'
<1>1. p \in Procs /\ latest' = latest
  BY ProcsAssumption, PointerMoves DEF TypeInv, TypeOK
<1>2. latest # None => \A o \in Bundle(latest.version) : o \in objects'
  <2>1. CASE Put(p)
    BY <2>1 DEF Put, PutObject, Bundle
  <2>2. CASE Cleanup(p)
    <3>1. latest # None => latest.version # pub[p].version
      <4>1. /\ latest # None => latest.version \in Nat /\ latest.version <= run[p].began
            /\ run[p].began < pub[p].version
        BY <2>2 DEF Cleanup, RunInv, VersionOrder, BeforeFlip, Versioned, TypeInv, TypeOK,
           RegistryTypeOK, Pointer
      <4>2. run[p].began \in Nat /\ pub[p].version \in Nat
        BY <1>1 DEF TypeInv, TypeOK, RegistryTypeOK, RunLocals, PublishLocals
      <4> QED BY <4>1, <4>2
    <3> QED BY <2>2, <3>1 DEF Cleanup, DeletePrefix, Bundle
  <2>3. CASE TrimVersion(p)
    BY <2>3 DEF TrimVersion, RunInv, BundleVerified, DeletePrefix, Bundle
  <2>4. CASE Guard(p) \/ Hash(p) \/ Rehash(p) \/ Verify(p) \/ ListVersions(p)
    BY <2>4 DEF Guard, Hash, Rehash, Verify, ListVersions, Bundle
  <2>5. CASE PublishFault(p)
    BY <2>5 DEF PublishFault, RefuseSecret, UploadError, LateError, Bundle
  <2> QED BY <2>1, <2>2, <2>3, <2>4, <2>5 DEF PublishStep
<1> QED BY <1>1, <1>2 DEF LiveBundleComplete, BundleComplete, Holds, Bundle

(* What the scheduler reads as the incumbent is the live accuracy.         *)
LEMMA IncumbentIsLive ==
  ASSUME TypeInv, StoreInv, LiveBundleComplete
  PROVE  LiveAccuracy = IF latest = None THEN None ELSE latest.metadata.accuracy
<1> DEFINE metas == {o \in objects : o.version = latest.version /\ o.file = Metadata}
           meta == [version |-> latest.version, file |-> Metadata, blob |-> latest.metadata]
<1>1. CASE latest = None
  BY <1>1 DEF LiveAccuracy
<1>2. CASE latest # None
  <2>1. meta \in metas
    BY <1>2 DEF LiveBundleComplete, BundleComplete, Holds
  <2>2. \A o \in metas : o = meta
    BY <2>1 DEF StoreInv
  <2>3. PICK o \in metas : o = CHOOSE m \in metas : TRUE
    BY <2>1
  <2>4. LiveAccuracy = o.blob.accuracy
    BY <1>2, <2>1, <2>3 DEF LiveAccuracy
  <2> QED BY <1>2, <2>2, <2>4
<1> QED BY <1>1, <1>2

(* The run's own steps outside publish().                                  *)
LEMMA RetrainKeepsCandidate ==
  ASSUME TypeInv, NEW p \in Runs, HoldsLock(p) => CandidateInv(p),
         RetrainStep(p) \/ PipelineError(p)
  PROVE  HoldsLock(p)' => CandidateInv(p)'
<1>1. /\ p \in Procs
      /\ pc \in [Procs -> Steps]
      /\ pub \in [Procs -> PublishLocals]
      /\ run \in [Procs -> RunLocals]
      /\ work \in [Sources -> Content \cup {None}]
  BY ProcsAssumption DEF TypeInv, TypeOK, RegistryTypeOK
<1> USE DEF PublishLocals, RunLocals, Goto, BeforeFlip, Versioned, PipelineSteps,
            PublishSteps, PublishEnds, LockedSteps, HoldsLock
<1>2. CASE Evaluate(p) \/ AbortRun(p) \/ ReleaseLock(p) \/ SaveState(p)
  BY <1>1, <1>2 DEF Evaluate, AbortRun, ReleaseLock, SaveState
<1> USE DEF CandidateInv, ArtifactsOwned, CandidateGated, HashesTrue
<1>3. CASE AcquireLock(p) \/ StampLock(p) \/ ReadIncumbent(p) \/ PipelineError(p)
           \/ PublishReturns(p)
  BY <1>1, <1>3 DEF AcquireLock, StampLock, ReadIncumbent, PipelineError, PublishReturns
<1>4. CASE TrainRegime(p)
  BY <1>1, <1>4 DEF TrainRegime, Sources
<1>5. CASE VetMap(p)
  BY <1>1, <1>5 DEF VetMap, Sources, Hmm, Map
<1>6. CASE VetWeights(p)
  BY <1>1, <1>6 DEF VetWeights, Sources
<1>7. CASE ApplyGates(p)
  BY <1>1, <1>7, CandidateAtHand DEF ApplyGates, Deployable, NoPublish
<1> QED BY <1>2, <1>3, <1>4, <1>5, <1>6, <1>7 DEF RetrainStep

LEMMA RetrainKeepsRunInv ==
  ASSUME TypeInv, StoreInv, LiveBundleComplete, NEW p \in Runs, HoldsLock(p) => RunInv(p),
         RetrainStep(p) \/ PipelineError(p)
  PROVE  HoldsLock(p)' => RunInv(p)'
<1>1. /\ p \in Procs
      /\ pc \in [Procs -> Steps]
      /\ pub \in [Procs -> PublishLocals]
      /\ run \in [Procs -> RunLocals]
      /\ work \in [Sources -> Content \cup {None}]
      /\ latest # None => latest.version \in Nat
      /\ clock \in Nat
      /\ UNCHANGED latest
  BY ProcsAssumption, RetrainTypes DEF TypeInv, TypeOK, RegistryTypeOK, Pointer
<1> USE DEF PublishLocals, RunLocals, Goto, BeforeFlip, Versioned, PipelineSteps,
            PublishSteps, PublishEnds, LockedSteps, HoldsLock
<1>2. CASE Evaluate(p) \/ AbortRun(p) \/ ReleaseLock(p) \/ SaveState(p)
  BY <1>1, <1>2 DEF Evaluate, AbortRun, ReleaseLock, SaveState
<1>3. HoldsLock(p)' => CandidateInv(p)'
  BY RetrainKeepsCandidate DEF RunInv
<1> USE DEF RunInv, VersionOrder, IncumbentCurrent, BundleVerified
<1>4. CASE AcquireLock(p)
  <2>1. latest # None => latest.version <= clock
    BY DEF StoreInv, LiveBundleComplete, BundleComplete, Holds
  <2> QED BY <1>1, <1>3, <1>4, <2>1 DEF AcquireLock
<1>5. CASE StampLock(p) \/ ReadIncumbent(p)
  <2>1. CASE StampLock(p)
    BY <1>1, <1>3, <2>1 DEF StampLock
  <2>2. CASE ReadIncumbent(p)
    BY <1>1, <1>3, <2>2, IncumbentIsLive DEF ReadIncumbent
  <2> QED BY <1>5, <2>1, <2>2
<1>6. CASE PipelineError(p) \/ PublishReturns(p)
  BY <1>1, <1>3, <1>6 DEF PipelineError, PublishReturns
<1>7. CASE TrainRegime(p)
  BY <1>1, <1>3, <1>7 DEF TrainRegime
<1>8. CASE VetMap(p)
  BY <1>1, <1>3, <1>8 DEF VetMap
<1>9. CASE VetWeights(p) \/ ApplyGates(p)
  BY <1>1, <1>3, <1>9 DEF VetWeights, ApplyGates
<1> QED BY <1>2, <1>4, <1>5, <1>6, <1>7, <1>8, <1>9 DEF RetrainStep

(* Whoever is inside the lock is alone.                                    *)
LEMMA OneInside ==
  ASSUME TypeInv, NEW p \in Runs, NEW q \in Runs, HoldsLock(p), HoldsLock(q)
  PROVE  p = q
BY DEF TypeInv, LockOwned

(* A step of one run leaves alone what the run inside the lock knows,      *)
(* unless it is that run's own step.                                       *)
LEMMA RetrainKeepsLocked ==
  ASSUME PublishInv, NEW p \in Runs, RetrainStep(p) \/ PipelineError(p)
  PROVE  StoreInv' /\ LockedInv'
<1>1. /\ p \in Procs
      /\ UNCHANGED objects
      /\ clock \in Nat /\ clock' \in Nat
      /\ StoreInv
  BY ProcsAssumption, RetrainTypes DEF PublishInv, TypeInv, TypeOK, RegistryTypeOK
<1>2. clock <= clock'
  <2>1. CASE VetMap(p)
    BY <1>1, <2>1 DEF VetMap
  <2>2. CASE Evaluate(p) \/ AcquireLock(p) \/ AbortRun(p) \/ StampLock(p) \/ ReadIncumbent(p)
             \/ PipelineError(p)
    <3>1. clock' = clock
      BY <2>2 DEF Evaluate, AcquireLock, AbortRun, StampLock, ReadIncumbent, PipelineError
    <3> QED BY <1>1, <3>1
  <2>3. CASE \/ TrainRegime(p) \/ VetWeights(p) \/ ApplyGates(p)
             \/ PublishReturns(p) \/ ReleaseLock(p) \/ SaveState(p)
    <3>1. clock' = clock
      BY <2>3 DEF TrainRegime, VetWeights, ApplyGates, PublishReturns, ReleaseLock, SaveState
    <3> QED BY <1>1, <3>1
  <2> QED BY <2>1, <2>2, <2>3 DEF RetrainStep
<1>3. StoreInv'
  <2>1. \A o \in objects : o.version \in Nat
    BY DEF PublishInv, TypeInv, TypeOK, RegistryTypeOK, Object
  <2> QED BY <1>1, <1>2, <2>1 DEF StoreInv
<1>4. ASSUME NEW q \in Runs, HoldsLock(q)'
      PROVE  RunInv(q)'
  <2>1. CASE q = p
    BY <1>4, <2>1, RetrainKeepsRunInv DEF PublishInv, LockedInv
  <2>2. CASE q # p
    <3>1. /\ pc'[q] = pc[q]
          /\ HoldsLock(q)
      BY <1>4, <2>2, <1>1, ProcsAssumption, RetrainMoves
         DEF PublishInv, TypeInv, TypeOK, RegistryTypeOK, HoldsLock
    <3>2. ~HoldsLock(p)
      BY <2>2, <3>1, OneInside DEF PublishInv
    <3>3. Evaluate(p) \/ AcquireLock(p) \/ AbortRun(p) \/ SaveState(p)
      BY <3>2 DEF HoldsLock, LockedSteps, PipelineSteps, PublishSteps, PublishEnds, RetrainStep,
         StampLock, ReadIncumbent, PipelineError, TrainRegime, VetMap, VetWeights, ApplyGates,
         PublishReturns, ReleaseLock
    <3>4. /\ UNCHANGED <<work, objects, latest>>
          /\ run'[q] = run[q]
          /\ pub'[q] = pub[q]
      BY <3>3, <2>2, <1>1, ProcsAssumption DEF Evaluate, AcquireLock, AbortRun, SaveState,
         PublishInv, TypeInv, TypeOK, RegistryTypeOK
    <3> QED BY <3>1, <3>4, <1>1, <1>2, RunFrame DEF PublishInv, LockedInv
  <2> QED BY <2>1, <2>2
<1> QED BY <1>3, <1>4 DEF LockedInv

(* The same for publish(), which only a run inside the lock executes.      *)
LEMMA PublishKeepsLocked ==
  ASSUME PublishInv, NEW p \in Runs, PublishStep(p) \/ PublishFault(p),
         UNCHANGED <<lock, saved, run>>
  PROVE  StoreInv' /\ LockedInv' /\ LiveBundleComplete' /\ LiveBundleVetted'
<1>1. /\ TypeInv /\ StoreInv /\ LiveBundleComplete /\ LiveBundleVetted
      /\ p \in Procs
      /\ pc \in [Procs -> Steps]
      /\ HoldsLock(p)
      /\ RunInv(p)
  BY ProcsAssumption, PublishMoves
     DEF PublishInv, LockedInv, TypeInv, TypeOK, RegistryTypeOK, HoldsLock, LockedSteps
<1>2. StoreInv'
  BY <1>1, PublishKeepsStore DEF RunInv, VersionOrder, Versioned
<1>3. LockedInv'
  <2>1. \A q \in Runs : HoldsLock(q)' => q = p
    BY <1>1, ProcsAssumption, PublishMoves, OneInside DEF HoldsLock
  <2> QED BY <1>1, <2>1, PublishKeepsRunInv DEF LockedInv
<1>4. LiveBundleComplete' /\ LiveBundleVetted'
  <2>1. CASE Flip(p)
    BY <1>1, <2>1, FlipMakesLive DEF LiveBundleVetted
  <2>2. CASE ~Flip(p)
    BY <1>1, <2>2, PublishKeepsLive DEF LiveBundleVetted
  <2> QED BY <2>1, <2>2
<1> QED BY <1>2, <1>3, <1>4

(* A kill ends what its process knew and nothing else.                     *)
LEMMA CrashKeepsLocked ==
  ASSUME PublishInv, NEW p \in Runs, StopHere(p)
  PROVE  StoreInv' /\ LockedInv'
<1>1. /\ p \in Procs
      /\ UNCHANGED <<clock, objects, latest>>
      /\ clock \in Nat
      /\ pc' = [pc EXCEPT ![p] = "idle"]
      /\ run' = [run EXCEPT ![p] = NoRun]
      /\ pub' = [pub EXCEPT ![p] = NoPublish]
      /\ pc \in [Procs -> Steps]
      /\ run \in [Procs -> RunLocals]
      /\ pub \in [Procs -> PublishLocals]
  BY ProcsAssumption DEF StopHere, Goto, PublishInv, TypeInv, TypeOK, RegistryTypeOK
<1>2. ASSUME NEW q \in Runs, HoldsLock(q)'
      PROVE  RunInv(q)'
  <2>1. q # p /\ HoldsLock(q)
    BY <1>1, <1>2, ProcsAssumption
       DEF HoldsLock, LockedSteps, PipelineSteps, PublishSteps, PublishEnds
  <2>2. UNCHANGED work
    BY <1>1, <2>1, OneInside DEF StopHere, WorkLeftBy, PublishInv, HoldsLock, LockedSteps,
       PipelineSteps
  <2> QED BY <1>1, <2>1, <2>2, ProcsAssumption, RunFrame DEF PublishInv, LockedInv
<1> QED BY <1>1, <1>2 DEF LockedInv, StoreInv, PublishInv

(* With nothing stored and nobody inside, the invariant holds.             *)
LEMMA InitPublishInv == Init => PublishInv
BY InitTypeInv, ProcsAssumption DEF Init, RegistryInit, PublishInv, StoreInv, LockedInv,
   HoldsLock, LockedSteps, PipelineSteps, PublishSteps, PublishEnds, LiveBundleComplete,
   LiveBundleVetted, TypeInv, TypeOK, RegistryTypeOK

(* Every step preserves it, by whichever process makes the step.           *)
LEMMA NextPublishInv ==
  ASSUME Operators = {}, PublishInv, [Next]_vars
  PROVE  PublishInv'
<1>1. TypeInv'
  BY NextTypeInv DEF PublishInv
<1>2. Procs = Runs
  BY ProcsAssumption
<1>3. ASSUME UNCHANGED <<objects, latest>>
      PROVE  LiveBundleComplete' /\ LiveBundleVetted'
  BY <1>3 DEF PublishInv, LiveBundleComplete, LiveBundleVetted, BundleComplete, Holds
<1>4. ASSUME NEW p \in Runs, RetrainStep(p) \/ PipelineError(p)
      PROVE  PublishInv'
  BY <1>1, <1>2, <1>3, <1>4, RetrainTypes, RetrainKeepsLocked DEF PublishInv
<1>5. ASSUME NEW p \in Runs, Publishing(p)
      PROVE  PublishInv'
  BY <1>1, <1>5, PublishKeepsLocked DEF Publishing, PublishInv
<1>6. ASSUME NEW p \in Runs, StopHere(p)
      PROVE  PublishInv'
  <2>1. UNCHANGED <<objects, latest>>
    BY <1>6 DEF StopHere
  <2> QED BY <1>1, <1>3, <1>6, <2>1, CrashKeepsLocked DEF PublishInv
<1>7. CASE Tick \/ ClearStaleLock \/ UNCHANGED vars
  <2>1. /\ UNCHANGED <<work, objects, latest, pc, pub, run>>
        /\ clock \in Nat /\ clock' \in Nat /\ clock <= clock'
    BY <1>7 DEF Tick, ClearStaleLock, vars, PublishInv, TypeInv, TypeOK, RegistryTypeOK
  <2>2. LockedInv'
    BY <2>1, RunFrame DEF PublishInv, LockedInv, HoldsLock
  <2>3. StoreInv'
    <3>1. \A o \in objects : o.version \in Nat
      BY DEF PublishInv, TypeInv, TypeOK, RegistryTypeOK, Object
    <3> QED BY <2>1, <3>1 DEF PublishInv, StoreInv
  <2> QED BY <1>1, <1>3, <2>1, <2>2, <2>3 DEF PublishInv
<1>8. ASSUME NEW p \in Runs, ManualPublish(p) \/ ManualReturns(p)
      PROVE  FALSE
  BY <1>8 DEF ManualPublish, ManualReturns
<1> QED BY <1>2, <1>4, <1>5, <1>6, <1>7, <1>8 DEF Next, Crash, FileError

(* With every publish behind the orchestrator, latest.json always names a  *)
(* bundle that is wholly stored with the hashes its metadata records: for  *)
(* any number of runs, kills, restarts, upload errors and kept versions.   *)
THEOREM LiveBundleSafe ==
  ASSUME Operators = {}
  PROVE  Spec => []LiveBundleComplete
<1>1. PublishInv /\ [Next]_vars => PublishInv'
  BY NextPublishInv
<1>2. PublishInv => LiveBundleComplete
  BY DEF PublishInv
<1> QED BY <1>1, <1>2, InitPublishInv, PTL DEF Spec

(* Its artifacts are one candidate's, which passed the absolute gates, and *)
(* the accuracy stored with it is that candidate's own: a run that was     *)
(* killed between two artifacts leaves nothing a later run would publish.  *)
THEOREM LiveBundleEarned ==
  ASSUME Operators = {}
  PROVE  Spec => []LiveBundleVetted
<1>1. PublishInv /\ [Next]_vars => PublishInv'
  BY NextPublishInv
<1>2. PublishInv => LiveBundleVetted
  BY DEF PublishInv
<1> QED BY <1>1, <1>2, InitPublishInv, PTL DEF Spec

(***************************************************************************)
(* The pointer only moves forward                                          *)
(***************************************************************************)

(* Whatever changes the pointer is the flip of a run inside the lock.      *)
LEMMA OnlyFlips ==
  ASSUME Operators = {}, PublishInv, [Next]_vars
  PROVE  latest' = latest \/ \E p \in Runs : Flip(p) /\ RunInv(p)
<1>1. TypeInv /\ Procs = Runs
  BY ProcsAssumption DEF PublishInv
<1>2. ASSUME NEW p \in Runs, RetrainStep(p) \/ PipelineError(p)
      PROVE  latest' = latest
  BY <1>1, <1>2, RetrainTypes
<1>3. ASSUME NEW p \in Runs, Publishing(p)
      PROVE  latest' = latest \/ (Flip(p) /\ RunInv(p))
  <2>1. PublishStep(p) \/ PublishFault(p)
    BY <1>3 DEF Publishing
  <2>2. RunInv(p)
    BY <1>1, <2>1, PublishMoves DEF PublishInv, LockedInv, TypeInv, TypeOK,
       RegistryTypeOK, HoldsLock, LockedSteps
  <2> QED BY <1>1, <2>1, <2>2, PointerMoves DEF TypeInv, TypeOK
<1>4. ASSUME NEW p \in Runs, ManualPublish(p) \/ ManualReturns(p) \/ StopHere(p)
      PROVE  latest' = latest
  BY <1>4 DEF ManualPublish, ManualReturns, StopHere
<1>5. CASE Tick \/ ClearStaleLock \/ UNCHANGED vars
  BY <1>5 DEF Tick, ClearStaleLock, vars
<1> QED BY <1>1, <1>2, <1>3, <1>4, <1>5 DEF Next, Crash, FileError

(* No flip takes consumers back to an older bundle, however long a run is  *)
(* delayed between choosing its version and flipping.                      *)
THEOREM PointerForward ==
  ASSUME Operators = {}
  PROVE  Spec => PointerMovesForward
<1>1. PublishInv /\ [Next]_vars => PublishInv'
  BY NextPublishInv
<1>2. PublishInv /\ [Next]_vars =>
        [latest # None /\ latest' # latest =>
           latest' # None /\ latest'.version > latest.version]_vars
  <2> SUFFICES ASSUME PublishInv, [Next]_vars, latest # None, latest' # latest
               PROVE  latest' # None /\ latest'.version > latest.version
    OBVIOUS
  <2>1. PICK p \in Runs : Flip(p) /\ RunInv(p)
    BY OnlyFlips
  <2>2. /\ latest'.version = pub[p].version
        /\ latest.version <= run[p].began
        /\ run[p].began < pub[p].version
    BY <2>1 DEF Flip, RunInv, VersionOrder, BeforeFlip, Versioned
  <2>3. /\ latest.version \in Nat
        /\ run[p].began \in Nat
        /\ pub[p].version \in Nat
    BY ProcsAssumption DEF PublishInv, TypeInv, TypeOK, RegistryTypeOK, Pointer,
       RunLocals, PublishLocals
  <2>4. latest' # None
    BY <2>1, FlipMakesLive DEF PublishInv
  <2> QED BY <2>2, <2>3, <2>4
<1> QED BY <1>1, <1>2, InitPublishInv, PTL DEF Spec, PointerMovesForward

(***************************************************************************)
(* The state file stays behind the pointer                                 *)
(***************************************************************************)

(* A bundle a run or the state file remembers was live.                    *)
Behind(version) == version # None => latest # None /\ version <= latest.version

(* The bundle of a run past its flip, as long as it may still save it.     *)
Flipped(p) ==
  \/ pc[p] \in {"list", "trim", "published"}
  \/ pc[p] \in {"release", "save"} /\ run[p].outcome = "promoted"

StateInv ==
  /\ Behind(saved.lastBundle)
  /\ \A p \in Runs : Behind(run[p].state.lastBundle)
  /\ \A p \in Runs : Flipped(p) => Behind(pub[p].version)

(* The pointer only grows, so whatever was behind it stays behind it.      *)
LEMMA BehindStays ==
  ASSUME Operators = {}, PublishInv, [Next]_vars, NEW v \in Nat \cup {None}, Behind(v)
  PROVE  Behind(v)'
<1>1. CASE latest' = latest
  BY <1>1 DEF Behind
<1>2. CASE latest' # latest
  <2>1. PICK p \in Runs : Flip(p) /\ RunInv(p)
    BY <1>2, OnlyFlips
  <2>2. /\ latest' # None
        /\ latest'.version = pub[p].version
        /\ latest # None => latest.version < pub[p].version
    <3>1. latest # None => latest.version \in Nat
      BY DEF PublishInv, TypeInv, TypeOK, RegistryTypeOK, Pointer
    <3>2. run[p].began \in Nat /\ pub[p].version \in Nat
      BY ProcsAssumption DEF PublishInv, TypeInv, TypeOK, RegistryTypeOK, RunLocals, PublishLocals
    <3>3. /\ latest # None => latest.version <= run[p].began
          /\ run[p].began < pub[p].version
      BY <2>1 DEF Flip, RunInv, VersionOrder, BeforeFlip, Versioned
    <3>4. latest' # None
      BY <2>1, FlipMakesLive DEF PublishInv
    <3> QED BY <2>1, <3>1, <3>2, <3>3, <3>4 DEF Flip
  <2>3. /\ latest # None => latest.version \in Nat
        /\ latest'.version \in Nat
    BY <2>1, <2>2, ProcsAssumption
       DEF PublishInv, TypeInv, TypeOK, RegistryTypeOK, Pointer, PublishLocals
  <2> QED BY <2>2, <2>3 DEF Behind
<1> QED BY <1>1, <1>2

(* Every step preserves it: a run learns a bundle by loading the state     *)
(* file or by its own flip, and saves nothing else.                        *)
LEMMA NextStateInv ==
  ASSUME Operators = {}, PublishInv, StateInv, [Next]_vars
  PROVE  StateInv'
<1>1. /\ Procs = Runs
      /\ TypeInv
      /\ pc \in [Procs -> Steps]
      /\ run \in [Procs -> RunLocals]
      /\ pub \in [Procs -> PublishLocals]
      /\ saved \in RetrainState
      /\ saved.lastBundle \in Nat \cup {None}
      /\ \A p \in Runs : run[p].state.lastBundle \in Nat \cup {None}
      /\ \A p \in Runs : pub[p].version \in Nat
  BY ProcsAssumption
     DEF PublishInv, TypeInv, TypeOK, RegistryTypeOK, RetrainState, RunLocals, PublishLocals
<1>2. \A v \in Nat \cup {None} : Behind(v) => Behind(v)'
  BY BehindStays
<1> USE DEF StateInv, Flipped
<1>3. ASSUME NEW p \in Runs, RetrainStep(p) \/ PipelineError(p)
      PROVE  StateInv'
  <2> USE DEF Goto
  <2>1. latest' = latest
    BY <1>1, <1>3, RetrainTypes
  <2>2. CASE Evaluate(p)
    BY <1>1, <2>1, <2>2 DEF Evaluate, NoRun, RunLocals, Behind
  <2>3. CASE AcquireLock(p)
    BY <1>1, <2>1, <2>3 DEF AcquireLock, RunLocals, Behind
  <2>4. CASE StampLock(p) \/ ReadIncumbent(p)
    <3>1. CASE StampLock(p)
      BY <1>1, <2>1, <3>1 DEF StampLock, Behind
    <3>2. CASE ReadIncumbent(p)
      BY <1>1, <2>1, <3>2 DEF ReadIncumbent, RunLocals, Behind
    <3> QED BY <2>4, <3>1, <3>2
  <2>5. CASE TrainRegime(p) \/ VetMap(p) \/ VetWeights(p)
    <3>1. CASE TrainRegime(p)
      BY <1>1, <2>1, <3>1 DEF TrainRegime, RunLocals, Behind
    <3>2. CASE VetMap(p)
      BY <1>1, <2>1, <3>2 DEF VetMap, RunLocals, Behind
    <3>3. CASE VetWeights(p)
      BY <1>1, <2>1, <3>3 DEF VetWeights, RunLocals, Behind
    <3> QED BY <2>5, <3>1, <3>2, <3>3
  <2>6. CASE ApplyGates(p) \/ PipelineError(p)
    BY <1>1, <2>1, <2>6 DEF ApplyGates, PipelineError, PipelineSteps, RunLocals, Behind
  <2>7. CASE PublishReturns(p)
    BY <1>1, <2>1, <2>7 DEF PublishReturns, PublishEnds, RunLocals, Behind
  <2>8. CASE ReleaseLock(p)
    <3>1. CASE run[p].outcome = "raised"
      BY <1>1, <2>1, <2>8, <3>1 DEF ReleaseLock, NoRun, NoState, Behind
    <3>2. CASE run[p].outcome # "raised"
      BY <1>1, <2>1, <2>8, <3>2 DEF ReleaseLock, Behind
    <3> QED BY <3>1, <3>2
  <2>9. CASE SaveState(p) \/ AbortRun(p)
    BY <1>1, <2>1, <2>9 DEF SaveState, AbortRun, NoRun, NoState, Behind
  <2> QED BY <1>3, <2>2, <2>3, <2>4, <2>5, <2>6, <2>7, <2>8, <2>9 DEF RetrainStep
<1>4. ASSUME NEW p \in Runs, Publishing(p)
      PROVE  StateInv'
  <2>1. /\ UNCHANGED <<saved, run>>
        /\ PublishStep(p) \/ PublishFault(p)
        /\ pc[p] \in PublishSteps
        /\ pc'[p] \in PublishSteps \cup PublishEnds
        /\ \A q \in Runs \ {p} : pc'[q] = pc[q]
    BY <1>1, <1>4, PublishMoves DEF Publishing
  <2>2. \A q \in Runs \ {p} : pub'[q] = pub[q]
    BY <1>1, <2>1, PublishOwnLocals
  <2>3. Flipped(p)' => Behind(pub[p].version)' /\ pub'[p].version = pub[p].version
    <3> USE DEF Goto, PublishSteps, PublishEnds
    <3>1. CASE Flip(p)
      <4>1. latest' # None
        BY <1>1, <2>1, <3>1, FlipMakesLive, PublishMoves
           DEF PublishInv, LockedInv, HoldsLock, LockedSteps
      <4> QED BY <1>1, <3>1, <4>1 DEF Flip, Behind
    <3>2. CASE ListVersions(p) \/ TrimVersion(p)
      BY <1>1, <1>2, <3>2 DEF ListVersions, TrimVersion, PublishLocals
    <3>3. CASE Guard(p) \/ Hash(p) \/ Rehash(p)
      BY <1>1, <3>3 DEF Guard, Hash, Rehash
    <3>4. CASE Put(p) \/ Verify(p) \/ Cleanup(p) \/ PublishFault(p)
      BY <1>1, <3>4 DEF Put, Verify, Cleanup, PublishFault, RefuseSecret, UploadError, LateError
    <3> QED BY <2>1, <3>1, <3>2, <3>3, <3>4 DEF PublishStep
  <2>4. \A q \in Runs \ {p} : Flipped(q)' => Behind(pub[q].version)'
    BY <1>1, <1>2, <2>1, <2>2 DEF Behind
  <2>5. Behind(saved.lastBundle)' /\ \A q \in Runs : Behind(run[q].state.lastBundle)'
    BY <1>1, <1>2, <2>1 DEF Behind
  <2> QED BY <2>3, <2>4, <2>5
<1>5. ASSUME NEW p \in Runs, StopHere(p)
      PROVE  StateInv'
  BY <1>1, <1>5 DEF StopHere, Goto, NoRun, NoState, Behind
<1>6. CASE Tick \/ ClearStaleLock \/ UNCHANGED vars
  BY <1>6 DEF Tick, ClearStaleLock, vars, Behind
<1>7. ASSUME NEW p \in Runs, ManualPublish(p) \/ ManualReturns(p)
      PROVE  FALSE
  BY <1>7 DEF ManualPublish, ManualReturns
<1> QED BY <1>1, <1>3, <1>4, <1>5, <1>6, <1>7 DEF Next, Crash, FileError

(* retrain_state.json never names a bundle newer than the live one, though *)
(* it is written after the lock is gone, from a dict that was read before  *)
(* the lock was taken and that another run may have overtaken.             *)
THEOREM StateFileBehind ==
  ASSUME Operators = {}
  PROVE  Spec => []StateBehindPointer
<1>1. Init => StateInv
  BY ProcsAssumption DEF Init, RegistryInit, StateInv, Flipped, Behind, NoState, NoRun
<1>2. PublishInv /\ [Next]_vars => PublishInv'
  BY NextPublishInv
<1>3. PublishInv /\ StateInv /\ [Next]_vars => StateInv'
  BY NextStateInv
<1>4. StateInv => StateBehindPointer
  BY DEF StateInv, Behind, StateBehindPointer
<1> QED BY <1>1, <1>2, <1>3, <1>4, InitPublishInv, PTL DEF Spec

(***************************************************************************)
(* Refinement                                                              *)
(***************************************************************************)

(* The candidate that is live is the one its vetted metadata records.      *)
LEMMA LiveCandidateKnown ==
  ASSUME LiveBundleComplete, LiveBundleVetted, latest # None
  PROVE  /\ LiveCandidate \in Candidates
         /\ latest.metadata.accuracy = LiveCandidate.accuracy
         /\ Deployable(LiveCandidate)
<1>1. PICK c \in Candidates :
        /\ Deployable(c)
        /\ latest.metadata.accuracy = c.accuracy
        /\ \A f \in Sources : latest.metadata.sums[f] = c
  BY DEF LiveBundleVetted
<1>2. latest.metadata.sums[Hmm] = c
  BY <1>1 DEF Sources
<1>3. LiveCandidate = c
  BY <1>1, <1>2 DEF LiveCandidate
<1> QED BY <1>1, <1>2, <1>3

(* The code's storage, lock and processes implement the abstract catalog:  *)
(* the live model changes only by promoting a whole deployable candidate   *)
(* that is at least as accurate as the one it replaces.                    *)
THEOREM RefinesCatalog ==
  ASSUME Operators = {}
  PROVE  Spec => ImplementsCatalog
<1>1. PublishInv /\ [Next]_vars => PublishInv'
  BY NextPublishInv
<1>2. Init => Catalog!CatalogInit
  BY DEF Init, RegistryInit, Catalog!CatalogInit, LiveCandidate
<1>3. PublishInv /\ [Next]_vars => [Catalog!Promote]_LiveCandidate
  <2> SUFFICES ASSUME PublishInv, [Next]_vars
               PROVE  LiveCandidate' = LiveCandidate \/ Catalog!Promote
    OBVIOUS
  <2>1. PublishInv'
    BY <1>1
  <2>2. CASE latest' = latest
    <3>1. LiveBundleComplete /\ LiveBundleComplete'
      BY <2>1 DEF PublishInv
    <3> QED BY <2>2, <3>1 DEF LiveCandidate
  <2>3. CASE latest' # latest
    <3>1. PICK p \in Runs : Flip(p) /\ RunInv(p)
      BY <2>3, OnlyFlips
    <3> DEFINE c == run[p].candidate
    <3>2. /\ c \in Candidates
          /\ Deployable(c)
          /\ LiveCandidate' = c
      <4>1. /\ latest' # None
            /\ LiveBundleComplete'
            /\ c \in Candidates
            /\ Deployable(c)
            /\ \A f \in Sources : latest'.metadata.sums[f] = c
        BY <3>1, FlipMakesLive DEF PublishInv
      <4>2. latest'.metadata.sums[Hmm] = c
        BY <4>1 DEF Sources
      <4> QED BY <4>1, <4>2 DEF LiveCandidate
    <3>3. LiveCandidate # None => c.accuracy >= LiveCandidate.accuracy
      <4>1. CASE latest = None
        BY <4>1 DEF LiveCandidate
      <4>2. CASE latest # None
        <5>1. /\ LiveCandidate \in Candidates
              /\ run[p].incumbent = LiveCandidate.accuracy
          BY <3>1, <4>2, LiveCandidateKnown
             DEF PublishInv, Flip, RunInv, IncumbentCurrent, BeforeFlip, Versioned
        <5>2. BeatsIncumbent(c, run[p].incumbent)
          BY <3>1 DEF Flip, RunInv, CandidateInv, CandidateGated, PublishSteps, BeforeFlip,
             Versioned
        <5>3. LiveCandidate.accuracy # None
          <6>1. Deployable(LiveCandidate)
            BY <4>2, LiveCandidateKnown DEF PublishInv
          <6> QED BY <6>1 DEF Deployable, AbsoluteGates, AccuracyOK
        <5> QED BY <5>1, <5>2, <5>3 DEF BeatsIncumbent
      <4> QED BY <4>1, <4>2
    <3>4. Catalog!Deployable(c)
      BY <3>2 DEF Deployable, AbsoluteGates, AccuracyOK, UpliftOK, AccuracyFloor, MinUplift,
         Catalog!Deployable, Catalog!AbsoluteGates, Catalog!AccuracyOK, Catalog!UpliftOK,
         Catalog!AccuracyFloor, Catalog!MinUplift
    <3> QED BY <3>2, <3>3, <3>4 DEF Catalog!Promote
  <2> QED BY <2>2, <2>3
<1> QED BY <1>1, <1>2, <1>3, InitPublishInv, PTL
       DEF Spec, ImplementsCatalog, Catalog!CatalogSpec

(***************************************************************************)
(* Publishing by hand beside the orchestrator                              *)
(*                                                                         *)
(* From here on operators may publish too, each publish in a second of its *)
(* own (SameSecond = FALSE).  A bundle is lost under the pointer only when *)
(* it is crowded out: enough newer versions are stored that no failing     *)
(* upload will take away.                                                  *)
(***************************************************************************)
Uploading == {"put", "verify", "cleanup"}

(* Versions a failing publish may still delete.                            *)
Unsettled == {pub[p].version : p \in {q \in Procs : pc[q] \in Uploading}}

SettledAfter(v) == {w \in Versions \ Unsettled : w > v}

Crowded(v) == Cardinality(SettledAfter(v)) + Cardinality(Operators) >= Retain

(* No two publishes share a version, and none shares the live one's.       *)
VersionsOwned ==
  /\ 0 < clock
  /\ \A p, q \in Procs :
       p # q /\ pub[p].version = pub[q].version => pub[p].version = 0
  /\ \A p \in Procs : pc[p] \in Versioned =>
       /\ 0 < pub[p].version /\ pub[p].version <= clock
       /\ latest # None => latest.version # pub[p].version
       /\ pc[p] \in {"hash", "rehash"} => Bundle(pub[p].version) = {}

(* What a trim is going to delete was crowded out when it was listed, and  *)
(* still is.                                                               *)
StaleCrowded == \A p \in Procs : \A v \in pub[p].stale : Crowded(v)

(* What a publish has verified is stored, unless it was crowded out.       *)
UploadKept ==
  \A p \in Procs, f \in Files :
    pc[p] = "flip" \/ (pc[p] = "verify" /\ f < pub[p].file) =>
      \/ Holds(pub[p].version, f, ExpectedBlob(p, f))
      \/ Crowded(pub[p].version)

(* So is what is live.                                                     *)
LiveKept ==
  latest # None =>
    \/ \A f \in Files : Exists(latest.version, f)
    \/ Crowded(latest.version)

(* The serializer's command line hands publish() no accuracy.              *)
OperatorsUnmeasured == \A p \in Operators : pub[p].accuracy = None

LockedCandidate == \A p \in Runs : HoldsLock(p) => CandidateInv(p)

(* A live accuracy was measured behind the gates.                          *)
MeasuredVetted ==
  latest # None /\ latest.metadata.accuracy # None =>
    /\ LiveBundleVetted
    /\ LiveBundleComplete \/ Crowded(latest.version)

ManualInv ==
  /\ TypeInv /\ StoreInv /\ VersionsOwned /\ StaleCrowded /\ UploadKept
  /\ LiveKept /\ OperatorsUnmeasured /\ LockedCandidate /\ MeasuredVetted

(***************************************************************************)
(* Crowded versions stay crowded                                           *)
(***************************************************************************)

(* The versions in the store are finitely many seconds of the past.        *)
LEMMA VersionsFinite ==
  ASSUME TypeInv, StoreInv
  PROVE  /\ IsFiniteSet(Versions)
         /\ \A v \in Versions : v \in Nat /\ v <= clock
<1>1. Versions \in SUBSET Nat /\ \A v \in Versions : v <= clock
  BY DEF TypeInv, TypeOK, RegistryTypeOK, Object, StoreInv, Versions
<1>2. clock \in Nat
  BY DEF TypeInv, TypeOK, RegistryTypeOK
<1> QED BY <1>1, <1>2, FS_BoundedSetOfNaturals

(* So are those that count against a bundle.                               *)
LEMMA SettledFinite ==
  ASSUME TypeInv, StoreInv, NEW v
  PROVE  IsFiniteSet(SettledAfter(v)) /\ Cardinality(SettledAfter(v)) \in Nat
<1>1. SettledAfter(v) \in SUBSET Versions
  BY DEF SettledAfter
<1> QED BY <1>1, VersionsFinite, FS_Subset, FS_CardinalityType

(* A step that deletes nothing, and lets no publish begin to upload into a *)
(* version that is stored, settles versions and unsettles none.            *)
LEMMA SettledGrows ==
  ASSUME objects \subseteq objects',
         \A q \in Procs : pc'[q] \in Uploading =>
           \/ pc[q] \in Uploading /\ pub'[q].version = pub[q].version
           \/ Bundle(pub'[q].version) = {}
  PROVE  Versions \ Unsettled \subseteq (Versions \ Unsettled)'
<1> SUFFICES ASSUME NEW v \in Versions, v \notin Unsettled
             PROVE  v \in Versions' /\ v \notin Unsettled'
  OBVIOUS
<1>1. v \in Versions'
  BY DEF Versions
<1>2. ASSUME NEW q \in Procs, pc'[q] \in Uploading, pub'[q].version = v
      PROVE  FALSE
  <2>1. Bundle(v) # {}
    BY DEF Versions, Bundle
  <2> QED BY <1>2, <2>1 DEF Unsettled
<1> QED BY <1>1, <1>2 DEF Unsettled

(* The two steps that delete: a failed publish takes away only its own     *)
(* upload, which never counted; a trim takes away one version.             *)
LEMMA CleanupSettles ==
  ASSUME NEW p \in Procs, Cleanup(p), pc \in [Procs -> Steps]
  PROVE  Versions \ Unsettled \subseteq (Versions \ Unsettled)'
<1> SUFFICES ASSUME NEW v \in Versions, v \notin Unsettled
             PROVE  v \in Versions' /\ v \notin Unsettled'
  OBVIOUS
<1>1. v # pub[p].version
  BY DEF Unsettled, Uploading, Cleanup
<1>2. v \in Versions'
  BY <1>1 DEF Versions, Cleanup, DeletePrefix, Bundle
<1>3. v \notin Unsettled'
  BY DEF Unsettled, Uploading, Cleanup, Goto
<1> QED BY <1>2, <1>3

LEMMA TrimTakesOne ==
  ASSUME NEW p \in Procs, TrimVersion(p), pc \in [Procs -> Steps],
         pub \in [Procs -> PublishLocals]
  PROVE  \/ Versions \ Unsettled \subseteq (Versions \ Unsettled)'
         \/ \E w \in pub[p].stale :
              (Versions \ Unsettled) \ {w} \subseteq (Versions \ Unsettled)'
<1>1. \A q \in Procs : pub'[q].version = pub[q].version
  BY DEF TrimVersion, PublishLocals
<1>2. \A q \in Procs : pc'[q] \in Uploading => pc[q] \in Uploading
  BY DEF TrimVersion, Goto, Uploading
<1>3. Unsettled' \subseteq Unsettled
  BY <1>1, <1>2 DEF Unsettled
<1>4. CASE UNCHANGED objects
  <2>1. Versions' = Versions
    BY <1>4 DEF Versions
  <2> QED BY <1>3, <2>1
<1>5. CASE objects' # objects
  <2>1. PICK w \in pub[p].stale : DeletePrefix(w)
    BY <1>5 DEF TrimVersion
  <2>2. Versions \ {w} \subseteq Versions'
    BY <2>1 DEF DeletePrefix, Bundle, Versions
  <2> QED BY <1>3, <2>1, <2>2
<1> QED BY <1>4, <1>5

(* While somebody lists the versions, at most as many uploads are under    *)
(* way as there are operators: single flight allows one run, and whoever   *)
(* lists is not uploading.                                                 *)
LEMMA UploadsFew ==
  ASSUME TypeInv, IsFiniteSet(Operators), NEW p \in Procs, pc[p] = "list"
  PROVE  IsFiniteSet(Unsettled) /\ Cardinality(Unsettled) <= Cardinality(Operators)
<1> DEFINE U == {q \in Procs : pc[q] \in Uploading}
           version == [q \in U |-> pub[q].version]
<1>1. IsFiniteSet(U) /\ Cardinality(U) <= Cardinality(Operators)
  <2>1. \A q \in U : q \in Runs => HoldsLock(q) /\ q # p
    BY DEF HoldsLock, LockedSteps, PublishSteps, Uploading
  <2>2. CASE p \in Runs
    <3>1. HoldsLock(p)
      BY <2>2 DEF HoldsLock, LockedSteps, PublishSteps
    <3>2. U \in SUBSET Operators
      BY <2>1, <2>2, <3>1, ProcsAssumption, OneInside
    <3> QED BY <3>2, FS_Subset
  <2>3. CASE p \in Operators
    <3> DEFINE Others == Operators \ {p}
    <3>1. /\ IsFiniteSet(Others)
          /\ Cardinality(Others) = Cardinality(Operators) - 1
      BY <2>3, FS_RemoveElement
    <3>2. /\ IsFiniteSet(Others \cup {lock})
          /\ Cardinality(Others \cup {lock}) <= Cardinality(Others) + 1
      <4> HIDE DEF Others
      <4>1. Cardinality(Others) \in Nat
        BY <3>1, FS_CardinalityType
      <4>2. /\ IsFiniteSet(Others \cup {lock})
            /\ Cardinality(Others \cup {lock}) =
                 IF lock \in Others THEN Cardinality(Others) ELSE Cardinality(Others) + 1
        BY <3>1, FS_AddElement
      <4> QED BY <4>1, <4>2
    <3>3. U \in SUBSET (Others \cup {lock})
      <4>1. p \notin U
        BY DEF Uploading
      <4>2. \A q \in U : q \in Runs => lock = q
        BY <2>1 DEF TypeInv, LockOwned
      <4> QED BY <4>1, <4>2, ProcsAssumption
    <3> HIDE DEF Others, U
    <3> QED BY <3>1, <3>2, <3>3, FS_Subset, FS_CardinalityType
  <2> QED BY <2>2, <2>3, ProcsAssumption
<1>2. version \in Surjection(U, Unsettled)
  BY DEF Surjection, Unsettled
<1>3. IsFiniteSet(Unsettled) /\ Cardinality(Unsettled) <= Cardinality(U)
  <2> HIDE DEF version, U
  <2> QED BY <1>1, <1>2, FS_Surjection
<1>4. Cardinality(U) \in Nat /\ Cardinality(Unsettled) \in Nat /\ Cardinality(Operators) \in Nat
  <2> HIDE DEF U
  <2> QED BY <1>1, <1>3, FS_CardinalityType
<1> QED BY <1>1, <1>3, <1>4

(* What a trim finds stale is crowded out.                                 *)
LEMMA ListedCrowded ==
  ASSUME TypeInv, StoreInv, IsFiniteSet(Operators),
         NEW p \in Procs, pc[p] = "list", NEW v \in StaleVersions
  PROVE  Crowded(v)
<1> DEFINE Newer == {w \in Versions : w > v}
<1>1. IsFiniteSet(Newer) /\ Cardinality(Newer) >= Retain
  <2>1. Newer \in SUBSET Versions
    OBVIOUS
  <2>2. IsFiniteSet(Newer)
    <3> HIDE DEF Newer
    <3> QED BY <2>1, VersionsFinite, FS_Subset
  <2> QED BY <2>2 DEF StaleVersions
<1>2. SettledAfter(v) = Newer \ Unsettled
  BY DEF SettledAfter
<1> HIDE DEF Newer
<1>3. Cardinality(Newer \ Unsettled) = Cardinality(Newer) - Cardinality(Newer \cap Unsettled)
  BY <1>1, FS_Difference
<1>4. /\ Cardinality(Newer \cap Unsettled) <= Cardinality(Unsettled)
      /\ IsFiniteSet(Newer \cap Unsettled)
  BY UploadsFew, FS_Subset
<1>5. Cardinality(Unsettled) <= Cardinality(Operators) /\ IsFiniteSet(Unsettled)
  BY UploadsFew
<1>6. /\ Cardinality(Newer) \in Nat
      /\ Cardinality(Newer \cap Unsettled) \in Nat
      /\ Cardinality(Unsettled) \in Nat
      /\ Cardinality(Operators) \in Nat
      /\ Retain \in Nat
  BY <1>1, <1>4, <1>5, FS_CardinalityType, RetainAssumption
<1> QED BY <1>1, <1>2, <1>3, <1>4, <1>5, <1>6 DEF Crowded

(***************************************************************************)
(* The steps of publish(), whoever publishes                               *)
(***************************************************************************)

(* A publish uploads into a version only after it took that version while  *)
(* nothing was stored under it.                                            *)
LEMMA PublishSettles ==
  ASSUME ManualInv, NEW p \in Procs, PublishStep(p) \/ PublishFault(p), ~TrimVersion(p)
  PROVE  Versions \ Unsettled \subseteq (Versions \ Unsettled)'
<1>1. /\ pc \in [Procs -> Steps]
      /\ pub \in [Procs -> PublishLocals]
      /\ pc' \in [Procs -> Steps]
      /\ \A q \in Procs \ {p} : pc'[q] = pc[q]
      /\ \A q \in Procs \ {p} : pub'[q] = pub[q]
  <2>1. pc \in [Procs -> Steps] /\ pub \in [Procs -> PublishLocals]
    BY DEF ManualInv, TypeInv, TypeOK, RegistryTypeOK
  <2> QED BY <2>1, PublishMoves, PublishOwnLocals
<1> USE DEF Uploading, Goto, PublishLocals
<1>2. CASE Cleanup(p)
  BY <1>1, <1>2, CleanupSettles
<1>3. CASE Rehash(p)
  <2>1. objects' = objects /\ pub'[p].version = pub[p].version
    BY <1>1, <1>3 DEF Rehash
  <2>2. Bundle(pub[p].version) = {}
    BY <1>3 DEF Rehash, ManualInv, VersionsOwned, Versioned
  <2> QED BY <1>1, <2>1, <2>2, SettledGrows
<1>4. CASE Put(p) \/ Verify(p) \/ UploadError(p)
  <2>1. objects \subseteq objects'
    BY <1>4 DEF Put, PutObject, Verify, UploadError
  <2>2. pc[p] \in Uploading /\ pub'[p].version = pub[p].version
    BY <1>1, <1>4 DEF Put, Verify, UploadError
  <2> QED BY <1>1, <2>1, <2>2, SettledGrows
<1>5. CASE Guard(p) \/ Hash(p) \/ RefuseSecret(p) \/ Flip(p) \/ ListVersions(p) \/ LateError(p)
  <2>1. objects' = objects
    BY <1>5 DEF Guard, Hash, RefuseSecret, Flip, ListVersions, LateError
  <2>2. pc'[p] \notin Uploading
    BY <1>1, <1>5 DEF Guard, Hash, RefuseSecret, Flip, ListVersions, LateError
  <2> QED BY <1>1, <2>1, <2>2, SettledGrows
<1> QED BY <1>2, <1>3, <1>4, <1>5 DEF PublishStep, PublishFault

(* No step other than publish() touches the store or starts an upload.     *)
LEMMA OthersSettle ==
  ASSUME ManualInv, [Next]_vars, \A p \in Procs : ~Publishing(p)
  PROVE  Versions \ Unsettled \subseteq (Versions \ Unsettled)'
<1>1. /\ pc \in [Procs -> Steps]
      /\ pub \in [Procs -> PublishLocals]
      /\ TypeInv
  BY DEF ManualInv, TypeInv, TypeOK, RegistryTypeOK
<1> SUFFICES /\ objects' = objects
             /\ \A q \in Procs : pc'[q] \in Uploading =>
                  pc[q] \in Uploading /\ pub'[q].version = pub[q].version
  BY SettledGrows
<1> USE DEF Uploading, Goto
<1>2. ASSUME NEW p \in Procs, RetrainStep(p) \/ PipelineError(p)
      PROVE  /\ objects' = objects
             /\ \A q \in Procs : pc'[q] \in Uploading =>
                  pc[q] \in Uploading /\ pub'[q].version = pub[q].version
  <2>1. objects' = objects
    BY <1>1, <1>2, RetrainTypes
  <2>2. CASE Evaluate(p) \/ AcquireLock(p) \/ AbortRun(p) \/ StampLock(p) \/ ReadIncumbent(p)
    BY <1>1, <2>1, <2>2 DEF Evaluate, AcquireLock, AbortRun, StampLock, ReadIncumbent
  <2>3. CASE TrainRegime(p) \/ VetMap(p) \/ VetWeights(p) \/ PipelineError(p)
    BY <1>1, <2>1, <2>3 DEF TrainRegime, VetMap, VetWeights, PipelineError
  <2>4. CASE ApplyGates(p) \/ PublishReturns(p) \/ ReleaseLock(p) \/ SaveState(p)
    BY <1>1, <2>1, <2>4 DEF ApplyGates, PublishReturns, ReleaseLock, SaveState
  <2> QED BY <1>2, <2>2, <2>3, <2>4 DEF RetrainStep
<1>3. ASSUME NEW p \in Procs, ManualPublish(p) \/ ManualReturns(p) \/ StopHere(p)
      PROVE  /\ objects' = objects
             /\ \A q \in Procs : pc'[q] \in Uploading =>
                  pc[q] \in Uploading /\ pub'[q].version = pub[q].version
  BY <1>1, <1>3 DEF ManualPublish, ManualReturns, StopHere
<1>4. CASE Tick \/ ClearStaleLock \/ UNCHANGED vars
  BY <1>4 DEF Tick, ClearStaleLock, vars
<1> QED BY <1>2, <1>3, <1>4 DEF Next, Crash, FileError

(***************************************************************************)
(* The invariant is inductive                                              *)
(***************************************************************************)

(* The clock never goes back.                                              *)
LEMMA ClockForward ==
  ASSUME TypeInv, [Next]_vars
  PROVE  clock \in Nat /\ clock' \in Nat /\ clock <= clock'
<1>1. clock \in Nat /\ clock' \in Nat
  BY NextTypeInv DEF TypeInv, TypeOK, RegistryTypeOK
<1>2. ASSUME NEW p \in Procs, RetrainStep(p) \/ PipelineError(p)
      PROVE  clock <= clock'
  <2>1. CASE VetMap(p)
    BY <1>1, <2>1 DEF VetMap
  <2>2. CASE ~VetMap(p)
    <3>1. clock' = clock
      <4>1. CASE Evaluate(p) \/ AcquireLock(p) \/ AbortRun(p) \/ StampLock(p) \/ ReadIncumbent(p)
        BY <4>1 DEF Evaluate, AcquireLock, AbortRun, StampLock, ReadIncumbent
      <4>2. CASE TrainRegime(p) \/ VetWeights(p) \/ ApplyGates(p) \/ PipelineError(p)
        BY <4>2 DEF TrainRegime, VetWeights, ApplyGates, PipelineError
      <4>3. CASE PublishReturns(p) \/ ReleaseLock(p) \/ SaveState(p)
        BY <4>3 DEF PublishReturns, ReleaseLock, SaveState
      <4> QED BY <1>2, <2>2, <4>1, <4>2, <4>3 DEF RetrainStep
    <3> QED BY <1>1, <3>1
  <2> QED BY <2>1, <2>2
<1>3. ASSUME NEW p \in Procs, Publishing(p)
      PROVE  clock <= clock'
  BY <1>1, <1>3, PublishMoves DEF Publishing, TypeInv, TypeOK, RegistryTypeOK
<1>4. ASSUME NEW p \in Procs, ManualPublish(p) \/ ManualReturns(p) \/ StopHere(p)
      PROVE  clock <= clock'
  BY <1>1, <1>4 DEF ManualPublish, ManualReturns, StopHere
<1>5. CASE Tick \/ ClearStaleLock \/ UNCHANGED vars
  BY <1>1, <1>5 DEF Tick, ClearStaleLock, vars
<1> QED BY <1>1, <1>2, <1>3, <1>4, <1>5 DEF Next, Crash, FileError

(* What the steps outside publish() do to the registry: nothing, but that  *)
(* a run or operator that begins or ends a publish resets its locals.      *)
LEMMA OutsidePublish ==
  ASSUME TypeInv, [Next]_vars, \A p \in Procs : ~Publishing(p)
  PROVE  /\ UNCHANGED <<objects, latest>>
         /\ \A q \in Procs :
              \/ pc'[q] = pc[q] /\ pub'[q] = pub[q]
              \/ /\ pc'[q] \notin Versioned \cup {"list", "trim"}
                 /\ pub'[q] \in {pub[q], NoPublish}
              \/ /\ q \in Runs /\ pc'[q] = "guard"
                 /\ pub'[q].version = 0 /\ pub'[q].stale = {}
<1>1. /\ pc \in [Procs -> Steps]
      /\ pub \in [Procs -> PublishLocals]
  BY DEF TypeInv, TypeOK, RegistryTypeOK
<1> USE DEF Goto, Versioned, PublishSteps, PublishEnds, PipelineSteps
<1>2. ASSUME NEW p \in Procs, RetrainStep(p) \/ PipelineError(p)
      PROVE  /\ UNCHANGED <<objects, latest>>
             /\ \A q \in Procs \ {p} : pc'[q] = pc[q] /\ pub'[q] = pub[q]
             /\ \/ /\ pc'[p] \notin Versioned \cup {"list", "trim"}
                   /\ pub'[p] \in {pub[p], NoPublish}
                \/ /\ p \in Runs /\ pc'[p] = "guard"
                   /\ pub'[p].version = 0 /\ pub'[p].stale = {}
  <2>1. UNCHANGED <<objects, latest>>
    BY <1>1, <1>2, RetrainTypes
  <2>2. CASE Evaluate(p) \/ AcquireLock(p) \/ AbortRun(p) \/ StampLock(p) \/ ReadIncumbent(p)
    BY <1>1, <2>1, <2>2 DEF Evaluate, AcquireLock, AbortRun, StampLock, ReadIncumbent
  <2>3. CASE TrainRegime(p) \/ VetMap(p) \/ VetWeights(p) \/ PipelineError(p)
    BY <1>1, <2>1, <2>3 DEF TrainRegime, VetMap, VetWeights, PipelineError
  <2>4. CASE ApplyGates(p)
    BY <1>1, <2>1, <2>4, CandidateAtHand DEF ApplyGates, NoPublish
  <2>5. CASE PublishReturns(p) \/ ReleaseLock(p) \/ SaveState(p)
    BY <1>1, <2>1, <2>5 DEF PublishReturns, ReleaseLock, SaveState
  <2> QED BY <1>2, <2>2, <2>3, <2>4, <2>5 DEF RetrainStep
<1>3. ASSUME NEW p \in Procs, ManualPublish(p) \/ ManualReturns(p) \/ StopHere(p)
      PROVE  /\ UNCHANGED <<objects, latest>>
             /\ \A q \in Procs \ {p} : pc'[q] = pc[q] /\ pub'[q] = pub[q]
             /\ pc'[p] \notin Versioned \cup {"list", "trim"}
             /\ pub'[p] \in {pub[p], NoPublish}
  BY <1>1, <1>3 DEF ManualPublish, ManualReturns, StopHere
<1>4. CASE Tick \/ ClearStaleLock \/ UNCHANGED vars
  BY <1>4 DEF Tick, ClearStaleLock, vars
<1> QED BY <1>2, <1>3, <1>4 DEF Next, Crash, FileError

(* The store keeps its invariant, with operators too.                      *)
LEMMA NextStoreInv ==
  ASSUME ManualInv, [Next]_vars
  PROVE  StoreInv'
<1>1. TypeInv /\ StoreInv
  BY DEF ManualInv
<1>2. ASSUME NEW p \in Procs, Publishing(p)
      PROVE  StoreInv'
  BY <1>1, <1>2, PublishKeepsStore DEF Publishing, ManualInv, VersionsOwned, Versioned
<1>3. CASE \A p \in Procs : ~Publishing(p)
  <2>1. \A o \in objects : o.version \in Nat
    BY <1>1 DEF TypeInv, TypeOK, RegistryTypeOK, Object
  <2> QED BY <1>1, <1>3, <2>1, OutsidePublish, ClockForward DEF StoreInv
<1> QED BY <1>2, <1>3

(* Once crowded out, always crowded out: a version that counts is deleted  *)
(* only by a trim, and then it was crowded out itself by versions that     *)
(* count here as well.                                                     *)
LEMMA CrowdedStays ==
  ASSUME ManualInv, [Next]_vars, IsFiniteSet(Operators), NEW v \in Nat, Crowded(v)
  PROVE  Crowded(v)'
<1>1. TypeInv /\ StoreInv /\ TypeInv' /\ StoreInv'
  BY NextTypeInv, NextStoreInv DEF ManualInv
<1>2. /\ IsFiniteSet(SettledAfter(v)')
      /\ Cardinality(SettledAfter(v)') \in Nat
      /\ Cardinality(Operators) \in Nat
      /\ Retain \in Nat
  <2>1. IsFiniteSet(Versions')
    <3>1. Versions' \in SUBSET Nat /\ \A x \in Versions' : x <= clock'
      BY <1>1 DEF TypeInv, TypeOK, RegistryTypeOK, Object, StoreInv, Versions
    <3>2. clock' \in Nat
      BY <1>1 DEF TypeInv, TypeOK, RegistryTypeOK
    <3> QED BY <3>1, <3>2, FS_BoundedSetOfNaturals
  <2>2. SettledAfter(v)' \in SUBSET Versions'
    BY DEF SettledAfter
  <2> QED BY <2>1, <2>2, FS_Subset, FS_CardinalityType, RetainAssumption
<1>3. ASSUME NEW w \in Nat, Crowded(w), SettledAfter(w) \subseteq SettledAfter(v)'
      PROVE  Crowded(v)'
  <2>1. Cardinality(SettledAfter(w)) <= Cardinality(SettledAfter(v)')
    BY <1>2, <1>3, FS_Subset
  <2>2. Cardinality(SettledAfter(w)) \in Nat
    BY <1>1, SettledFinite
  <2> QED BY <1>2, <1>3, <2>1, <2>2 DEF Crowded
<1>4. ASSUME Versions \ Unsettled \subseteq (Versions \ Unsettled)'
      PROVE  Crowded(v)'
  BY <1>3, <1>4 DEF SettledAfter
<1>5. ASSUME NEW p \in Procs, Publishing(p), TrimVersion(p)
      PROVE  Crowded(v)'
  <2>1. pc \in [Procs -> Steps] /\ pub \in [Procs -> PublishLocals]
    BY <1>1 DEF TypeInv, TypeOK, RegistryTypeOK
  <2>2. ASSUME NEW w \in pub[p].stale,
               (Versions \ Unsettled) \ {w} \subseteq (Versions \ Unsettled)'
        PROVE  Crowded(v)'
    <3>1. w \in Nat /\ Crowded(w)
      BY <2>1 DEF ManualInv, StaleCrowded, PublishLocals
    <3>2. \A x \in Versions : x \in Nat
      BY <1>1, VersionsFinite
    <3>3. CASE w > v
      BY <1>3, <2>2, <3>1, <3>2, <3>3 DEF SettledAfter
    <3>4. CASE ~(w > v)
      BY <1>3, <2>2, <3>1, <3>2, <3>4 DEF SettledAfter
    <3> QED BY <3>3, <3>4
  <2> QED BY <1>4, <1>5, <2>1, <2>2, TrimTakesOne
<1>6. ASSUME NEW p \in Procs, Publishing(p), ~TrimVersion(p)
      PROVE  Crowded(v)'
  BY <1>4, <1>6, PublishSettles DEF Publishing
<1>7. CASE \A p \in Procs : ~Publishing(p)
  BY <1>4, <1>7, OthersSettle
<1> QED BY <1>5, <1>6, <1>7

(* Versions stay apart: a publish takes its version in a second nobody has *)
(* used, and a bundle that is live in that second cannot have been lost.   *)
LEMMA NextVersionsOwned ==
  ASSUME ManualInv, [Next]_vars, ~SameSecond, IsFiniteSet(Operators),
         Cardinality(Operators) < Retain
  PROVE  VersionsOwned'
<1>1. /\ TypeInv /\ StoreInv /\ VersionsOwned
      /\ pc \in [Procs -> Steps]
      /\ pub \in [Procs -> PublishLocals]
      /\ \A q \in Procs : pub[q].version \in Nat
      /\ clock \in Nat /\ clock' \in Nat /\ clock <= clock'
  BY ClockForward DEF ManualInv, TypeInv, TypeOK, RegistryTypeOK, PublishLocals
<1>2. CASE \A p \in Procs : ~Publishing(p)
  <2>1. UNCHANGED <<objects, latest>>
    BY <1>1, <1>2, OutsidePublish
  <2>2. \A q \in Procs :
          \/ pc'[q] = pc[q] /\ pub'[q] = pub[q]
          \/ pc'[q] \notin Versioned /\ (pub'[q] = pub[q] \/ pub'[q].version = 0)
    BY <1>1, <1>2, OutsidePublish DEF NoPublish, Versioned
  <2> QED BY <1>1, <2>1, <2>2 DEF VersionsOwned, Bundle
<1>3. ASSUME NEW p \in Procs, Publishing(p)
      PROVE  VersionsOwned'
  <2>1. /\ FreshVersion(p)
        /\ PublishStep(p) \/ PublishFault(p)
        /\ pc' \in [Procs -> Steps]
        /\ \A q \in Procs \ {p} : pc'[q] = pc[q]
        /\ \A q \in Procs \ {p} : pub'[q] = pub[q]
        /\ clock' = clock
    BY <1>1, <1>3, PublishMoves, PublishOwnLocals DEF Publishing
  <2> USE DEF VersionsOwned, Versioned, Goto, PublishLocals
  <2>2. CASE Guard(p)
    <3>1. CASE InputsOK
      <4>1. /\ Bundle(clock) = {}
            /\ \A q \in Procs \ {p} : pub[q].version # clock
        BY <2>1, <2>2 DEF FreshVersion, Guard
      <4>2. latest # None => latest.version # clock
        <5> SUFFICES ASSUME latest # None, latest.version = clock
                     PROVE  FALSE
          OBVIOUS
        <5>1. ~Exists(clock, Hmm)
          BY <4>1 DEF Exists, Bundle
        <5>2. Crowded(clock)
          BY <5>1 DEF ManualInv, LiveKept, Files, Sources
        <5>3. SettledAfter(clock) = {}
          BY <1>1, VersionsFinite DEF SettledAfter
        <5>4. Cardinality(SettledAfter(clock)) = 0
          BY <5>3, FS_EmptySet
        <5>5. Cardinality(Operators) \in Nat /\ Retain \in Nat
          BY FS_CardinalityType, RetainAssumption
        <5> QED BY <5>2, <5>4, <5>5 DEF Crowded
      <4>3. /\ pub'[p].version = clock
            /\ UNCHANGED <<objects, latest>>
            /\ pc'[p] = "hash"
        BY <1>1, <2>2, <3>1 DEF Guard
      <4> QED BY <1>1, <2>1, <4>1, <4>2, <4>3 DEF Bundle
    <3>2. CASE ~InputsOK
      BY <1>1, <2>1, <2>2, <3>2 DEF Guard, Bundle
    <3> QED BY <3>1, <3>2
  <2>3. CASE Hash(p) \/ Rehash(p)
    <3>1. /\ pub'[p].version = pub[p].version
          /\ UNCHANGED <<objects, latest>>
          /\ pc[p] \in {"hash", "rehash"}
      BY <1>1, <2>3 DEF Hash, Rehash
    <3> QED BY <1>1, <2>1, <3>1 DEF Bundle
  <2>4. CASE Put(p)
    <3>1. /\ pub'[p].version = pub[p].version
          /\ latest' = latest
          /\ pc[p] = "put" /\ pc'[p] \in {"put", "verify", "cleanup"}
      BY <1>1, <2>4 DEF Put
    <3>2. \A o \in objects' : o \in objects \/ o.version = pub[p].version
      BY <2>4 DEF Put, PutObject
    <3> QED BY <1>1, <2>1, <3>1, <3>2 DEF Bundle
  <2>5. CASE Verify(p) \/ Cleanup(p) \/ UploadError(p)
    <3>1. /\ pub'[p].version = pub[p].version
          /\ latest' = latest
          /\ objects' \subseteq objects
          /\ pc[p] \in {"put", "verify", "cleanup"}
          /\ pc'[p] \in {"verify", "cleanup", "flip", "failed"}
      BY <1>1, <2>5 DEF Verify, Cleanup, UploadError, DeletePrefix
    <3> QED BY <1>1, <2>1, <3>1 DEF Bundle
  <2>6. CASE Flip(p)
    <3>1. /\ pub' = pub /\ objects' = objects
          /\ latest'.version = pub[p].version
          /\ pc[p] = "flip" /\ pc'[p] = "list"
      BY <1>1, <2>6 DEF Flip
    <3>2. \A q \in Procs \ {p} : pub[q].version # pub[p].version
      BY <1>1, <3>1
    <3> QED BY <1>1, <2>1, <3>1, <3>2 DEF Bundle
  <2>7. CASE ListVersions(p) \/ TrimVersion(p) \/ LateError(p) \/ RefuseSecret(p)
    <3>1. /\ pub'[p].version = pub[p].version
          /\ latest' = latest
          /\ objects' \subseteq objects
          /\ pc'[p] \notin Versioned
      BY <1>1, <2>7 DEF ListVersions, TrimVersion, LateError, RefuseSecret, DeletePrefix
    <3> QED BY <1>1, <2>1, <3>1 DEF Bundle
  <2> QED BY <2>1, <2>2, <2>3, <2>4, <2>5, <2>6, <2>7 DEF PublishStep, PublishFault
<1> QED BY <1>2, <1>3

(* What is on a list to be deleted is still crowded out.                   *)
LEMMA NextStaleCrowded ==
  ASSUME ManualInv, [Next]_vars, IsFiniteSet(Operators)
  PROVE  StaleCrowded'
<1>1. /\ TypeInv /\ StoreInv /\ StaleCrowded
      /\ pc \in [Procs -> Steps]
      /\ pub \in [Procs -> PublishLocals]
  BY DEF ManualInv, TypeInv, TypeOK, RegistryTypeOK
<1>2. \A v \in Nat : Crowded(v) => Crowded(v)'
  BY CrowdedStays
<1>3. \A q \in Procs : \A v \in pub'[q].stale : v \in Nat /\ Crowded(v)
  <2>1. \A q \in Procs : \A v \in pub[q].stale : v \in Nat /\ Crowded(v)
    BY <1>1 DEF StaleCrowded, PublishLocals
  <2>2. CASE \A p \in Procs : ~Publishing(p)
    <3>1. \A q \in Procs : pub'[q] = pub[q] \/ pub'[q].stale = {}
      BY <1>1, <2>2, OutsidePublish DEF NoPublish
    <3> QED BY <2>1, <3>1
  <2>3. ASSUME NEW p \in Procs, Publishing(p)
        PROVE  \A q \in Procs : \A v \in pub'[q].stale : v \in Nat /\ Crowded(v)
    <3>1. /\ PublishStep(p) \/ PublishFault(p)
          /\ \A q \in Procs \ {p} : pub'[q] = pub[q]
      BY <1>1, <2>3, PublishOwnLocals DEF Publishing
    <3> USE DEF PublishLocals
    <3>2. CASE ListVersions(p)
      <4>1. pub'[p].stale = StaleVersions /\ pc[p] = "list"
        BY <1>1, <3>2 DEF ListVersions
      <4>2. \A v \in StaleVersions : v \in Nat /\ Crowded(v)
        <5>1. StaleVersions \subseteq Versions
          BY DEF StaleVersions
        <5> QED BY <1>1, <4>1, <5>1, VersionsFinite, ListedCrowded
      <4> QED BY <2>1, <3>1, <4>1, <4>2
    <3>3. CASE Guard(p) \/ Hash(p) \/ Rehash(p)
      BY <1>1, <2>1, <3>1, <3>3 DEF Guard, Hash, Rehash
    <3>4. CASE Put(p) \/ Verify(p) \/ Cleanup(p) \/ Flip(p)
      BY <1>1, <2>1, <3>1, <3>4 DEF Put, Verify, Cleanup, Flip
    <3>5. CASE TrimVersion(p) \/ PublishFault(p)
      BY <1>1, <2>1, <3>1, <3>5 DEF TrimVersion, PublishFault, RefuseSecret, UploadError, LateError
    <3> QED BY <3>1, <3>2, <3>3, <3>4, <3>5 DEF PublishStep
  <2> QED BY <2>2, <2>3
<1> QED BY <1>2, <1>3 DEF StaleCrowded

(* An object is lost only to its own failed publish or crowded out.        *)
LEMMA ObjectKept ==
  ASSUME ManualInv, [Next]_vars, IsFiniteSet(Operators), NEW o \in objects,
         \A p \in Procs : pc[p] = "cleanup" => pub[p].version # o.version
  PROVE  o \in objects' \/ Crowded(o.version)'
<1>1. /\ TypeInv
      /\ pc \in [Procs -> Steps]
      /\ pub \in [Procs -> PublishLocals]
  BY DEF ManualInv, TypeInv, TypeOK, RegistryTypeOK
<1>2. CASE \A p \in Procs : ~Publishing(p)
  BY <1>1, <1>2, OutsidePublish
<1>3. ASSUME NEW p \in Procs, Publishing(p)
      PROVE  o \in objects' \/ Crowded(o.version)'
  <2>1. PublishStep(p) \/ PublishFault(p)
    BY <1>3 DEF Publishing
  <2>2. CASE TrimVersion(p)
    <3>1. CASE objects' = objects
      BY <3>1
    <3>2. CASE objects' # objects
      <4>1. PICK w \in pub[p].stale : DeletePrefix(w)
        BY <2>2, <3>2 DEF TrimVersion
      <4>2. w \in Nat /\ Crowded(w)
        BY <1>1 DEF ManualInv, StaleCrowded, PublishLocals
      <4>3. Crowded(w)'
        BY <4>2, CrowdedStays
      <4> QED BY <4>1, <4>3 DEF DeletePrefix, Bundle
    <3> QED BY <3>1, <3>2
  <2>3. CASE Cleanup(p)
    BY <2>3 DEF Cleanup, DeletePrefix, Bundle
  <2>4. CASE Put(p)
    BY <2>4 DEF Put, PutObject
  <2>5. CASE Guard(p) \/ Hash(p) \/ Rehash(p) \/ Verify(p) \/ Flip(p) \/ ListVersions(p)
    BY <2>5 DEF Guard, Hash, Rehash, Verify, Flip, ListVersions
  <2>6. CASE PublishFault(p)
    BY <2>6 DEF PublishFault, RefuseSecret, UploadError, LateError
  <2> QED BY <2>1, <2>2, <2>3, <2>4, <2>5, <2>6 DEF PublishStep
<1> QED BY <1>2, <1>3

(* The same for what somebody holds to be stored under a version that is   *)
(* not being cleaned up.                                                   *)
LEMMA HeldKept ==
  ASSUME ManualInv, [Next]_vars, IsFiniteSet(Operators), NEW v \in Nat, NEW f, NEW b,
         \A p \in Procs : pc[p] = "cleanup" => pub[p].version # v,
         Holds(v, f, b) \/ Crowded(v)
  PROVE  [version |-> v, file |-> f, blob |-> b] \in objects' \/ Crowded(v)'
<1> DEFINE o == [version |-> v, file |-> f, blob |-> b]
<1>1. CASE Crowded(v)
  BY <1>1, CrowdedStays
<1>2. CASE Holds(v, f, b)
  <2>1. o \in objects /\ o.version = v
    BY <1>2 DEF Holds
  <2>2. o \in objects' \/ Crowded(o.version)'
    <3> HIDE DEF o
    <3> QED BY <2>1, ObjectKept
  <2> QED BY <2>1, <2>2 DEF Crowded, SettledAfter
<1> QED BY <1>1, <1>2

(* What a publish verified stays until its flip.                           *)
LEMMA NextUploadKept ==
  ASSUME ManualInv, [Next]_vars, IsFiniteSet(Operators)
  PROVE  UploadKept'
<1>1. /\ TypeInv /\ VersionsOwned /\ UploadKept
      /\ pc \in [Procs -> Steps]
      /\ pub \in [Procs -> PublishLocals]
  BY DEF ManualInv, TypeInv, TypeOK, RegistryTypeOK
<1> DEFINE Verified(q, f) == pc[q] = "flip" \/ (pc[q] = "verify" /\ f < pub[q].file)
           blob(q, f) == ExpectedBlob(q, f)
<1>2. ASSUME NEW q \in Procs, NEW f \in Files, Verified(q, f)'
      PROVE  /\ pc[q] \in {"verify", "flip"}
             /\ pub'[q] = [pub[q] EXCEPT !.file = pub'[q].file]
             /\ \/ Holds(pub[q].version, f, ExpectedBlob(q, f))
                \/ Crowded(pub[q].version)
  <2> USE DEF PublishLocals
  <2>1. CASE \A p \in Procs : ~Publishing(p)
    <3>1. pc'[q] = pc[q] /\ pub'[q] = pub[q]
      BY <1>1, <1>2, <2>1, OutsidePublish DEF Versioned
    <3> QED BY <1>1, <1>2, <3>1 DEF UploadKept
  <2>2. ASSUME NEW p \in Procs, Publishing(p)
        PROVE  /\ pc[q] \in {"verify", "flip"}
               /\ pub'[q] = [pub[q] EXCEPT !.file = pub'[q].file]
               /\ \/ Holds(pub[q].version, f, ExpectedBlob(q, f))
                  \/ Crowded(pub[q].version)
    <3>1. /\ PublishStep(p) \/ PublishFault(p)
          /\ p # q => pc'[q] = pc[q] /\ pub'[q] = pub[q]
      BY <1>1, <2>2, PublishMoves, PublishOwnLocals DEF Publishing
    <3>2. CASE p # q
      BY <1>1, <1>2, <3>1, <3>2 DEF UploadKept
    <3>3. CASE p = q
      <4> USE DEF Goto, Files, Sources, Hmm, Weights, Map, Metadata
      <4>1. CASE Verify(p)
        BY <1>1, <1>2, <3>3, <4>1 DEF Verify, UploadKept
      <4>2. CASE Guard(p) \/ Hash(p) \/ Rehash(p) \/ Cleanup(p)
        BY <1>1, <1>2, <3>3, <4>2 DEF Guard, Hash, Rehash, Cleanup
      <4>3. CASE Put(p)
        <5>1. pub'[p].file = Hmm \/ pc'[p] # "verify"
          BY <1>1, <4>3 DEF Put
        <5>2. pc'[p] # "flip"
          BY <1>1, <4>3 DEF Put
        <5> QED BY <1>2, <3>3, <5>1, <5>2
      <4>4. CASE Flip(p) \/ ListVersions(p) \/ TrimVersion(p) \/ PublishFault(p)
        BY <1>1, <1>2, <3>3, <4>4 DEF Flip, ListVersions, TrimVersion, PublishFault,
           RefuseSecret, UploadError, LateError
      <4> QED BY <3>1, <4>1, <4>2, <4>3, <4>4 DEF PublishStep
    <3> QED BY <3>2, <3>3
  <2> QED BY <2>1, <2>2
<1>3. ASSUME NEW q \in Procs, NEW f \in Files, Verified(q, f)'
      PROVE  Holds(pub[q].version, f, ExpectedBlob(q, f))' \/ Crowded(pub[q].version)'
  <2>1. pub[q].version \in Nat /\ pub'[q].version = pub[q].version
    BY <1>1, <1>2, <1>3 DEF PublishLocals
  <2>2. ExpectedBlob(q, f)' = ExpectedBlob(q, f)
    BY <1>1, <1>2, <1>3 DEF PublishLocals, ExpectedBlob, StagedMetadata
  <2>3. \A p \in Procs : pc[p] = "cleanup" => pub[p].version # pub[q].version
    <3>1. pc[q] # "cleanup"
      BY <1>2, <1>3
    <3> QED BY <1>1, <3>1 DEF VersionsOwned, Versioned
  <2>4. \/ Holds(pub[q].version, f, ExpectedBlob(q, f))
        \/ Crowded(pub[q].version)
    BY <1>2, <1>3
  <2>5. \/ [version |-> pub[q].version, file |-> f, blob |-> ExpectedBlob(q, f)] \in objects'
        \/ \E v : v = pub[q].version /\ Crowded(v)'
    BY <2>1, <2>3, <2>4, HeldKept
  <2> QED BY <2>1, <2>2, <2>5 DEF Holds, Crowded, SettledAfter
<1> QED BY <1>3 DEF UploadKept

(* What is live stays stored until it is crowded out.                      *)
LEMMA NextLiveKept ==
  ASSUME ManualInv, [Next]_vars, IsFiniteSet(Operators)
  PROVE  LiveKept'
<1>1. /\ TypeInv /\ VersionsOwned /\ LiveKept
      /\ pc \in [Procs -> Steps]
      /\ pub \in [Procs -> PublishLocals]
      /\ latest # None => latest.version \in Nat
  BY DEF ManualInv, TypeInv, TypeOK, RegistryTypeOK, Pointer
<1>2. CASE latest' = latest
  <2> SUFFICES ASSUME latest # None, NEW f \in Files
               PROVE  Exists(latest.version, f)' \/ Crowded(latest.version)'
    BY <1>2 DEF LiveKept
  <2>1. CASE Crowded(latest.version)
    <3>1. \E v \in Nat : v = latest.version /\ Crowded(v)'
      BY <1>1, <2>1, CrowdedStays
    <3> QED BY <1>2, <3>1 DEF Crowded, SettledAfter
  <2>2. CASE Exists(latest.version, f)
    <3>1. PICK o \in objects : o.version = latest.version /\ o.file = f
      BY <2>2 DEF Exists
    <3>2. \A p \in Procs : pc[p] = "cleanup" => pub[p].version # o.version
      BY <1>1, <3>1 DEF VersionsOwned, Versioned
    <3>3. o \in objects' \/ Crowded(o.version)'
      BY <3>2, ObjectKept
    <3> QED BY <1>2, <3>1, <3>3 DEF Exists, Crowded, SettledAfter
  <2> QED BY <1>1, <2>1, <2>2 DEF LiveKept
<1>3. CASE latest' # latest
  <2>1. PICK p \in Procs : Flip(p) /\ Publishing(p)
    <3>1. \E p \in Procs : Publishing(p)
      BY <1>1, <1>3, OutsidePublish
    <3> QED BY <1>1, <1>3, <3>1, PointerMoves DEF Publishing, TypeInv, TypeOK
  <2>2. /\ latest'.version = pub[p].version
        /\ objects' = objects
        /\ pc[p] = "flip"
        /\ pub[p].version \in Nat
    BY <1>1, <2>1 DEF Flip, PublishLocals
  <2> SUFFICES ASSUME NEW f \in Files
               PROVE  Exists(latest.version, f)' \/ Crowded(latest.version)'
    BY DEF LiveKept
  <2>3. Holds(pub[p].version, f, ExpectedBlob(p, f)) \/ Crowded(pub[p].version)
    BY <2>2 DEF ManualInv, UploadKept
  <2>4. Holds(pub[p].version, f, ExpectedBlob(p, f)) => Exists(latest.version, f)'
    <3> DEFINE o == [version |-> pub[p].version, file |-> f, blob |-> ExpectedBlob(p, f)]
    <3>1. o.version = pub[p].version /\ o.file = f
      OBVIOUS
    <3> HIDE DEF o
    <3> SUFFICES ASSUME o \in objects
                 PROVE  \E x \in objects' : x.version = latest'.version /\ x.file = f
      BY DEF Holds, Exists, o
    <3> QED BY <2>2, <3>1
  <2>5. Crowded(pub[p].version) => Crowded(latest.version)'
    <3>1. Crowded(pub[p].version) => \E v \in Nat : v = pub[p].version /\ Crowded(v)'
      BY <2>2, CrowdedStays
    <3> QED BY <2>2, <3>1 DEF Crowded, SettledAfter
  <2> QED BY <2>3, <2>4, <2>5
<1> QED BY <1>2, <1>3

(* An operator's publish never carries an accuracy.                        *)
LEMMA NextUnmeasured ==
  ASSUME ManualInv, [Next]_vars
  PROVE  OperatorsUnmeasured'
<1>1. /\ TypeInv /\ OperatorsUnmeasured
      /\ pub \in [Procs -> PublishLocals]
      /\ \A q \in Operators : q \in Procs /\ q \notin Runs
  BY ProcsAssumption DEF ManualInv, TypeInv, TypeOK, RegistryTypeOK
<1>2. CASE \A p \in Procs : ~Publishing(p)
  BY <1>1, <1>2, OutsidePublish DEF OperatorsUnmeasured, NoPublish
<1>3. ASSUME NEW p \in Procs, Publishing(p)
      PROVE  OperatorsUnmeasured'
  <2>1. /\ PublishStep(p) \/ PublishFault(p)
        /\ \A q \in Procs \ {p} : pub'[q] = pub[q]
    BY <1>1, <1>3, PublishOwnLocals DEF Publishing
  <2>2. pub'[p].accuracy = pub[p].accuracy
    <3> USE DEF PublishLocals
    <3>1. CASE Guard(p) \/ Hash(p) \/ Rehash(p)
      BY <1>1, <3>1 DEF Guard, Hash, Rehash
    <3>2. CASE Put(p) \/ Verify(p) \/ Cleanup(p)
      BY <1>1, <3>2 DEF Put, Verify, Cleanup
    <3>3. CASE Flip(p) \/ ListVersions(p) \/ TrimVersion(p) \/ PublishFault(p)
      BY <1>1, <3>3 DEF Flip, ListVersions, TrimVersion, PublishFault, RefuseSecret,
         UploadError, LateError
    <3> QED BY <2>1, <3>1, <3>2, <3>3 DEF PublishStep
  <2> QED BY <1>1, <2>1, <2>2 DEF OperatorsUnmeasured
<1> QED BY <1>2, <1>3

(* The run inside the lock keeps hold of its candidate: operators read the *)
(* artifacts and write none.                                               *)
LEMMA NextLockedCandidate ==
  ASSUME ManualInv, [Next]_vars
  PROVE  LockedCandidate'
<1>1. /\ TypeInv /\ LockedCandidate
      /\ \A q \in Runs : q \in Procs /\ q \notin Operators
      /\ pc \in [Procs -> Steps]
      /\ pub \in [Procs -> PublishLocals]
      /\ run \in [Procs -> RunLocals]
  BY ProcsAssumption DEF ManualInv, TypeInv, TypeOK, RegistryTypeOK
<1>2. ASSUME NEW q \in Runs, HoldsLock(q), pc'[q] = pc[q], run'[q] = run[q],
             pub'[q] = pub[q], UNCHANGED work
      PROVE  CandidateInv(q)'
  BY <1>1, <1>2, CandidateFrame DEF LockedCandidate
<1>3. ASSUME NEW p \in Procs, RetrainStep(p) \/ PipelineError(p)
      PROVE  LockedCandidate'
  <2>1. p \in Runs
    BY <1>1, <1>3, ProcsAssumption DEF TypeInv, OperatorsOnlyPublish, OperatorSteps,
       PublishSteps, PublishEnds, PipelineSteps, RetrainStep, Evaluate,
       AcquireLock, AbortRun, StampLock, ReadIncumbent, TrainRegime, VetMap, VetWeights,
       PipelineError,
       ApplyGates, PublishReturns, ReleaseLock, SaveState
  <2>2. ASSUME NEW q \in Runs, HoldsLock(q)', q # p
        PROVE  CandidateInv(q)'
    <3>1. pc'[q] = pc[q] /\ HoldsLock(q)
      BY <1>1, <1>3, <2>2, RetrainMoves DEF HoldsLock
    <3>2. ~HoldsLock(p)
      BY <1>1, <2>1, <2>2, <3>1, OneInside
    <3>3. Evaluate(p) \/ AcquireLock(p) \/ AbortRun(p) \/ SaveState(p)
      BY <1>3, <2>1, <3>2 DEF HoldsLock, LockedSteps, PipelineSteps, PublishSteps, PublishEnds,
         RetrainStep, StampLock, ReadIncumbent, PipelineError, TrainRegime, VetMap, VetWeights,
         ApplyGates,
         PublishReturns, ReleaseLock
    <3>4. UNCHANGED work /\ run'[q] = run[q] /\ pub'[q] = pub[q]
      BY <1>1, <2>2, <3>3 DEF Evaluate, AcquireLock, AbortRun, SaveState
    <3> QED BY <1>2, <3>1, <3>4
  <2>3. HoldsLock(p)' => CandidateInv(p)'
    BY <1>1, <1>3, <2>1, RetrainKeepsCandidate DEF LockedCandidate
  <2> QED BY <2>2, <2>3 DEF LockedCandidate
<1>4. ASSUME NEW p \in Procs, Publishing(p)
      PROVE  LockedCandidate'
  <2>1. /\ PublishStep(p) \/ PublishFault(p)
        /\ UNCHANGED run
        /\ UNCHANGED work
        /\ pc[p] \in PublishSteps
        /\ \A q \in Procs \ {p} : pc'[q] = pc[q] /\ pub'[q] = pub[q]
    BY <1>1, <1>4, PublishMoves, PublishOwnLocals DEF Publishing
  <2>2. ASSUME NEW q \in Runs, HoldsLock(q)', q # p
        PROVE  CandidateInv(q)'
    BY <1>1, <1>2, <2>1, <2>2 DEF HoldsLock
  <2>3. p \in Runs => CandidateInv(p)'
    <3> SUFFICES ASSUME p \in Runs
                 PROVE  CandidateInv(p)'
      OBVIOUS
    <3>1. CandidateInv(p)
      BY <1>1, <2>1 DEF LockedCandidate, HoldsLock, LockedSteps
    <3> QED BY <1>1, <2>1, <3>1, PublishKeepsCandidate
  <2> QED BY <2>2, <2>3 DEF LockedCandidate
<1>5. ASSUME NEW p \in Procs, ManualPublish(p) \/ ManualReturns(p) \/ StopHere(p)
      PROVE  LockedCandidate'
  <2>1. /\ pc'[p] \notin LockedSteps \/ p \notin Runs
        /\ \A q \in Procs \ {p} : pc'[q] = pc[q] /\ pub'[q] = pub[q] /\ run'[q] = run[q]
    BY <1>1, <1>5 DEF ManualPublish, ManualReturns, StopHere, Goto, LockedSteps, PipelineSteps,
       PublishSteps, PublishEnds
  <2>2. ASSUME NEW q \in Runs, HoldsLock(q)'
        PROVE  CandidateInv(q)'
    <3>1. q # p /\ HoldsLock(q)
      BY <1>1, <2>1, <2>2 DEF HoldsLock
    <3>2. UNCHANGED work
      <4>1. CASE ManualPublish(p) \/ ManualReturns(p)
        BY <4>1 DEF ManualPublish, ManualReturns
      <4>2. CASE StopHere(p)
        <5>1. p \in Runs => ~HoldsLock(p)
          BY <1>1, <3>1, OneInside
        <5>2. pc[p] # "hmm"
          BY <1>1, <5>1, ProcsAssumption DEF HoldsLock, LockedSteps, PipelineSteps, TypeInv,
             OperatorsOnlyPublish, OperatorSteps, PublishSteps, PublishEnds
        <5> QED BY <4>2, <5>2 DEF StopHere, WorkLeftBy
      <4> QED BY <1>5, <4>1, <4>2
    <3> QED BY <1>1, <1>2, <2>1, <3>1, <3>2
  <2> QED BY <2>2 DEF LockedCandidate
<1>6. CASE Tick \/ ClearStaleLock \/ UNCHANGED vars
  BY <1>1, <1>2, <1>6 DEF Tick, ClearStaleLock, vars, LockedCandidate, HoldsLock
<1> QED BY <1>3, <1>4, <1>5, <1>6 DEF Next, Crash, FileError

(* A flip that hands on an accuracy is a run's, of what it verified.       *)
LEMMA NextMeasuredVetted ==
  ASSUME ManualInv, [Next]_vars, IsFiniteSet(Operators)
  PROVE  MeasuredVetted'
<1>1. /\ TypeInv /\ VersionsOwned /\ MeasuredVetted
      /\ pc \in [Procs -> Steps]
      /\ pub \in [Procs -> PublishLocals]
      /\ latest # None => latest.version \in Nat
  BY DEF ManualInv, TypeInv, TypeOK, RegistryTypeOK, Pointer
<1> SUFFICES ASSUME latest' # None, latest'.metadata.accuracy # None
             PROVE  /\ LiveBundleVetted'
                    /\ LiveBundleComplete' \/ Crowded(latest.version)'
  BY DEF MeasuredVetted
<1>2. CASE latest' = latest
  <2>1. LiveBundleVetted'
    BY <1>1, <1>2 DEF MeasuredVetted, LiveBundleVetted
  <2>2. ASSUME NEW f, NEW b, Holds(latest.version, f, b) \/ Crowded(latest.version)
        PROVE  Holds(latest.version, f, b)' \/ Crowded(latest.version)'
    <3>1. \A p \in Procs : pc[p] = "cleanup" => pub[p].version # latest.version
      BY <1>1, <1>2 DEF VersionsOwned, Versioned
    <3>2. \/ [version |-> latest.version, file |-> f, blob |-> b] \in objects'
          \/ \E v : v = latest.version /\ Crowded(v)'
      BY <1>1, <1>2, <2>2, <3>1, HeldKept
    <3> QED BY <1>2, <3>2 DEF Holds, Crowded, SettledAfter
  <2>3. LiveBundleComplete \/ Crowded(latest.version)
    BY <1>1, <1>2 DEF MeasuredVetted
  <2>4. LiveBundleComplete' \/ Crowded(latest.version)'
    <3>1. \/ Holds(latest.version, Metadata, latest.metadata)'
          \/ Crowded(latest.version)'
      <4>1. \/ Holds(latest.version, Metadata, latest.metadata)
            \/ Crowded(latest.version)
        BY <1>2, <2>3 DEF LiveBundleComplete, BundleComplete
      <4> QED BY <1>2, <2>2, <4>1 DEF Holds
    <3>2. ASSUME NEW f \in Sources
          PROVE  \/ Holds(latest.version, f, latest.metadata.sums[f])'
                 \/ Crowded(latest.version)'
      <4>1. \/ Holds(latest.version, f, latest.metadata.sums[f])
            \/ Crowded(latest.version)
        BY <1>2, <2>3 DEF LiveBundleComplete, BundleComplete
      <4> QED BY <1>2, <2>2, <4>1 DEF Holds
    <3> QED BY <3>1, <3>2 DEF LiveBundleComplete, BundleComplete
  <2> QED BY <2>1, <2>4
<1>3. CASE latest' # latest
  <2>1. PICK p \in Procs : Flip(p) /\ Publishing(p)
    <3>1. \E p \in Procs : Publishing(p)
      BY <1>1, <1>3, OutsidePublish
    <3> QED BY <1>1, <1>3, <3>1, PointerMoves DEF Publishing, TypeInv, TypeOK
  <2>2. /\ latest' = [version |-> pub[p].version, metadata |-> StagedMetadata(p)]
        /\ objects' = objects
        /\ pc[p] = "flip"
        /\ pub[p].version \in Nat
    BY <1>1, <2>1 DEF Flip, PublishLocals
  <2>3. p \in Runs
    BY <2>2, ProcsAssumption DEF StagedMetadata, ManualInv, OperatorsUnmeasured
  <2>4. /\ CandidateInv(p)
        /\ run[p].candidate \in Candidates
    BY <1>1, <2>2, <2>3 DEF ManualInv, LockedCandidate, HoldsLock, LockedSteps, PublishSteps,
       TypeInv, CandidateKnown, CandidateSteps
  <2>5. LiveBundleVetted'
    <3>1. /\ Deployable(run[p].candidate)
          /\ latest'.metadata.accuracy = run[p].candidate.accuracy
          /\ \A f \in Sources : latest'.metadata.sums[f] = run[p].candidate
      BY <2>2, <2>4 DEF CandidateInv, CandidateGated, HashesTrue, PublishSteps, StagedMetadata
    <3> QED BY <2>4, <3>1 DEF LiveBundleVetted
  <2>6. \A f \in Files : Holds(pub[p].version, f, ExpectedBlob(p, f)) \/ Crowded(pub[p].version)
    BY <2>2 DEF ManualInv, UploadKept
  <2>7. CASE Crowded(pub[p].version)
    <3>1. \E v \in Nat : v = pub[p].version /\ Crowded(v)'
      BY <2>2, <2>7, CrowdedStays
    <3> QED BY <2>2, <2>5, <3>1 DEF Crowded, SettledAfter
  <2>8. CASE ~Crowded(pub[p].version)
    <3>1. Holds(pub[p].version, Metadata, StagedMetadata(p))
      BY <2>6, <2>8 DEF ExpectedBlob, Files
    <3>2. \A f \in Sources : Holds(pub[p].version, f, pub[p].sums[f])
      BY <2>2, <2>4, <2>6, <2>8 DEF CandidateInv, HashesTrue, ExpectedBlob, Files, Sources,
         Hmm, Weights, Map, Metadata
    <3>3. LiveBundleComplete'
      BY <2>2, <3>1, <3>2 DEF LiveBundleComplete, BundleComplete, Holds, StagedMetadata
    <3> QED BY <2>5, <3>3
  <2> QED BY <2>7, <2>8
<1> QED BY <1>2, <1>3

(* Initially nothing is stored and nobody publishes.                       *)
LEMMA InitManualInv == Init => ManualInv
<1> SUFFICES ASSUME Init
             PROVE  ManualInv
  OBVIOUS
<1>1. TypeInv
  BY InitTypeInv
<1>2. /\ pc = [p \in Procs |-> "idle"] /\ pub = [p \in Procs |-> NoPublish]
      /\ objects = {} /\ latest = None /\ clock = 1
      /\ \A p \in Runs \cup Operators : p \in Procs
  BY ProcsAssumption DEF Init, RegistryInit
<1>3. StoreInv /\ LiveKept /\ MeasuredVetted
  BY <1>2 DEF StoreInv, LiveKept, MeasuredVetted
<1>4. VersionsOwned /\ StaleCrowded /\ UploadKept /\ OperatorsUnmeasured
  BY <1>2 DEF VersionsOwned, Versioned, StaleCrowded, UploadKept, OperatorsUnmeasured, NoPublish
<1>5. LockedCandidate
  BY <1>2 DEF LockedCandidate, HoldsLock, LockedSteps, PipelineSteps, PublishSteps, PublishEnds
<1> QED BY <1>1, <1>3, <1>4, <1>5 DEF ManualInv

(* Every step preserves the invariant, by whichever process makes it.      *)
LEMMA NextManualInv ==
  ASSUME ManualInv, [Next]_vars, ~SameSecond, IsFiniteSet(Operators),
         Cardinality(Operators) < Retain
  PROVE  ManualInv'
<1>1. TypeInv' /\ StoreInv' /\ VersionsOwned' /\ StaleCrowded'
  BY NextTypeInv, NextStoreInv, NextVersionsOwned, NextStaleCrowded DEF ManualInv
<1>2. UploadKept' /\ LiveKept' /\ OperatorsUnmeasured' /\ LockedCandidate' /\ MeasuredVetted'
  BY NextUploadKept, NextLiveKept, NextUnmeasured, NextLockedCandidate, NextMeasuredVetted
<1> QED BY <1>1, <1>2 DEF ManualInv

(* A recent live version is not crowded out.                               *)
LEMMA RecentUncrowded ==
  ASSUME TypeInv, StoreInv, IsFiniteSet(Operators), LiveIsRecent
  PROVE  ~Crowded(latest.version)
<1> DEFINE Newer == {v \in Versions : v > latest.version}
<1>1. IsFiniteSet(Newer)
  <2>1. Newer \in SUBSET Versions
    OBVIOUS
  <2> HIDE DEF Newer
  <2> QED BY <2>1, VersionsFinite, FS_Subset
<1>2. SettledAfter(latest.version) \in SUBSET Newer
  BY DEF SettledAfter
<1>3. Cardinality(Newer) + Cardinality(Operators) < Retain
  BY DEF LiveIsRecent
<1> HIDE DEF Newer
<1>4. /\ Cardinality(SettledAfter(latest.version)) <= Cardinality(Newer)
      /\ IsFiniteSet(SettledAfter(latest.version))
  BY <1>1, <1>2, FS_Subset
<1>5. /\ Cardinality(Newer) \in Nat
      /\ Cardinality(SettledAfter(latest.version)) \in Nat
      /\ Cardinality(Operators) \in Nat
      /\ Retain \in Nat
  BY <1>1, <1>4, FS_CardinalityType, RetainAssumption
<1> QED BY <1>3, <1>4, <1>5 DEF Crowded

(* For any number of runs and of people publishing by hand, a bundle that  *)
(* was published in a second of its own is stored for as long as the newer *)
(* versions and those people together are fewer than Retain, whichever     *)
(* trim or cleanup of another publish is under way.  With as many people   *)
(* as Retain there is no such bundle.                                      *)
THEOREM RecentLiveKept ==
  ASSUME ~SameSecond, IsFiniteSet(Operators), Cardinality(Operators) < Retain
  PROVE  Spec => []RecentLivePresent
<1>1. ManualInv /\ [Next]_vars => ManualInv'
  BY NextManualInv
<1>2. ManualInv => RecentLivePresent
  BY RecentUncrowded DEF ManualInv, LiveKept, RecentLivePresent, LiveIsRecent
<1> QED BY <1>1, <1>2, InitManualInv, PTL DEF Spec

(* In the same circumstances, a recent live bundle with a measured accuracy*)
(* is whole, of one candidate that passed the gates, though others publish *)
(* the artifacts they find on disk, also while the pipeline writes them.   *)
THEOREM GatedBundleKept ==
  ASSUME ~SameSecond, IsFiniteSet(Operators), Cardinality(Operators) < Retain
  PROVE  Spec => []GatedBundleSound
<1>1. ManualInv /\ [Next]_vars => ManualInv'
  BY NextManualInv
<1>2. ManualInv => GatedBundleSound
  BY RecentUncrowded DEF ManualInv, MeasuredVetted, GatedBundleSound, LiveIsRecent
<1> QED BY <1>1, <1>2, InitManualInv, PTL DEF Spec


(***************************************************************************)
(* What the trim leaves                                                    *)
(***************************************************************************)
(* Where a run inside the lock has not chosen its version yet, and where it*)
(* has one that may be stored.                                             *)
Uncommitted == {"stamp", "incumbent", "gates", "guard"} \cup PipelineSteps
Committing  == Versioned \cup {"list", "trim"}

(* Of the run inside the lock: its version is newer than all others that   *)
(* are stored.                                                             *)
Newest(p) ==
  /\ pc[p] \in Uncommitted => \A v \in Versions : v <= run[p].began
  /\ pc[p] \in Committing =>
       /\ run[p].began < pub[p].version
       /\ \A v \in Versions : v <= run[p].began \/ v = pub[p].version

(* What it is not going to delete is few enough.                           *)
Trimming(p) ==
  pc[p] = "trim" =>
    /\ pub[p].version \notin pub[p].stale
    /\ Cardinality(Versions \ pub[p].stale) <= Retain

TrimInv == PublishInv /\ \A p \in Runs : HoldsLock(p) => Newest(p) /\ Trimming(p)

(* Of some numbers one is the least.                                       *)
LEMMA LeastNumber ==
  ASSUME NEW T \in SUBSET Nat, T # {}
  PROVE  \E x \in T : \A y \in T : x <= y
<1>1. PICK n \in T : TRUE
  OBVIOUS
<1> DEFINE F == {0..k : k \in {m \in T : m <= n}}
           D == 0..n
<1>0. IsFiniteSet(D)
  BY FS_Interval
<1>2. IsWellFoundedOn(StrictSubsetOrdering(D), SUBSET D)
  <2> HIDE DEF D
  <2> QED BY <1>0, FS_StrictSubsetOrderingWellFounded, FS_FiniteSubsetsOfFinite
<1>3. F \subseteq SUBSET D /\ F # {}
  OBVIOUS
<1> HIDE DEF F, D
<1>4. PICK U \in F : \A V \in F : ~(<<V, U>> \in StrictSubsetOrdering(D))
  BY <1>2, <1>3, WFMin
<1>5. PICK x \in T : U = 0..x /\ x <= n
  BY <1>4 DEF F
<1>6. ASSUME NEW y \in T, y < x PROVE FALSE
  <2>1. 0..y \in F
    BY <1>5, <1>6 DEF F
  <2>2. 0..y \subseteq 0..x /\ x \in 0..x /\ x \notin 0..y
    BY <1>6
  <2>3. <<0..y, U>> \in StrictSubsetOrdering(D)
    BY <1>3, <1>4, <1>5, <2>1, <2>2 DEF StrictSubsetOrdering
  <2> QED BY <1>4, <2>1, <2>3
<1> QED BY <1>5, <1>6

(* At most Retain numbers have fewer than Retain greater ones.             *)
LEMMA NewestFew ==
  ASSUME NEW S \in SUBSET Nat, IsFiniteSet(S)
  PROVE  Cardinality({v \in S : ~(Cardinality({w \in S : w > v}) >= Retain)}) <= Retain
<1> DEFINE K == {v \in S : ~(Cardinality({w \in S : w > v}) >= Retain)}
<1>1. K \in SUBSET S
  OBVIOUS
<1>2. IsFiniteSet(K) /\ Cardinality(K) \in Nat /\ Retain \in Nat
  BY <1>1, FS_Subset, FS_CardinalityType, RetainAssumption
<1>3. CASE K = {}
  <2> HIDE DEF K
  <2>1. Cardinality(K) = 0
    BY <1>3, FS_EmptySet
  <2>2. Cardinality(K) <= Retain
    BY <1>2, <2>1
  <2> QED BY <2>2 DEF K
<1>4. CASE K # {}
  <2>1. K \in SUBSET Nat
    BY <1>1
  <2> HIDE DEF K
  <2>2. PICK x \in K : \A y \in K : x <= y
    BY <2>1, <1>4, LeastNumber
  <2> DEFINE G == {w \in S : w > x}
  <2>3. K \ {x} \in SUBSET G
    BY <2>1, <2>2, <1>1
  <2>4. IsFiniteSet(G) /\ ~(Cardinality(G) >= Retain)
    <3>1. G \in SUBSET S
      OBVIOUS
    <3>2. x \in K
      BY <2>2
    <3>3. ~(Cardinality({w \in S : w > x}) >= Retain)
      BY <3>2 DEF K
    <3> QED BY <3>1, <3>3, FS_Subset
  <2> HIDE DEF G
  <2>5. Cardinality(K \ {x}) = Cardinality(K) - 1
    BY <1>2, <2>2, FS_RemoveElement
  <2>6. Cardinality(K \ {x}) <= Cardinality(G) /\ Cardinality(G) \in Nat
    BY <2>3, <2>4, FS_Subset, FS_CardinalityType
  <2>7. Cardinality(K) <= Retain
    BY <1>2, <2>4, <2>5, <2>6
  <2> QED BY <2>7 DEF K
<1> QED BY <1>3, <1>4

(* What others do while a run is inside the lock leaves alone what it      *)
(* knows, and the objects.                                                 *)
LEMMA OthersLeave ==
  ASSUME Operators = {}, PublishInv, [Next]_vars, NEW p \in Runs, HoldsLock(p)',
         ~(RetrainStep(p) \/ PipelineError(p) \/ Publishing(p))
  PROVE  HoldsLock(p) /\ pc'[p] = pc[p] /\ pub'[p] = pub[p] /\ run'[p] = run[p]
         /\ objects' = objects
<1> DEFINE Left == pc'[p] = pc[p] /\ pub'[p] = pub[p] /\ run'[p] = run[p] /\ objects' = objects
<1>1. /\ TypeInv /\ p \in Procs /\ Procs = Runs
      /\ pc \in [Procs -> Steps] /\ pub \in [Procs -> PublishLocals]
      /\ run \in [Procs -> RunLocals]
  BY ProcsAssumption DEF PublishInv, TypeInv, TypeOK, RegistryTypeOK
<1>2. pc'[p] = pc[p] => HoldsLock(p)
  BY DEF HoldsLock
<1>3. ASSUME NEW q \in Runs, q # p, RetrainStep(q) \/ PipelineError(q)
      PROVE  Left
  <2>1. HoldsLock(p)
    BY <1>1, <1>2, <1>3, RetrainMoves
  <2>2. ~HoldsLock(q)
    BY <1>1, <1>3, <2>1, OneInside
  <2>3. Evaluate(q) \/ AcquireLock(q) \/ AbortRun(q) \/ SaveState(q)
    BY <1>3, <2>2 DEF HoldsLock, LockedSteps, PipelineSteps, PublishSteps, PublishEnds,
       RetrainStep, StampLock, ReadIncumbent, PipelineError, TrainRegime, VetMap, VetWeights,
       ApplyGates,
       PublishReturns, ReleaseLock
  <2> QED BY <1>1, <1>3, <2>3 DEF Evaluate, AcquireLock, AbortRun, SaveState, Goto
<1>4. ASSUME NEW q \in Runs, q # p, Publishing(q)
      PROVE  FALSE
  <2>1. HoldsLock(q) /\ HoldsLock(p)
    BY <1>1, <1>2, <1>4, PublishMoves DEF Publishing, HoldsLock, LockedSteps
  <2> QED BY <1>1, <1>4, <2>1, OneInside
<1>5. ASSUME NEW q \in Runs, StopHere(q)
      PROVE  Left
  <2>1. q # p
    BY <1>1, <1>5 DEF StopHere, Goto, HoldsLock, LockedSteps, PipelineSteps, PublishSteps,
       PublishEnds
  <2> QED BY <1>1, <1>5, <2>1 DEF StopHere, Goto
<1>6. ASSUME NEW q \in Runs, ManualPublish(q) \/ ManualReturns(q)
      PROVE  FALSE
  BY <1>6 DEF ManualPublish, ManualReturns
<1>7. ASSUME Tick \/ ClearStaleLock \/ UNCHANGED vars
      PROVE  Left
  BY <1>7 DEF Tick, ClearStaleLock, vars
<1>8. Left
  <2> HIDE DEF Left
  <2>1. ASSUME NEW q \in Procs, RetrainStep(q) \/ PipelineError(q) \/ Publishing(q)
        PROVE  Left
    <3>1. q \in Runs /\ q # p
      BY <1>1, <2>1
    <3> QED BY <2>1, <3>1, <1>3, <1>4
  <2>2. ASSUME NEW q \in Procs, ManualPublish(q) \/ ManualReturns(q) \/ StopHere(q)
        PROVE  Left
    BY <1>1, <2>2, <1>5, <1>6
  <2> QED BY <2>1, <2>2, <1>7 DEF Next, Crash, FileError
<1> QED BY <1>2, <1>8

(* The run's own steps of publish(): the guard takes a version newer than  *)
(* all, the listing marks all but the newest, the trim deletes what is     *)
(* marked.                                                                 *)
LEMMA OwnTrim ==
  ASSUME PublishInv, NEW p \in Runs, HoldsLock(p), Newest(p), Trimming(p),
         PublishStep(p) \/ PublishFault(p), UNCHANGED run
  PROVE  Newest(p)' /\ Trimming(p)'
<1>1. /\ p \in Procs /\ pc \in [Procs -> Steps] /\ pub \in [Procs -> PublishLocals]
      /\ pub[p] \in PublishLocals /\ pub[p].version \in Nat
      /\ run[p].began \in Nat /\ clock \in Nat
      /\ TypeInv /\ StoreInv /\ VersionOrder(p)
  BY ProcsAssumption DEF PublishInv, TypeInv, TypeOK, RegistryTypeOK, PublishLocals, RunLocals,
     LockedInv, RunInv
<1>2. /\ Versions \in SUBSET Nat /\ IsFiniteSet(Versions)
      /\ \A v \in Versions : v \in Nat /\ v <= clock
  BY <1>1, VersionsFinite
<1> USE DEF Uncommitted, Committing, Versioned, PipelineSteps, PublishSteps, PublishEnds, Goto
<1>3. CASE Guard(p)
  <2>1. run[p].began < clock /\ Versions' = Versions
    BY <1>1, <1>3 DEF VersionOrder, Guard, Versions
  <2>2. \/ pc'[p] = "failed"
        \/ pc'[p] = "hash" /\ pub'[p].version = clock
    BY <1>1, <1>3 DEF Guard, PublishLocals
  <2>3. pc[p] \in Uncommitted
    BY <1>3 DEF Guard
  <2>4. \A v \in Versions : v <= run[p].began
    BY <2>3 DEF Newest
  <2> QED BY <2>1, <2>2, <2>4 DEF Newest, Trimming
<1>4. CASE Hash(p) \/ Rehash(p) \/ Verify(p) \/ Flip(p)
  <2>1. pub'[p].version = pub[p].version /\ Versions' = Versions
    BY <1>1, <1>4 DEF Hash, Rehash, Verify, Flip, Versions, PublishLocals
  <2>2. pc[p] \in Versioned /\ pc'[p] \notin {"trim"} \cup Uncommitted
    BY <1>1, <1>4 DEF Hash, Rehash, Verify, Flip
  <2> QED BY <1>1, <2>1, <2>2 DEF Newest, Trimming
<1>5. CASE Put(p) \/ Cleanup(p)
  <2>1. pub'[p].version = pub[p].version /\ Versions' \subseteq Versions \cup {pub[p].version}
    BY <1>1, <1>5 DEF Put, Cleanup, Versions, PutObject, DeletePrefix, PublishLocals
  <2>2. pc[p] \in Versioned /\ pc'[p] \notin {"trim"} \cup Uncommitted
    BY <1>1, <1>5 DEF Put, Cleanup
  <2> QED BY <1>1, <2>1, <2>2 DEF Newest, Trimming
<1>6. CASE ListVersions(p)
  <2>1. /\ pub'[p].version = pub[p].version /\ pub'[p].stale = StaleVersions
        /\ Versions' = Versions /\ pc[p] = "list" /\ pc'[p] = "trim"
    BY <1>1, <1>6 DEF ListVersions, Versions, PublishLocals
  <2>2. run[p].began < pub[p].version
        /\ \A v \in Versions : v <= run[p].began \/ v = pub[p].version
    BY <2>1 DEF Newest
  <2>3. {w \in Versions : w > pub[p].version} = {}
    <3>1. ASSUME NEW w \in Versions PROVE ~(w > pub[p].version)
      <4>1. w \in Nat /\ pub[p].version \in Nat /\ run[p].began \in Nat
        BY <1>1, <1>2
      <4>2. run[p].began < pub[p].version /\ (w <= run[p].began \/ w = pub[p].version)
        BY <2>2
      <4> QED BY <4>1, <4>2
    <3> QED BY <3>1
  <2>4. pub[p].version \notin StaleVersions
    <3>1. Cardinality({w \in Versions : w > pub[p].version}) = 0
      BY <2>3, FS_EmptySet
    <3>2. ~(0 >= Retain)
      BY RetainAssumption
    <3> QED BY <3>1, <3>2 DEF StaleVersions
  <2>5. Versions \ StaleVersions
          = {v \in Versions : ~(Cardinality({w \in Versions : w > v}) >= Retain)}
    BY DEF StaleVersions
  <2>6. Cardinality(Versions \ StaleVersions) <= Retain
    BY <1>2, <2>5, NewestFew
  <2> QED BY <1>1, <2>1, <2>2, <2>4, <2>6 DEF Newest, Trimming
<1>7. CASE TrimVersion(p)
  <2>0. pub'[p].version = pub[p].version /\ pc[p] = "trim" /\ pc'[p] \in {"trim", "published"}
    BY <1>1, <1>7 DEF TrimVersion, PublishLocals
  <2>1. Versions' \subseteq Versions
    BY <1>7 DEF TrimVersion, DeletePrefix, Versions
  <2>2. Newest(p)'
    BY <1>1, <2>0, <2>1 DEF Newest
  <2>3. CASE pub[p].stale = {}
    <3>1. pc'[p] = "published"
      BY <1>1, <1>7, <2>3 DEF TrimVersion
    <3> QED BY <2>2, <3>1 DEF Trimming
  <2>4. CASE pub[p].stale # {}
    <3>1. PICK v \in pub[p].stale :
            /\ IF v = pub[p].version THEN UNCHANGED objects ELSE DeletePrefix(v)
            /\ pub' = [pub EXCEPT ![p].stale = @ \ {v}]
      BY <1>7, <2>4 DEF TrimVersion
    <3>2. pub[p].version \notin pub[p].stale /\ Cardinality(Versions \ pub[p].stale) <= Retain
      BY <2>0 DEF Trimming
    <3>3. pub'[p].stale = pub[p].stale \ {v}
      BY <1>1, <3>1 DEF PublishLocals
    <3>4. v \notin Versions'
      BY <3>1, <3>2 DEF DeletePrefix, Bundle, Versions
    <3>5. Versions' \ pub'[p].stale \in SUBSET (Versions \ pub[p].stale)
      BY <2>1, <3>3, <3>4
    <3>6. IsFiniteSet(Versions \ pub[p].stale)
      BY <1>2, FS_Difference
    <3>7. Cardinality(Versions' \ pub'[p].stale) <= Retain
      <4> DEFINE A == Versions' \ pub'[p].stale
                 B == Versions \ pub[p].stale
      <4>1. A \in SUBSET B /\ IsFiniteSet(B) /\ Cardinality(B) <= Retain
        BY <3>2, <3>5, <3>6
      <4> HIDE DEF A, B
      <4>2. /\ IsFiniteSet(A) /\ Cardinality(A) <= Cardinality(B)
            /\ Cardinality(A) \in Nat /\ Cardinality(B) \in Nat
        BY <4>1, FS_Subset, FS_CardinalityType
      <4>3. Cardinality(A) <= Retain
        BY <4>1, <4>2, RetainAssumption
      <4> QED BY <4>3 DEF A
    <3> QED BY <2>0, <2>2, <3>2, <3>3, <3>7 DEF Trimming
  <2> QED BY <2>2, <2>3, <2>4
<1>8. CASE PublishFault(p)
  <2>1. pc'[p] \in {"failed", "cleanup"} /\ pub' = pub /\ Versions' = Versions
        /\ pc[p] \in Committing
    BY <1>1, <1>8 DEF PublishFault, RefuseSecret, UploadError, LateError, Versions
  <2> QED BY <1>1, <2>1 DEF Newest, Trimming
<1> QED BY <1>3, <1>4, <1>5, <1>6, <1>7, <1>8 DEF PublishStep

(* The steps of the orchestrator: it takes the lock at a time no version is*)
(* newer than.                                                             *)
LEMMA RetrainTrim ==
  ASSUME PublishInv, NEW p \in Runs, RetrainStep(p) \/ PipelineError(p), HoldsLock(p)',
         HoldsLock(p) => Newest(p) /\ Trimming(p)
  PROVE  Newest(p)' /\ Trimming(p)'
<1>1. /\ p \in Procs /\ pc \in [Procs -> Steps] /\ pub \in [Procs -> PublishLocals]
      /\ run \in [Procs -> RunLocals]
      /\ run[p].began \in Nat /\ clock \in Nat
      /\ TypeInv /\ StoreInv
  BY ProcsAssumption DEF PublishInv, TypeInv, TypeOK, RegistryTypeOK, RunLocals
<1>2. Versions' = Versions /\ \A v \in Versions : v \in Nat /\ v <= clock
  BY <1>1, RetrainTypes, VersionsFinite DEF Versions
<1> USE DEF Uncommitted, Committing, Versioned, PipelineSteps, PublishSteps, PublishEnds,
            LockedSteps, HoldsLock, Goto
<1>3. CASE AcquireLock(p)
  BY <1>1, <1>2, <1>3 DEF AcquireLock, Newest, Trimming, RunLocals
<1>4. CASE StampLock(p) \/ ReadIncumbent(p) \/ TrainRegime(p) \/ VetMap(p) \/ VetWeights(p)
  <2>1. run'[p].began = run[p].began /\ pc[p] \in Uncommitted /\ pc'[p] \in Uncommitted
    BY <1>1, <1>4 DEF StampLock, ReadIncumbent, TrainRegime, VetMap, VetWeights, RunLocals
  <2> QED BY <1>1, <1>2, <2>1 DEF Newest, Trimming
<1>5. CASE ApplyGates(p)
  <2>1. run'[p].began = run[p].began /\ pc[p] = "gates" /\ pc'[p] \in {"guard", "release"}
    BY <1>1, <1>5 DEF ApplyGates, RunLocals
  <2> QED BY <1>1, <1>2, <2>1 DEF Newest, Trimming
<1>6. CASE PublishReturns(p) \/ PipelineError(p) \/ ReleaseLock(p) \/ SaveState(p)
           \/ Evaluate(p) \/ AbortRun(p)
  <2>1. pc'[p] \notin Uncommitted \cup Committing
    BY <1>1, <1>6 DEF PublishReturns, PipelineError, ReleaseLock, SaveState, Evaluate, AbortRun
  <2> QED BY <2>1 DEF Newest, Trimming
<1> QED BY <1>3, <1>4, <1>5, <1>6 DEF RetrainStep

(* Every step: only the run inside the lock publishes or trims.            *)
LEMMA NextTrim ==
  ASSUME Operators = {}, TrimInv, [Next]_vars
  PROVE  TrimInv'
<1>1. PublishInv /\ PublishInv'
  BY NextPublishInv DEF TrimInv
<1>2. ASSUME NEW p \in Runs, HoldsLock(p)' PROVE Newest(p)' /\ Trimming(p)'
  <2>0. HoldsLock(p) => Newest(p) /\ Trimming(p)
    BY DEF TrimInv
  <2>1. CASE RetrainStep(p) \/ PipelineError(p)
    BY <1>1, <1>2, <2>0, <2>1, RetrainTrim
  <2>2. CASE Publishing(p)
    <3>1. HoldsLock(p)
      BY <1>1, <2>2, ProcsAssumption, PublishMoves
         DEF Publishing, PublishInv, TypeInv, TypeOK, RegistryTypeOK, HoldsLock, LockedSteps
    <3>2. (PublishStep(p) \/ PublishFault(p)) /\ UNCHANGED run
      BY <2>2 DEF Publishing
    <3> QED BY <1>1, <2>0, <3>1, <3>2, OwnTrim
  <2>3. CASE ~(RetrainStep(p) \/ PipelineError(p) \/ Publishing(p))
    <3>1. HoldsLock(p) /\ pc'[p] = pc[p] /\ pub'[p] = pub[p] /\ run'[p] = run[p]
          /\ objects' = objects
      BY <1>1, <1>2, <2>3, OthersLeave
    <3>2. Versions' = Versions
      BY <3>1 DEF Versions
    <3> QED BY <2>0, <3>1, <3>2 DEF Newest, Trimming
  <2> QED BY <2>1, <2>2, <2>3
<1> QED BY <1>1, <1>2 DEF TrimInv

(* Nobody is inside the lock at first.                                     *)
LEMMA InitTrim == Init => TrimInv
BY InitPublishInv, ProcsAssumption DEF Init, RegistryInit, TrimInv, HoldsLock, LockedSteps,
   PipelineSteps, PublishSteps, PublishEnds

(* A publish that returns normally leaves at most Retain versions, also    *)
(* counting what killed uploads left behind (publish step 6).              *)
THEOREM TrimBounds ==
  ASSUME Operators = {}
  PROVE  Spec => TrimBoundsVersions
<1>1. TrimInv /\ [Next]_vars => TrimInv'
  BY NextTrim
<1>2. TrimInv /\ [Next]_vars =>
        [\A p \in Procs : pc[p] = "trim" /\ pc'[p] = "published" =>
           Cardinality(Versions) <= Retain]_vars
  <2> SUFFICES ASSUME TrimInv, [Next]_vars, NEW p \in Procs, pc[p] = "trim", pc'[p] = "published"
               PROVE  Cardinality(Versions) <= Retain
    OBVIOUS
  <2>1. p \in Runs /\ HoldsLock(p)
    BY ProcsAssumption DEF HoldsLock, LockedSteps, PublishSteps
  <2>2. /\ p \in Procs /\ pc \in [Procs -> Steps] /\ TypeInv /\ PublishInv
    BY DEF TrimInv, PublishInv, TypeInv, TypeOK, RegistryTypeOK
  <2>3. HoldsLock(p)'
    BY <2>1 DEF HoldsLock, LockedSteps, PublishEnds
  <2>4. RetrainStep(p) \/ PipelineError(p) \/ Publishing(p)
    BY <2>1, <2>2, <2>3, OthersLeave
  <2>5. ~(RetrainStep(p) \/ PipelineError(p))
    BY <2>1, <2>2 DEF RetrainStep, Evaluate, AcquireLock, AbortRun, StampLock, ReadIncumbent,
       TrainRegime,
       VetMap, VetWeights, ApplyGates, PublishReturns, ReleaseLock, SaveState, PipelineError,
       PipelineSteps, PublishEnds
  <2>6. PublishStep(p) \/ PublishFault(p)
    BY <2>4, <2>5 DEF Publishing
  <2>7. TrimVersion(p)
    BY <2>2, <2>6 DEF PublishStep, PublishFault, Guard, Hash, Rehash, Put, Verify, Cleanup, Flip,
       ListVersions, RefuseSecret, UploadError, LateError, Goto
  <2>8. pub[p].stale = {}
    BY <2>2, <2>7 DEF TrimVersion
  <2>9. Cardinality(Versions \ pub[p].stale) <= Retain
    BY <2>1 DEF TrimInv, Trimming
  <2>10. Versions \ pub[p].stale = Versions
    BY <2>8
  <2> QED BY <2>9, <2>10
<1> QED BY <1>1, <1>2, InitTrim, PTL DEF Spec, TrimBoundsVersions

==============================================================================
