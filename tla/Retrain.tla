------------------------------- MODULE Retrain -------------------------------
(***************************************************************************)
(* The retrain scheduler of System 1 (system1/scheduler/orchestrator.py)   *)
(* composed with the model registry it publishes to.                       *)
(*                                                                         *)
(* Two kinds of processes call publish():                                  *)
(*   Runs       orchestrator runs (cron, or by hand with --force), which   *)
(*              take the single-flight lock around pipeline and publish;   *)
(*   Operators  the serializer's own command line (serialize.main), which  *)
(*              publishes whatever artifacts are on disk and takes no lock.*)
(* Every process may be killed at any step and started again.              *)
(***************************************************************************)
EXTENDS ModelRegistry

CONSTANTS Runs, Operators,
          Cooldown,       \* seconds two runs must be apart
          MaxClock,       \* bound: nothing starts at or after this second
          SameSecond,     \* may two publishes take the same bundle version?
          Orphan,         \* a lock file whose run is no more
          MayCrash        \* may processes be killed?

ASSUME ProcsAssumption == Procs = Runs \cup Operators /\ Runs \cap Operators = {}
ASSUME FreeAssumption  == {None, Orphan} \cap Procs = {} /\ None # Orphan
ASSUME BoundAssumption == Cooldown \in Nat /\ MaxClock \in Nat
ASSUME FlagsAssumption == SameSecond \in BOOLEAN /\ MayCrash \in BOOLEAN

VARIABLES
  lock,      \* retrain.lock: None, the run at work that created it, or Orphan
  saved,     \* retrain_state.json
  run        \* run[p]: the local variables of orchestrator.run() in p

vars == <<clock, work, objects, latest, pc, pub, lock, saved, run>>

(***************************************************************************)
(* Types                                                                   *)
(***************************************************************************)
RetrainState == [lastRun : Nat \cup {None}, lastBundle : Nat \cup {None}]

RunLocals ==
  [forced    : BOOLEAN,                     \* --force
   now       : Nat,                         \* taken when run() starts
   state     : RetrainState,                \* loaded when run() starts
   began     : Nat,                         \* second the lock was taken
   incumbent : Nat \cup {None},             \* accuracy _incumbent() read
   candidate : Candidates \cup {None},      \* what the pipeline returned
   outcome   : {"none", "skipped", "promoted", "raised"}]

NoState == [lastRun |-> None, lastBundle |-> None]
NoRun   == [forced |-> FALSE, now |-> 0, state |-> NoState, began |-> 0,
            incumbent |-> None, candidate |-> None, outcome |-> "none"]

PipelineSteps == {"hmm", "map", "weights"}
LockedSteps ==
  {"stamp", "incumbent", "gates", "release"} \cup PipelineSteps
    \cup PublishSteps \cup PublishEnds
Steps == {"idle", "acquire", "save"} \cup LockedSteps

TypeOK ==
  /\ RegistryTypeOK(Steps)
  /\ lock \in Procs \cup {None, Orphan}
  /\ saved \in RetrainState
  /\ run \in [Procs -> RunLocals]

Init ==
  /\ RegistryInit
  /\ lock = None
  /\ saved = NoState
  /\ run = [p \in Procs |-> NoRun]

(***************************************************************************)
(* orchestrator.run(), before the lock                                     *)
(***************************************************************************)

(* within_cooldown(state["last_run_utc"], now, cooldown_seconds).          *)
WithinCooldown(state, now) ==
  state.lastRun # None /\ now - state.lastRun < Cooldown

(* The run reads the clock and the state file and decides.  Whether a      *)
(* trigger fires is up to the environment; a run that decides not to       *)
(* retrain only writes a log, so it is left out.                           *)
Evaluate(p) ==
  /\ p \in Runs
  /\ pc[p] = "idle"
  /\ clock < MaxClock
  /\ \E forced \in BOOLEAN :
       /\ forced \/ ~WithinCooldown(saved, clock)
       /\ run' = [run EXCEPT ![p] =
                    [NoRun EXCEPT !.forced = forced, !.now = clock, !.state = saved]]
  /\ Goto(p, "acquire")
  /\ UNCHANGED <<clock, work, objects, latest, pub, lock, saved>>

(* SingleFlightLock.__enter__ creates the file, O_CREAT | O_EXCL.  From    *)
(* here on --force makes no difference and is forgotten.                   *)
AcquireLock(p) ==
  /\ pc[p] = "acquire"
  /\ lock = None
  /\ lock' = p
  /\ run' = [run EXCEPT ![p].began = clock, ![p].forced = FALSE]
  /\ Goto(p, "stamp")
  /\ UNCHANGED <<clock, work, objects, latest, pub, saved>>

(* It then writes the time into the file; only after that is the run inside*)
(* the with statement, whose __exit__ removes the file.                    *)
StampLock(p) ==
  /\ pc[p] = "stamp"
  /\ Goto(p, "incumbent")
  /\ UNCHANGED <<clock, work, objects, latest, pub, lock, saved, run>>

(* Mutant: the run that finds the lock taken removes it on its way out.     *)
AbortRunUnlinks(p) ==
  /\ pc[p] = "acquire"
  /\ lock # None
  /\ lock' = None
  /\ run' = [run EXCEPT ![p] = NoRun]
  /\ Goto(p, "idle")
  /\ UNCHANGED <<clock, work, objects, latest, pub, saved>>

(* Mutant: the run that finds the lock taken waits for it.                  *)
AbortRunWaits(p) == pc[p] = "acquire" /\ lock # None /\ UNCHANGED vars

(* The lock file exists: log "aborted" and return without saving state.    *)
AbortRun(p) ==
  /\ pc[p] = "acquire"
  /\ lock # None
  /\ run' = [run EXCEPT ![p] = NoRun]
  /\ Goto(p, "idle")
  /\ UNCHANGED <<clock, work, objects, latest, pub, lock, saved>>

(***************************************************************************)
(* orchestrator.run(), inside the lock                                     *)
(***************************************************************************)
(* Mutant: the incumbent's accuracy is never found (FIX-S1-006).            *)
ReadIncumbentVacuous(p) ==
  /\ pc[p] = "incumbent"
  /\ run' = [run EXCEPT ![p].incumbent = None]
  /\ Goto(p, "hmm")
  /\ UNCHANGED <<clock, work, objects, latest, pub, lock, saved>>

ReadIncumbent(p) ==
  /\ pc[p] = "incumbent"
  /\ run' = [run EXCEPT ![p].incumbent = LiveAccuracy]
  /\ Goto(p, "hmm")
  /\ UNCHANGED <<clock, work, objects, latest, pub, lock, saved>>

(* hmm_regime.run trains and dumps the model over the previous one.        *)
TrainRegime(p) ==
  /\ pc[p] = "hmm"
  /\ \E c \in Candidates :
       /\ run' = [run EXCEPT ![p].candidate = c]
       /\ work' = [work EXCEPT ![Hmm] = c]
  /\ Goto(p, "map")
  /\ UNCHANGED <<clock, objects, latest, pub, lock, saved>>

(* vet.run(live=True) replaces the map, then the weights.  The pipeline    *)
(* takes minutes, so at least one second has passed since the lock.        *)
VetMap(p) ==
  /\ pc[p] = "map"
  /\ work' = [work EXCEPT ![Map] = run[p].candidate]
  /\ clock' = IF clock > run[p].began THEN clock ELSE clock + 1
  /\ Goto(p, "weights")
  /\ UNCHANGED <<objects, latest, pub, lock, saved, run>>

VetWeights(p) ==
  /\ pc[p] = "weights"
  /\ work' = [work EXCEPT ![Weights] = run[p].candidate]
  /\ Goto(p, "gates")
  /\ UNCHANGED <<clock, objects, latest, pub, lock, saved, run>>

(* What a writer stopped at this step leaves of the artifacts: joblib.dump *)
(* writes the model in place, the other writes are atomic.                 *)
WorkLeftBy(p) ==
  {work} \cup IF pc[p] = "hmm" THEN {[work EXCEPT ![Hmm] = Torn]} ELSE {}

(* Reading the incumbent or a step of the pipeline raises: the lock is     *)
(* released, no state is saved.                                            *)
PipelineError(p) ==
  /\ pc[p] \in {"incumbent", "gates"} \cup PipelineSteps
  /\ run' = [run EXCEPT ![p].outcome = "raised"]
  /\ work' \in WorkLeftBy(p)
  /\ Goto(p, "release")
  /\ UNCHANGED <<clock, objects, latest, pub, lock, saved>>

(* Mutant: the accuracy is not handed to publish() (FIX-S1-006).            *)
ApplyGatesNoMetrics(p) ==
  /\ pc[p] = "gates"
  /\ \E allowMissing \in BOOLEAN :
       IF /\ AbsoluteGates(run[p].candidate, allowMissing)
          /\ BeatsIncumbent(run[p].candidate, run[p].incumbent)
         THEN /\ pub' = [pub EXCEPT ![p] = NoPublish]
              /\ Goto(p, "guard")
              /\ UNCHANGED run
         ELSE /\ run' = [run EXCEPT ![p].outcome = "skipped"]
              /\ Goto(p, "release")
              /\ UNCHANGED pub
  /\ UNCHANGED <<clock, work, objects, latest, lock, saved>>

(* deployment_gates; _default_promote hands the accuracy to publish().     *)
ApplyGates(p) ==
  /\ pc[p] = "gates"
  /\ \E allowMissing \in BOOLEAN :
       IF /\ AbsoluteGates(run[p].candidate, allowMissing)
          /\ BeatsIncumbent(run[p].candidate, run[p].incumbent)
         THEN /\ pub' = [pub EXCEPT ![p] =
                           [NoPublish EXCEPT !.accuracy = run[p].candidate.accuracy]]
              /\ Goto(p, "guard")
              /\ UNCHANGED run
         ELSE /\ run' = [run EXCEPT ![p].outcome = "skipped"]
              /\ Goto(p, "release")
              /\ UNCHANGED pub
  /\ UNCHANGED <<clock, work, objects, latest, lock, saved>>

(* Mutant: a publish that raised counts as promoted.                        *)
PublishReturnsPromoted(p) ==
  /\ p \in Runs
  /\ pc[p] \in PublishEnds
  /\ run' = [run EXCEPT ![p].outcome = "promoted"]
  /\ Goto(p, "release")
  /\ UNCHANGED <<clock, work, objects, latest, pub, lock, saved>>

(* publish() returns or raises.                                            *)
PublishReturns(p) ==
  /\ p \in Runs
  /\ pc[p] \in PublishEnds
  /\ run' = [run EXCEPT ![p].outcome =
               IF pc[p] = "published" THEN "promoted" ELSE "raised"]
  /\ Goto(p, "release")
  /\ UNCHANGED <<clock, work, objects, latest, pub, lock, saved>>

(* Mutant: the lock is released on the way of success only.                 *)
ReleaseLockNotRaised(p) ==
  /\ pc[p] = "release"
  /\ IF run[p].outcome = "raised"
       THEN /\ Goto(p, "idle")
            /\ run' = [run EXCEPT ![p] = NoRun]
            /\ pub' = [pub EXCEPT ![p] = NoPublish]
            /\ UNCHANGED lock
       ELSE /\ Goto(p, "save")
            /\ lock' = None
            /\ UNCHANGED <<run, pub>>
  /\ UNCHANGED <<clock, work, objects, latest, saved>>

(* SingleFlightLock.__exit__.  Only a decision is saved: a RuntimeError is *)
(* logged as "aborted" and any other exception propagates.                 *)
ReleaseLock(p) ==
  /\ pc[p] = "release"
  /\ lock' = None
  /\ IF run[p].outcome = "raised"
       THEN /\ Goto(p, "idle")
            /\ run' = [run EXCEPT ![p] = NoRun]
            /\ pub' = [pub EXCEPT ![p] = NoPublish]
       ELSE /\ Goto(p, "save")
            /\ UNCHANGED <<run, pub>>
  /\ UNCHANGED <<clock, work, objects, latest, saved>>

(* After the lock is gone, the whole dict loaded at the start is written   *)
(* back with this run's time and, if it promoted, its bundle.              *)
SaveState(p) ==
  /\ pc[p] = "save"
  /\ saved' = [lastRun    |-> run[p].now,
               lastBundle |-> IF run[p].outcome = "promoted"
                                THEN pub[p].version
                                ELSE run[p].state.lastBundle]
  /\ run' = [run EXCEPT ![p] = NoRun]
  /\ pub' = [pub EXCEPT ![p] = NoPublish]
  /\ Goto(p, "idle")
  /\ UNCHANGED <<clock, work, objects, latest, lock>>

(***************************************************************************)
(* The serializer's command line: publish() without lock, gates or metrics *)
(***************************************************************************)
ManualPublish(p) ==
  /\ p \in Operators
  /\ pc[p] = "idle"
  /\ clock < MaxClock
  /\ pub' = [pub EXCEPT ![p] = NoPublish]
  /\ Goto(p, "guard")
  /\ UNCHANGED <<clock, work, objects, latest, lock, saved, run>>

ManualReturns(p) ==
  /\ p \in Operators
  /\ pc[p] \in PublishEnds
  /\ pub' = [pub EXCEPT ![p] = NoPublish]
  /\ Goto(p, "idle")
  /\ UNCHANGED <<clock, work, objects, latest, lock, saved, run>>

(***************************************************************************)
(* The environment                                                         *)
(***************************************************************************)
Tick ==
  /\ clock < MaxClock
  /\ clock' = clock + 1
  /\ UNCHANGED <<work, objects, latest, pc, pub, lock, saved, run>>

(* A process ends where it is.  Its lock file stays, and a model being     *)
(* dumped in place is left half written.                                   *)
StopHere(p) ==
  /\ pc[p] # "idle"
  /\ Goto(p, "idle")
  /\ run' = [run EXCEPT ![p] = NoRun]
  /\ pub' = [pub EXCEPT ![p] = NoPublish]
  /\ work' \in WorkLeftBy(p)
  /\ lock' = IF lock = p THEN Orphan ELSE lock
  /\ UNCHANGED <<clock, objects, latest, saved>>

Crash(p) == MayCrash /\ StopHere(p)

(* Writing the lock file, removing it or saving the state raises (a full   *)
(* disk): nothing in run() catches that, and no __exit__ follows.          *)
FileError(p) == pc[p] \in {"stamp", "release", "save"} /\ StopHere(p)

(* Nothing in the code removes a lock file left behind: somebody has to,   *)
(* and does so only when no run is inside the lock.                        *)
HoldsLock(p) == p \in Runs /\ pc[p] \in LockedSteps

ClearStaleLock ==
  /\ lock # None
  /\ \A p \in Runs : ~HoldsLock(p)
  /\ lock' = None
  /\ UNCHANGED <<clock, work, objects, latest, pc, pub, saved, run>>

(***************************************************************************)
(* Specification                                                           *)
(***************************************************************************)

(* With SameSecond = FALSE a publish waits for a second nobody has used.   *)
FreshVersion(p) ==
  pc[p] = "guard" /\ ~SameSecond =>
    /\ Bundle(clock) = {}
    /\ \A q \in Procs \ {p} : pub[q].version # clock

RetrainStep(p) ==
  \/ Evaluate(p)
  \/ AcquireLock(p)
  \/ AbortRun(p)
  \/ StampLock(p)
  \/ ReadIncumbent(p)
  \/ TrainRegime(p)
  \/ VetMap(p)
  \/ VetWeights(p)
  \/ ApplyGates(p)
  \/ PublishReturns(p)
  \/ ReleaseLock(p)
  \/ SaveState(p)

Publishing(p) ==
  /\ FreshVersion(p)
  /\ PublishStep(p) \/ PublishFault(p)
  /\ UNCHANGED <<lock, saved, run>>

Next ==
  \/ \E p \in Procs : RetrainStep(p) \/ PipelineError(p) \/ Publishing(p)
  \/ \E p \in Procs : ManualPublish(p) \/ ManualReturns(p) \/ Crash(p) \/ FileError(p)
  \/ Tick
  \/ ClearStaleLock

Spec == Init /\ [][Next]_vars

(* Once started, every process keeps running: fairness of the operating    *)
(* system's scheduler.  No fairness for starting one, for a fault, for a   *)
(* crash or for somebody clearing the lock.                                *)
FairSpec ==
  /\ Spec
  /\ \A p \in Procs :
       WF_vars(\/ pc[p] # "idle" /\ RetrainStep(p)
               \/ FreshVersion(p) /\ PublishStep(p) /\ UNCHANGED <<lock, saved, run>>
               \/ ManualReturns(p))

(***************************************************************************)
(* Safety                                                                  *)
(***************************************************************************)

(* At most one orchestrator run is between taking and releasing the lock   *)
(* (SingleFlightLock), across kills, restarts and a cleared stale lock.    *)
SingleFlight ==
  \A p, q \in Runs : HoldsLock(p) /\ HoldsLock(q) => p = q /\ lock = p

(* latest.json always names a bundle whose objects are all stored and are  *)
(* exactly the files whose hashes its metadata records, whatever upload,   *)
(* cleanup, trim or crash is under way (publish steps 3 to 6).             *)
LiveBundleComplete ==
  latest # None => BundleComplete(latest.version, latest.metadata)

(* The three artifacts of the live bundle are one candidate's, that        *)
(* candidate passed the absolute gates, and the accuracy persisted with it *)
(* is its own, so that the next beats_incumbent compares with the truth.   *)
LiveBundleVetted ==
  latest # None =>
    \E c \in Candidates :
      /\ Deployable(c)
      /\ latest.metadata.accuracy = c.accuracy
      /\ \A f \in Sources : latest.metadata.sums[f] = c

(* retrain_state.json never names a bundle newer than the live one, though *)
(* it is written after the lock is gone and from a dict read before it.    *)
StateBehindPointer ==
  saved.lastBundle # None =>
    latest # None /\ saved.lastBundle <= latest.version

(* A flip never takes the pointer back to an older version.                *)
PointerMovesForward ==
  [][latest # None /\ latest' # latest =>
       latest' # None /\ latest'.version > latest.version]_vars

(* When publish() returns normally at most Retain versions are left, also  *)
(* counting what killed uploads left behind.                               *)
TrimBoundsVersions ==
  [][\A p \in Procs : pc[p] = "trim" /\ pc'[p] = "published" =>
       Cardinality(Versions) <= Retain]_vars

(* The candidate consumers of latest.json load; Torn if there is none.     *)
LiveCandidate ==
  IF latest = None THEN None
  ELSE IF /\ LiveBundleComplete
          /\ \E c \in Candidates : \A f \in Sources : latest.metadata.sums[f] = c
         THEN latest.metadata.sums[Hmm]
         ELSE Torn

Catalog == INSTANCE ModelCatalog WITH live <- LiveCandidate

(* Storage, lock and processes together implement the abstract catalog:    *)
(* the live model only changes by promoting a whole, deployable candidate  *)
(* at least as accurate as the one it replaces.                            *)
ImplementsCatalog == Catalog!CatalogSpec

(* A lock file nobody left by a kill or by a failing call on the file      *)
(* itself is that of a run inside the lock: no other way out of it, by     *)
(* gates, refusal or exception, leaves the file to block every later run.  *)
NoLockLeftBehind == lock \in Procs => HoldsLock(lock)

(* Fewer than Retain of the stored versions are newer than the live one,   *)
(* when each operator counts for one more.                                 *)
LiveIsRecent ==
  /\ latest # None
  /\ Cardinality({v \in Versions : v > latest.version}) + Cardinality(Operators) < Retain

(* Though the serializer's command line takes no lock, a bundle published  *)
(* in a second of its own stays under the pointer until the newer versions *)
(* reach Retain.  A trim may lag behind its flip, and count an upload as   *)
(* newer that then fails and is deleted: each person publishing by hand    *)
(* makes room for one such upload, and costs one of the Retain versions.   *)
RecentLivePresent ==
  LiveIsRecent => \A f \in Files : Exists(latest.version, f)

(* Likewise, a recent live bundle that carries a measured accuracy was     *)
(* published behind the gates and is whole and vetted, also when somebody  *)
(* publishes by hand at the same time.                                     *)
GatedBundleSound ==
  LiveIsRecent /\ latest.metadata.accuracy # None =>
    LiveBundleComplete /\ LiveBundleVetted

(***************************************************************************)
(* Liveness                                                                *)
(***************************************************************************)

(* Without kills every started process comes back to idle, whoever else is *)
(* publishing, listing and trimming versions at the same time.             *)
EveryRunReturns == \A p \in Procs : pc[p] # "idle" ~> pc[p] = "idle"

(***************************************************************************)
(* Said of the code, and not so: TLC refutes each of these (README.md).     *)
(***************************************************************************)

(* latest.json never names a version with an object missing: publish       *)
(* deletes on failure so as to "never leave a partial version pointed-to". *)
LiveVersionPresent ==
  latest # None => \A f \in Files : Exists(latest.version, f)

(* A run that was not forced never takes the lock while the state file     *)
(* says that another one ran within the cooldown.                          *)
CooldownHonored ==
  [][\A p \in Runs :
       pc[p] = "acquire" /\ pc'[p] = "stamp" /\ ~run[p].forced
         => ~WithinCooldown(saved, run[p].now)]_vars
==============================================================================
