--------------------------- MODULE DeploymentGates ---------------------------
(***************************************************************************)
(* The promotion gates of the System-1 retrain scheduler: the pure         *)
(* decision `deployment_gates` takes about a candidate and an incumbent.   *)
(*                                                                         *)
(* A candidate is the metrics record the pipeline returns.  Accuracies are *)
(* percentages; a missing metric (Python None) is the constant None.       *)
(***************************************************************************)
EXTENDS Integers

CONSTANTS Candidates,   \* the retrain results that can occur
          None          \* Python's None: no value

(* orchestrator.py REGIME_ACCURACY_FLOOR (0.70) and MIN_UPLIFT (0.0). *)
AccuracyFloor == 70
MinUplift     == 0

(* The metrics record `_default_pipeline` returns. *)
CandidateRecord ==
  [accuracy : Nat \cup {None}, qualified : Nat,
   uplift : Int \cup {None}, significant : BOOLEAN]

ASSUME CandidatesType == Candidates \subseteq CandidateRecord
ASSUME NoneAssumption == None \notin Int /\ None \notin CandidateRecord

(* Gate regime_accuracy_ok. *)
AccuracyOK(c) == c.accuracy # None /\ c.accuracy >= AccuracyFloor

(* Gate oos_uplift_ok: fails closed on a missing uplift unless overridden. *)
UpliftOK(c, allowMissing) ==
  \/ c.uplift = None /\ allowMissing
  \/ c.uplift # None /\ c.uplift >= MinUplift /\ c.significant

(* The three gates that do not look at the incumbent. *)
AbsoluteGates(c, allowMissing) ==
  /\ AccuracyOK(c)
  /\ c.qualified > 0
  /\ UpliftOK(c, allowMissing)

(* Gate beats_incumbent: fails open when the incumbent has no accuracy. *)
BeatsIncumbent(c, incumbent) ==
  incumbent = None \/ (c.accuracy # None /\ c.accuracy >= incumbent)

(* A candidate that some flag of the command line lets through. *)
Deployable(c) == \E allowMissing \in BOOLEAN : AbsoluteGates(c, allowMissing)
==============================================================================
