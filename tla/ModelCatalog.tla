---------------------------- MODULE ModelCatalog -----------------------------
(***************************************************************************)
(* What the model registry promises its consumers, with no storage, lock   *)
(* or process in sight: at any time either no model is live or exactly one *)
(* whole candidate is, and the live model is only ever replaced by a       *)
(* candidate that passed the absolute gates and is at least as accurate.   *)
(***************************************************************************)
EXTENDS DeploymentGates

VARIABLE live     \* the candidate consumers load, or None

CatalogInit == live = None

Promote ==
  \E c \in Candidates :
    /\ Deployable(c)
    /\ live # None => c.accuracy >= live.accuracy
    /\ live' = c

CatalogSpec == CatalogInit /\ [][Promote]_live
==============================================================================
