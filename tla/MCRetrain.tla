------------------------------- MODULE MCRetrain -------------------------------
(* Constants for model checking Retrain.                                      *)
EXTENDS Retrain

CONSTANTS r1, r2, o1

Candidate(acc, n, up, sig) ==
  [accuracy |-> acc, qualified |-> n, uplift |-> up, significant |-> sig]

(* Two deployable candidates of different accuracy and one of each kind    *)
(* that one gate alone rejects.                                            *)
Better      == Candidate(82, 3, 1, TRUE)
Good        == Candidate(70, 2, None, FALSE)
TooWeak     == Candidate(69, 2, 1, TRUE)
EmptyMap    == Candidate(90, 0, 1, TRUE)
NoEdge      == Candidate(90, 2, 1, FALSE)

GateCandidates == {Better, Good, TooWeak, EmptyMap, NoEdge}
TwoCandidates  == {Better, Good}
OneCandidate   == {Better}

TwoRuns        == {r1, r2}
RunAndOperator == {r1, o1}
OneRun         == {r1}
OneOperator    == {o1}
==============================================================================
