----------------------------- MODULE BarSeries -----------------------------
(***************************************************************************)
(* Lists computed bar by bar. Of a number only two things are kept: of     *)
(* which bars it is the figure (of: normally one, the bar it stands for)   *)
(* and from which bars it was computed (on). A missing number (None, null, *)
(* NaN) is None. Places count from 1: the list index of the code plus one. *)
(***************************************************************************)
EXTENDS Integers, Sequences, FiniteSets, FiniteSetsExt

CONSTANT None

(* A column of n bars: open, high, low, close or volume.                   *)
Column(n) == [t \in 1..n |-> [of |-> {t}, on |-> {t}]]

Nones(k) == [i \in 1..k |-> None]

(* A loop that appends Op(i) for each i from a to b.                       *)
Each(a, b, Op(_)) == [i \in 1..(IF b < a THEN 0 ELSE b - a + 1) |-> Op(a + i - 1)]

(* The figure of place b, computed from the places a to b.                 *)
Span(s, a, b) ==
  LET vs == {s[i] : i \in a..b}
  IN  IF None \in vs THEN None
      ELSE [of |-> s[b].of, on |-> UNION {v.on : v \in vs}]

(* A figure computed from several, which stands for all their bars.        *)
Joint(vs) ==
  IF None \in vs THEN None
  ELSE [of |-> UNION {v.of : v \in vs}, on |-> UNION {v.on : v \in vs}]

(* Two lists side by side, as far as the shorter one goes.                 *)
Zip(s, r) == Each(1, Min({Len(s), Len(r)}), LAMBDA i : Joint({s[i], r[i]}))

(* The numbers of a list that are there, in their order.                   *)
Known(s) ==
  LET there == {i \in DOMAIN s : s[i] # None}
  IN  [k \in 1..Cardinality(there) |->
         s[CHOOSE i \in there : Cardinality({j \in there : j <= i}) = k]]

(* What changes from bar to bar: one shorter than s.                       *)
Changes(s) == Each(2, Len(s), LAMBDA t : Span(s, t - 1, t))
=============================================================================
