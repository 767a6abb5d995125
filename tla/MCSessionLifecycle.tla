------------------------- MODULE MCSessionLifecycle -------------------------
(* Instances of SessionLifecycle for TLC.                                   *)
EXTENDS SessionLifecycle, TLC

CONSTANTS c1, c2, s1, s2

(* One test assigned through a cohort and, later, individually.             *)
TwoWays == {[id |-> 1, test |-> 1, from |-> 0, to |-> 1, at |-> -2],
            [id |-> 2, test |-> 1, from |-> 1, to |-> 2, at |-> -1]}

Symmetric == Permutations(Callers) \cup Permutations(Ids)
=============================================================================
