--------------------------- MODULE MCTestSessions ---------------------------
(* Instances of TestSessions for TLC.                                       *)
EXTENDS TestSessions, TLC

CONSTANTS s1, s2, r1, r2, r3, q1, q2, a1, a2

(* One code per slot position; q1 is shared by every session. *)
SameCode == [s \in Sessions |-> [k \in Slots |-> q1]]

Symmetric == Permutations(Requests) \cup Permutations(Answers)
=============================================================================
