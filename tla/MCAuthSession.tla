---------------------------- MODULE MCAuthSession ----------------------------
(* Instances of AuthSession for TLC.                                        *)
EXTENDS AuthSession, TLC

CONSTANTS p1, p2, r1, r2, i1, i2

(* A teacher shares the email of a student. *)
MCAccounts == {[role |-> "student", id |-> 1, email |-> 1, password |-> p1],
               [role |-> "teacher", id |-> 1, email |-> 1, password |-> p2],
               [role |-> "teacher", id |-> 2, email |-> 2, password |-> p2]}

Symmetric == Permutations(Requests) \cup Permutations(Sids)
=============================================================================
