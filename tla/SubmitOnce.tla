----------------------------- MODULE SubmitOnce -----------------------------
(***************************************************************************)
(* What POST /submit promises, independent of how it is implemented: the   *)
(* outcome of a session (who submitted it, and which attempts rows it      *)
(* produced) is decided at most once, and every answer to a submit, first  *)
(* or repeated, reports that one outcome.                                  *)
(***************************************************************************)
CONSTANTS Sessions,   \* the test sessions
          Sources,    \* the values of auto_submit_source
          Rows,       \* the identities of attempts rows
          None        \* "not decided"

VARIABLES outcome,    \* outcome[s]: None, or the decided [source, ids]
          answers     \* the set of [s, source, ids] returned to callers

vars == <<outcome, answers>>

Outcomes == [source : Sources, ids : SUBSET Rows]

Answer(s, o) == [s |-> s, source |-> o.source, ids |-> o.ids]

Init == outcome = [s \in Sessions |-> None] /\ answers = {}

(* The first submit to get through fixes the outcome and returns it. *)
Decide(s) ==
    /\ outcome[s] = None
    /\ outcome'[s] \in Outcomes
    /\ outcome' = [outcome EXCEPT ![s] = outcome'[s]]
    /\ answers' = answers \cup {Answer(s, outcome'[s])}

(* Any later submit returns the outcome that is already there. *)
Repeat(s) ==
    /\ outcome[s] # None
    /\ answers' = answers \cup {Answer(s, outcome[s])}
    /\ UNCHANGED outcome

Next == \E s \in Sessions : Decide(s) \/ Repeat(s)

Spec == Init /\ [][Next]_vars
=============================================================================
