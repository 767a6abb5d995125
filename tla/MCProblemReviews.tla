-------------------------- MODULE MCProblemReviews --------------------------
(* Instances of ProblemReviews for TLC.                                     *)
EXTENDS ProblemReviews, TLC

CONSTANTS w1, w2, w3

(* 8.5 and 8.65 in the band of T1; 9.2 is where the bands of T2 and T3 meet.*)
MCRows == {NoRow, [t |-> 1, s |-> NoScore, status |-> "provisional", marked |-> FALSE]}

ReviewJobs == {[kind |-> "review", t |-> 1, s |-> 2040], [kind |-> "review", t |-> 2, s |-> 2208]}

File(t, status, R) == [kind |-> "import", valid |-> TRUE, t |-> t, status |-> status, reviews |-> R]

Files == {File(1, "provisional", <<[t |-> 1, s |-> 2076]>>),
          File(1, "calibrated", <<[t |-> 2, s |-> NoScore], [t |-> 2, s |-> 2160]>>),
          [File(1, "provisional", <<[t |-> 1, s |-> 2076]>>) EXCEPT !.valid = FALSE]}

MCJobs == ReviewJobs \cup Files \cup {[kind |-> "backfill"]}

Symmetric == Permutations(Writers)
=============================================================================
