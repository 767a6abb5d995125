--------------------------- MODULE ProblemReviews ---------------------------
(***************************************************************************)
(* The three programs that write a problem's rating: the review endpoint   *)
(* (problems.service.ts), the YAML importer (import-yaml.ts) and the       *)
(* backfill script (seed-backfill.ts), with the database rules they run    *)
(* into: the consensus trigger of migration 0007 and the CHECK             *)
(* chk_crosswalk_jee_advanced of migration 0005.                           *)
(*                                                                         *)
(* One problem is modelled: both locks are per question_code.  PostgreSQL  *)
(* runs at READ COMMITTED, so every statement is a step and sees what is   *)
(* committed at that step and its own transaction's writes.  tx[w] holds   *)
(* the uncommitted writes of writer w.  rowLock is the writer whose        *)
(* uncommitted version of the problems row others wait for, advisory the   *)
(* one that holds pg_advisory_xact_lock(hashtext(qcode)).                  *)
(***************************************************************************)
EXTENDS Integers, Sequences, FiniteSets, FiniteSetsExt

CONSTANTS
    Writers,      \* processes that may write to the problem
    Jobs,         \* what a writer may be started with
    Rows,         \* the problems row before anybody runs, NoRow for none
    JeeAdvanced,  \* target_exam = JEE_ADVANCED
    ByMean,       \* rating_consensus_method is absent or 'mean'
    None, NoRow   \* no writer; no problems row

(* Scores in 1/240 of a point: every midpoint and every mean of up to four *)
(* scores on the half tenth is a whole number.                             *)
Score == 0..2400
NoScore == -1
Rating == 1..5
Statuses == {"provisional", "calibrated"}

Low(t) == CASE t = 1 -> 2040 [] t = 2 -> 2112 [] t = 3 -> 2208 [] t = 4 -> 2280 [] t = 5 -> 2352
High(t) == CASE t = 1 -> 2112 [] t = 2 -> 2208 [] t = 3 -> 2280 [] t = 4 -> 2352 [] t = 5 -> 2400

(* CROSSWALK_MIDPOINT of the backfill script. *)
Midpoint(t) == (Low(t) + High(t)) \div 2

Rated == [t : Rating, s : Score \cup {NoScore}]
ReviewJob == [kind : {"review"}, t : Rating, s : Score \cup {NoScore}]
ImportJob == [kind : {"import"}, valid : BOOLEAN, t : Rating, status : Statuses,
              reviews : Seq(Rated)]
BackfillJob == [kind : {"backfill"}]

ASSUME WritersAssumption == None \notin Writers
ASSUME JobsAssumption == Jobs \subseteq ReviewJob \cup ImportJob \cup BackfillJob
ASSUME FlagsAssumption == JeeAdvanced \in BOOLEAN /\ ByMean \in BOOLEAN

(* marked is source_metadata.backfill.score_v1. *)
Problem == [t : Rating, s : Score \cup {NoScore}, status : Statuses, marked : BOOLEAN]

ASSUME RowsAssumption == Rows \subseteq Problem \cup {NoRow} /\ NoRow \notin Problem

(* by and n stand for the row's id; synth is provenance.review_backfilled. *)
Review == [by : Writers, n : Nat, t : Rating, s : Score \cup {NoScore}, synth : BOOLEAN]

Outcomes == {"none", "created", "not_found", "cross_walk", "invalid_score", "error",
             "inserted", "updated", "skipped", "failed", "fatal"}

VARIABLES
    job,       \* what each writer was started with
    problem,   \* the committed problems row
    reviews,   \* the committed problem_reviews rows
    tx,        \* per writer: where it is, what it read, its uncommitted writes
    rowLock, advisory

vars == <<job, problem, reviews, tx, rowLock, advisory>>

Locations == {"start", "write", "delete", "look", "insert", "trigger", "apply",
              "commit", "answer", "report", "done"}

Fresh == [pc |-> "start", saw |-> NoRow, row |-> NoRow, added |-> {}, deleted |-> {},
          new |-> None, outcome |-> "none", answer |-> None]

-----------------------------------------------------------------------------
(* Helpers *)

(* What a statement of w sees of the reviews. *)
Visible(w) == (reviews \ tx[w].deleted) \cup tx[w].added

(* The problems row as an UPDATE of w finds it. *)
Current(w) == IF rowLock = w THEN tx[w].row ELSE problem

Scored(R) == {r \in R : r.s # NoScore}

Total(R, F(_)) == MapThenSumSet(F, R)

(* ROUND(AVG(...)) rounds a half away from zero. *)
MeanRating(R) == (2 * Total(R, LAMBDA r : r.t) + Cardinality(R)) \div (2 * Cardinality(R))

MeanScore(R) == IF Scored(R) = {} THEN NoScore
                ELSE Total(Scored(R), LAMBDA r : r.s) \div Cardinality(Scored(R))

Consensus(R, row) == [t |-> IF ByMean THEN MeanRating(R) ELSE row.t, s |-> MeanScore(R)]

(* The trigger's own check: both ends of the band are let through. *)
OutOfBand(c) == JeeAdvanced /\ c.s # NoScore /\ (c.s < Low(c.t) \/ c.s > High(c.t))

(* chk_crosswalk_jee_advanced: the upper end is open below T5. *)
FitsCheck(row) ==
    JeeAdvanced /\ row.s # NoScore
        => row.s >= Low(row.t) /\ (row.s < High(row.t) \/ (row.t = 5 /\ row.s = High(5)))

(* The reviews an import file brings. *)
FileReviews(w) == {[by |-> w, n |-> i, t |-> job[w].reviews[i].t, s |-> job[w].reviews[i].s,
                    synth |-> FALSE] : i \in DOMAIN job[w].reviews}

Kind(w) == job[w].kind

At(w, pc) == tx[w].pc = pc

Goto(w, pc) == tx' = [tx EXCEPT ![w].pc = pc]

Free(l, w) == l \in {None, w}

Unlock(l, w) == IF l = w THEN None ELSE l

(* Mutant: the transaction is left open after an error. *)
AbortLeavingOpen(w, outcome) ==
    /\ tx' = [tx EXCEPT ![w].pc = "done", ![w].outcome = outcome]
    /\ UNCHANGED <<job, problem, reviews, rowLock, advisory>>

(* The error of a statement rolls the whole transaction back. *)
Abort(w, outcome) ==
    /\ tx' = [tx EXCEPT ![w] = [Fresh EXCEPT !.pc = IF outcome = "cross_walk" THEN "report" ELSE "done",
                                             !.outcome = outcome]]
    /\ rowLock' = Unlock(rowLock, w)
    /\ advisory' = Unlock(advisory, w)
    /\ UNCHANGED <<job, problem, reviews>>

(* What each program makes of SQLSTATE 23514 from the trigger, of another  *)
(* 23514, and of any other database error.                                 *)
OnBand(w) == IF Kind(w) = "review" THEN "cross_walk" ELSE "failed"
OnCheck(w) == IF Kind(w) = "review" THEN "invalid_score" ELSE "failed"
OnError(w) == CASE Kind(w) = "review" -> "error" [] Kind(w) = "import" -> "fatal"
                [] Kind(w) = "backfill" -> "failed"

(* Where a writer is after the trigger of its last statement returned. *)
Returned(w) ==
    IF Kind(w) = "import" /\ Cardinality(tx[w].added) < Len(job[w].reviews) THEN "insert" ELSE "commit"

-----------------------------------------------------------------------------
(* POST /api/problems/:question_code/reviews *)

(* INSERT INTO problem_reviews; the foreign key needs a committed problem. *)
ReviewInsert(w) ==
    /\ At(w, "start") /\ Kind(w) = "review"
    /\ IF problem = NoRow
       THEN tx' = [tx EXCEPT ![w].pc = "done", ![w].outcome = "not_found"]
       ELSE tx' = [tx EXCEPT ![w].pc = "trigger",
                             ![w].added = {[by |-> w, n |-> 1, t |-> job[w].t, s |-> job[w].s,
                                            synth |-> FALSE]}]
    /\ UNCHANGED <<job, problem, reviews, rowLock, advisory>>

(* The SELECT that follows the committed INSERT. *)
ReviewAnswer(w) ==
    /\ At(w, "answer")
    /\ tx' = [tx EXCEPT ![w].pc = "done", ![w].outcome = "created",
                        ![w].answer = [t |-> problem.t, s |-> problem.s]]
    /\ UNCHANGED <<job, problem, reviews, rowLock, advisory>>

(* The existing_reviews of the 422 body, read after the rollback. *)
ReviewReport(w) ==
    /\ At(w, "report")
    /\ tx' = [tx EXCEPT ![w].pc = "done", ![w].answer = reviews]
    /\ UNCHANGED <<job, problem, reviews, rowLock, advisory>>

-----------------------------------------------------------------------------
(* import-yaml.ts *)

(* validate(), then the findUnique outside the transaction. *)
ImportFind(w) ==
    /\ At(w, "start") /\ Kind(w) = "import"
    /\ LET end == IF ~job[w].valid THEN "failed"
                  ELSE IF problem # NoRow /\ problem.status = "calibrated" THEN "skipped" ELSE "none"
       IN  tx' = [tx EXCEPT ![w].pc = IF end = "none" THEN "write" ELSE "done",
                            ![w].outcome = end, ![w].saw = problem]
    /\ UNCHANGED <<job, problem, reviews, rowLock, advisory>>

(* problem.update or problem.create.  The update leaves the score alone    *)
(* and puts the file's provenance in place of source_metadata.             *)
ImportWrite(w) ==
    /\ At(w, "write") /\ Kind(w) = "import" /\ Free(rowLock, w)
    /\ LET old == IF problem = NoRow THEN NoScore ELSE problem.s
           row == [t |-> job[w].t, s |-> old, status |-> job[w].status, marked |-> FALSE]
       IN  \/ /\ tx[w].saw = NoRow /\ problem # NoRow  \* unique violation on question_code
              /\ Abort(w, OnError(w))
           \/ /\ tx[w].saw # NoRow /\ ~FitsCheck(row)
              /\ Abort(w, OnCheck(w))
           \/ /\ tx[w].saw # NoRow \/ problem = NoRow
              /\ FitsCheck(row)
              /\ rowLock' = w
              /\ tx' = [tx EXCEPT ![w].row = row,
                                  ![w].pc = IF job[w].reviews = <<>> THEN "commit" ELSE "delete"]
              /\ UNCHANGED <<job, problem, reviews, advisory>>

(* Mutant: only the backfilled review is cleared. *)
ImportDeleteSynthetic(w) ==
    LET old == {r \in Visible(w) : r.synth}
    IN  /\ At(w, "delete")
        /\ tx' = [tx EXCEPT ![w].deleted = old, ![w].pc = IF old = {} THEN "insert" ELSE "trigger"]
        /\ UNCHANGED <<job, problem, reviews, rowLock, advisory>>

(* DELETE FROM problem_reviews: every row the statement sees. *)
ImportDelete(w) ==
    /\ At(w, "delete")
    /\ tx' = [tx EXCEPT ![w].deleted = Visible(w),
                        ![w].pc = IF Visible(w) = {} THEN "insert" ELSE "trigger"]
    /\ UNCHANGED <<job, problem, reviews, rowLock, advisory>>

(* The next INSERT of the loop over yml.reviews. *)
ImportInsert(w) ==
    /\ At(w, "insert") /\ Kind(w) = "import"
    /\ LET i == Cardinality(tx[w].added) + 1
       IN  tx' = [tx EXCEPT ![w].pc = "trigger",
                            ![w].added = @ \cup {r \in FileReviews(w) : r.n = i}]
    /\ UNCHANGED <<job, problem, reviews, rowLock, advisory>>

-----------------------------------------------------------------------------
(* seed-backfill.ts *)

(* The SELECT of all rows at the start of the script. *)
BackfillRead(w) ==
    /\ At(w, "start") /\ Kind(w) = "backfill"
    /\ LET end == IF problem = NoRow \/ problem.marked THEN "skipped" ELSE "none"
       IN  tx' = [tx EXCEPT ![w].pc = IF end = "none" THEN "write" ELSE "done",
                            ![w].outcome = end, ![w].saw = problem]
    /\ UNCHANGED <<job, problem, reviews, rowLock, advisory>>

(* Mutant: the pre-check runs before the row is locked. *)
BackfillWriteLater(w) ==
    /\ At(w, "write") /\ Kind(w) = "backfill"
    /\ Goto(w, "look")
    /\ UNCHANGED <<job, problem, reviews, rowLock, advisory>>

(* The UPDATE with the score and metadata worked out from that read. *)
BackfillWrite(w) ==
    /\ At(w, "write") /\ Kind(w) = "backfill" /\ Free(rowLock, w)
    /\ LET row == [problem EXCEPT !.s = Midpoint(tx[w].saw.t), !.marked = TRUE]
       IN  IF FitsCheck(row)
           THEN /\ rowLock' = w
                /\ tx' = [tx EXCEPT ![w].row = row, ![w].pc = "look"]
                /\ UNCHANGED <<job, problem, reviews, advisory>>
           ELSE Abort(w, OnCheck(w))

(* The pre-check that stands in for ON CONFLICT DO NOTHING. *)
BackfillLook(w) ==
    /\ At(w, "look")
    /\ Goto(w, IF \E r \in Visible(w) : r.synth THEN "commit" ELSE "insert")
    /\ UNCHANGED <<job, problem, reviews, rowLock, advisory>>

BackfillInsert(w) ==
    /\ At(w, "insert") /\ Kind(w) = "backfill"
    /\ tx' = [tx EXCEPT ![w].pc = "trigger",
                        ![w].added = {[by |-> w, n |-> 1, t |-> tx[w].saw.t,
                                       s |-> Midpoint(tx[w].saw.t), synth |-> TRUE]}]
    /\ UNCHANGED <<job, problem, reviews, rowLock, advisory>>

-----------------------------------------------------------------------------
(* fn_recompute_problem_consensus, fired after each INSERT or DELETE *)

(* Mutant: the trigger without its advisory lock. *)
RecomputeUnlocked(w) ==
    /\ At(w, "trigger")
    /\ LET c == Consensus(Visible(w), Current(w))
       IN  IF Visible(w) = {} THEN Goto(w, Returned(w)) /\ UNCHANGED <<job, problem, reviews, rowLock, advisory>>
           ELSE IF OutOfBand(c) THEN Abort(w, OnBand(w))
           ELSE /\ tx' = [tx EXCEPT ![w].new = c, ![w].pc = "apply"]
                /\ UNCHANGED <<job, problem, reviews, rowLock, advisory>>

(* Take the advisory lock, read the reviews, work out the consensus. *)
Recompute(w) ==
    /\ At(w, "trigger") /\ Free(advisory, w)
    /\ LET R == Visible(w)
           c == Consensus(R, Current(w))
           none == R = {} /\ ByMean  \* t_int IS NULL: RETURN NULL
       IN  \/ /\ none
              /\ advisory' = w
              /\ Goto(w, Returned(w))
              /\ UNCHANGED <<job, problem, reviews, rowLock>>
           \/ /\ ~none /\ OutOfBand(c)
              /\ Abort(w, OnBand(w))
           \/ /\ ~none /\ ~OutOfBand(c)
              /\ advisory' = w
              /\ tx' = [tx EXCEPT ![w].new = c, ![w].pc = "apply"]
              /\ UNCHANGED <<job, problem, reviews, rowLock>>

(* UPDATE problems SET authored_difficulty, jee_authenticity_score. *)
Apply(w) ==
    /\ At(w, "apply") /\ Free(rowLock, w)
    /\ LET row == [Current(w) EXCEPT !.t = tx[w].new.t, !.s = tx[w].new.s]
       IN  IF FitsCheck(row)
           THEN /\ rowLock' = w
                /\ tx' = [tx EXCEPT ![w].row = row, ![w].pc = Returned(w)]
                /\ UNCHANGED <<job, problem, reviews, advisory>>
           ELSE Abort(w, OnCheck(w))

-----------------------------------------------------------------------------
(* The end of a transaction *)

(* Mutant: a session-level advisory lock, which a commit does not release. *)
CommitKeepingAdvisory(w) ==
    /\ At(w, "commit")
    /\ problem' = Current(w)
    /\ reviews' = Visible(w)
    /\ tx' = [tx EXCEPT ![w] = [Fresh EXCEPT !.pc = "done"]]
    /\ rowLock' = Unlock(rowLock, w)
    /\ UNCHANGED <<job, advisory>>

Committed(w) == CASE Kind(w) = "review" -> "none"
                  [] Kind(w) = "import" -> IF tx[w].saw = NoRow THEN "inserted" ELSE "updated"
                  [] Kind(w) = "backfill" -> "updated"

Commit(w) ==
    /\ At(w, "commit")
    /\ problem' = Current(w)
    /\ reviews' = Visible(w)
    /\ tx' = [tx EXCEPT ![w] = [Fresh EXCEPT !.pc = IF Kind(w) = "review" THEN "answer" ELSE "done",
                                             !.new = tx[w].new, !.outcome = Committed(w)]]
    /\ rowLock' = Unlock(rowLock, w)
    /\ advisory' = Unlock(advisory, w)
    /\ UNCHANGED job

(* w waits for v. *)
WaitsFor(w, v) ==
    /\ w # v
    /\ \/ At(w, "trigger") /\ advisory = v
       \/ tx[w].pc \in {"apply", "write"} /\ rowLock = v

(* PostgreSQL's deadlock detector ends one of two writers that wait for    *)
(* each other (SQLSTATE 40P01).                                            *)
DeadlockAbort(w) ==
    /\ \E v \in Writers : WaitsFor(w, v) /\ WaitsFor(v, w)
    /\ Abort(w, OnError(w))

-----------------------------------------------------------------------------
Init ==
    /\ job \in [Writers -> Jobs]
    /\ problem \in Rows
    /\ reviews = {}
    /\ tx = [w \in Writers |-> Fresh]
    /\ rowLock = None /\ advisory = None

Step(w) ==
    \/ ReviewInsert(w) \/ ReviewAnswer(w) \/ ReviewReport(w)
    \/ ImportFind(w) \/ ImportWrite(w) \/ ImportDelete(w) \/ ImportInsert(w)
    \/ BackfillRead(w) \/ BackfillWrite(w) \/ BackfillLook(w) \/ BackfillInsert(w)
    \/ Recompute(w) \/ Apply(w) \/ Commit(w)
    \/ DeadlockAbort(w)

Next == \E w \in Writers : Step(w)

Spec == Init /\ [][Next]_vars

(* A statement that can run does run: each writer is a live connection and *)
(* the deadlock detector is PostgreSQL's.  A lock freed is taken by one of *)
(* those waiting; each writer asks for each lock a bounded number of times.*)
FairSpec == Spec /\ \A w \in Writers : WF_vars(Step(w))

-----------------------------------------------------------------------------
(* Properties *)

(* Types; and only a writer in the middle of a transaction holds a lock or *)
(* has writes the others cannot see yet.                                   *)
TypeOK ==
    /\ job \in [Writers -> Jobs]
    /\ problem \in Problem \cup {NoRow}
    /\ reviews \subseteq Review
    /\ \A w \in Writers :
          /\ tx[w].pc \in Locations /\ tx[w].outcome \in Outcomes
          /\ tx[w].saw \in Problem \cup {NoRow} /\ tx[w].row \in Problem \cup {NoRow}
          /\ tx[w].added \subseteq Review /\ tx[w].deleted \subseteq Review
          /\ tx[w].new \in Rated \cup {None}
          /\ rowLock = w <=> tx[w].row # NoRow
          /\ tx[w].pc \in {"start", "answer", "report", "done"} =>
                tx[w].row = NoRow /\ tx[w].added = {} /\ tx[w].deleted = {} /\ advisory # w
    /\ rowLock \in Writers \cup {None} /\ advisory \in Writers \cup {None}

(* A commit that changes the reviews of a problem also publishes the       *)
(* consensus of exactly those reviews, whichever writers overlapped.       *)
ReviewsArePublished ==
    [][reviews' # reviews /\ ByMean
          => [t |-> problem'.t, s |-> problem'.s] = Consensus(reviews', problem')]_vars

(* The backfill leaves at most one synthetic review on a problem, however  *)
(* often and however concurrently it runs.                                 *)
OneSynthetic == Cardinality({r \in reviews : r.synth}) <= 1

(* An import with reviews commits with exactly the file's reviews: nothing *)
(* a reviewer or the backfill wrote meanwhile is mixed in.                 *)
ImportReplaces ==
    [][\A w \in Writers :
          /\ Kind(w) = "import" /\ At(w, "commit") /\ tx'[w].pc = "done"
          /\ job[w].reviews # <<>>
          => reviews' = FileReviews(w)]_vars

(* Every writer gets an answer: lock order inversions between a review     *)
(* (advisory, then row) and an import or backfill (row, then advisory) end *)
(* with one of the two aborted.                                            *)
WritersFinish == \A w \in Writers : <>At(w, "done")
=============================================================================
