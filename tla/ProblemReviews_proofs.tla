------------------------ MODULE ProblemReviews_proofs ------------------------
(***************************************************************************)
(* Theorems about ProblemReviews: a commit publishes the consensus of the  *)
(* reviews it leaves, an import leaves exactly its file's reviews, a       *)
(* problem has at most one synthetic review, and what is committed stays a *)
(* rating and a score, for any number of writers, any jobs and any initial *)
(* row.                                                                    *)
(***************************************************************************)
EXTENDS ProblemReviews, FiniteSetTheorems, WellFoundedInduction, TLAPS

USE WritersAssumption, JobsAssumption, RowsAssumption

-----------------------------------------------------------------------------
(* The inductive invariant *)

Whole(p) == DOMAIN p = {"t", "s", "status", "marked"}

AtMostOne(S) == \A x, y \in S : x = y

Synthetic(R) == {r \in R : r.synth}

Inside == {"delete", "look", "insert", "trigger", "apply", "commit"}

Changed(w) == tx[w].added # {} \/ tx[w].deleted # {}

(* The first k reviews of the file of w. *)
FirstReviews(w, k) == {r \in FileReviews(w) : r.n <= k}

Fields(w) ==
    DOMAIN tx[w] = {"pc", "saw", "row", "added", "deleted", "new", "outcome", "answer"}

(* Between transactions a writer has no uncommitted writes and no lock. *)
Outside(w) ==
    tx[w].pc \in {"start", "write", "answer", "report", "done"}
        => /\ tx[w].added = {} /\ tx[w].deleted = {}
           /\ rowLock # w /\ advisory # w

(* Which program is where, and what it has written by then. *)
Stages(w) ==
    /\ tx[w].pc \in Locations
    /\ tx[w].pc = "delete" => Kind(w) = "import"
    /\ tx[w].pc = "look" => Kind(w) = "backfill"
    /\ tx[w].pc \in {"delete", "look"} => ~Changed(w)
    /\ tx[w].pc \in {"write", "insert"} => Kind(w) \in {"import", "backfill"}
    /\ tx[w].pc \in {"insert"} /\ Kind(w) = "backfill" => ~Changed(w)
    /\ tx[w].pc \in {"delete", "insert", "trigger", "apply"} /\ Kind(w) = "import"
          => job[w].reviews # <<>>
    /\ tx[w].pc \in {"trigger", "apply"} /\ Kind(w) # "import" => tx[w].added # {}
    /\ tx[w].pc = "answer" => Kind(w) = "review"

(* An import and a backfill hold the row from their first statement on;    *)
(* what was read for the consensus is covered by the advisory lock until   *)
(* the commit.                                                             *)
Locked(w) ==
    /\ tx[w].pc \in Inside /\ Kind(w) # "review" => rowLock = w
    /\ tx[w].pc = "apply" => advisory = w
    /\ tx[w].pc = "commit" /\ Changed(w) => rowLock = w /\ advisory = w

(* c is the consensus of the reviews R. *)
Publishes(c, R) == c.s = MeanScore(R) /\ (ByMean => c.t = MeanRating(R))

(* The row a writer will commit carries the consensus of the reviews it    *)
(* will commit.                                                            *)
Means(w) ==
    /\ tx[w].pc = "apply" => Publishes(tx[w].new, Visible(w))
    /\ tx[w].pc = "commit" /\ Changed(w) => Publishes(tx[w].row, Visible(w))

RowIsWhole(w) ==
    /\ rowLock = w => Whole(tx[w].row)
    /\ tx[w].pc \in Inside /\ rowLock # w => Whole(problem)
    /\ tx[w].pc = "write" /\ Kind(w) = "backfill" => Whole(problem)

(* An import has deleted every committed review and written a prefix of    *)
(* its file.                                                               *)
FileFits(w) ==
    tx[w].pc \in {"insert", "trigger", "apply", "commit"} /\ Kind(w) = "import" /\ job[w].reviews # <<>>
        => /\ reviews \subseteq tx[w].deleted
           /\ IsFiniteSet(tx[w].added)
           /\ tx[w].added = FirstReviews(w, Cardinality(tx[w].added))
           /\ Cardinality(tx[w].added) <= Len(job[w].reviews)
           /\ tx[w].pc = "insert" => Cardinality(tx[w].added) < Len(job[w].reviews)
           /\ tx[w].pc = "commit" => Cardinality(tx[w].added) = Len(job[w].reviews)

(* Only a backfill writes a synthetic review, and only onto a problem that *)
(* has none.                                                               *)
Synthesis(w) ==
    /\ Kind(w) # "backfill" => Synthetic(tx[w].added) = {}
    /\ Kind(w) = "backfill" =>
          /\ tx[w].deleted = {}
          /\ AtMostOne(tx[w].added)
          /\ tx[w].pc = "insert" \/ tx[w].added # {} => Synthetic(reviews) = {}

Writer(w) ==
    /\ Fields(w) /\ Outside(w) /\ Stages(w) /\ Locked(w) /\ Means(w)
    /\ RowIsWhole(w) /\ FileFits(w) /\ Synthesis(w)

Table ==
    /\ job \in [Writers -> Jobs]
    /\ DOMAIN tx = Writers
    /\ problem # NoRow => Whole(problem)
    /\ AtMostOne(Synthetic(reviews))

Inv == Table /\ \A w \in Writers : Writer(w)

-----------------------------------------------------------------------------
(* What a step of one writer leaves to the others *)

(* A step of w is its own: it takes no lock from another writer, leaves a  *)
(* whole row, and changes the reviews only under both locks.               *)
Apart(w) ==
    /\ job' = job
    /\ DOMAIN tx' = Writers
    /\ \A v \in Writers \ {w} :
          /\ tx'[v] = tx[v]
          /\ rowLock' = v <=> rowLock = v
          /\ advisory' = v <=> advisory = v
    /\ problem' = problem \/ Whole(problem')
    /\ reviews' = reviews \/ (rowLock = w /\ advisory = w)

LEMMA Update ==
    ASSUME Inv, NEW w \in Writers, NEW t, tx' = [tx EXCEPT ![w] = t]
    PROVE  /\ tx'[w] = t
           /\ DOMAIN tx' = Writers
           /\ \A v \in Writers \ {w} : tx'[v] = tx[v]
BY DEF Inv, Table

LEMMA Kinds ==
    ASSUME Inv, NEW w \in Writers
    PROVE  /\ job[w] \in ReviewJob \cup ImportJob \cup BackfillJob
           /\ Kind(w) \in {"review", "import", "backfill"}
           /\ Kind(w) = "import" => job[w].reviews \in Seq(Rated)
<1>1. job[w] \in ReviewJob \cup ImportJob \cup BackfillJob
  BY DEF Inv, Table
<1>2. QED
  BY <1>1 DEF Kind, ReviewJob, ImportJob, BackfillJob

LEMMA OthersKeep ==
    ASSUME Inv, NEW w \in Writers, Apart(w), NEW v \in Writers \ {w}
    PROVE  Writer(v)'
<1>1. /\ tx'[v] = tx[v] /\ job' = job
      /\ rowLock' = v <=> rowLock = v
      /\ advisory' = v <=> advisory = v
      /\ Kind(v)' = Kind(v) /\ Changed(v)' = Changed(v)
  BY DEF Apart, Kind, Changed
<1>2. Writer(v)
  BY DEF Inv
<1>3. Fields(v)' /\ Outside(v)' /\ Stages(v)' /\ Locked(v)'
  <2>1. Fields(v)' /\ Outside(v)'
    BY <1>1, <1>2 DEF Writer, Fields, Outside
  <2>2. Stages(v)'
    BY <1>1, <1>2 DEF Writer, Stages
  <2>3. Locked(v)'
    BY <1>1, <1>2 DEF Writer, Locked
  <2>4. QED
    BY <2>1, <2>2, <2>3
<1>4. rowLock = v \/ advisory = v => reviews' = reviews
  BY DEF Apart
<1>5. Means(v)'
  <2>1. tx[v].pc = "apply" \/ (tx[v].pc = "commit" /\ Changed(v)) => Visible(v)' = Visible(v)
    BY <1>1, <1>2, <1>4 DEF Writer, Locked, Visible
  <2>2. QED
    BY <1>1, <1>2, <2>1 DEF Writer, Means
<1>6. RowIsWhole(v)'
  <2>1. Whole(problem) => Whole(problem)'
    BY DEF Apart, Whole
  <2>2. QED
    BY <1>1, <1>2, <2>1 DEF Writer, RowIsWhole, Whole
<1>7. FileFits(v)'
  <2>1. ASSUME tx[v].pc \in {"insert", "trigger", "apply", "commit"}, Kind(v) = "import"
        PROVE  reviews' = reviews
    BY <1>2, <1>4, <2>1 DEF Writer, Locked, Inside
  <2>2. \A k : FirstReviews(v, k)' = FirstReviews(v, k)
    BY <1>1 DEF FirstReviews, FileReviews
  <2>3. QED
    BY <1>1, <1>2, <2>1, <2>2 DEF Writer, FileFits
<1>8. Synthesis(v)'
  <2>1. ASSUME Kind(v) = "backfill", tx[v].pc = "insert" \/ tx[v].added # {}
        PROVE  reviews' = reviews
    <3>1. tx[v].pc \in Inside
      BY <1>2, <2>1 DEF Writer, Outside, Stages, Locations, Inside
    <3>2. QED
      BY <1>2, <1>4, <2>1, <3>1 DEF Writer, Locked
  <2>2. QED
    BY <1>1, <1>2, <2>1 DEF Writer, Synthesis, Synthetic
<1>9. QED
  BY <1>3, <1>5, <1>6, <1>7, <1>8 DEF Writer

(* It is enough to look at the writer that moves. *)
LEMMA StepKeeps ==
    ASSUME Inv, NEW w \in Writers, Apart(w), Writer(w)', AtMostOne(Synthetic(reviews'))
    PROVE  Inv'
<1>1. Table'
  BY DEF Inv, Table, Apart, Whole, Synthetic
<1>2. \A v \in Writers : Writer(v)'
  BY OthersKeep
<1>3. QED
  BY <1>1, <1>2 DEF Inv

(* A step that commits nothing. *)
LEMMA PrivateStep ==
    ASSUME Inv, NEW w \in Writers, NEW t,
           tx' = [tx EXCEPT ![w] = t],
           job' = job, problem' = problem, reviews' = reviews,
           rowLock' \in {rowLock, Unlock(rowLock, w)} \/ (rowLock \in {None, w} /\ rowLock' = w),
           advisory' \in {advisory, Unlock(advisory, w)} \/ (advisory \in {None, w} /\ advisory' = w)
    PROVE  /\ Apart(w)
           /\ tx'[w] = t
           /\ Kind(w)' = Kind(w)
           /\ Writer(w)' => Inv'
<1>1. Apart(w)
  BY Update DEF Apart, Unlock
<1>2. AtMostOne(Synthetic(reviews'))
  BY DEF Inv, Table, Synthetic
<1>3. QED
  BY <1>1, <1>2, Update, StepKeeps DEF Kind

-----------------------------------------------------------------------------
(* Steps outside a transaction, and the rollback *)

(* A writer that holds nothing and has written nothing. *)
LEMMA NothingPending ==
    ASSUME Inv, NEW w \in Writers, Kind(w)' = Kind(w), job' = job, Fields(w)',
           tx'[w].pc \in {"start", "write", "answer", "report", "done"},
           tx'[w].pc = "write" => Kind(w) \in {"import", "backfill"},
           tx'[w].pc = "write" /\ Kind(w) = "backfill" => Whole(problem'),
           tx'[w].pc = "answer" => Kind(w) = "review",
           tx'[w].added = {}, tx'[w].deleted = {}, rowLock' # w, advisory' # w
    PROVE  Writer(w)'
<1>1. Outside(w)' /\ Stages(w)' /\ Locked(w)'
  BY DEF Outside, Stages, Locations, Changed, Locked, Inside
<1>2. Means(w)' /\ RowIsWhole(w)' /\ FileFits(w)' /\ Synthesis(w)'
  BY DEF Means, RowIsWhole, Inside, Whole, FileFits, Synthesis, Synthetic, AtMostOne
<1>3. QED
  BY <1>1, <1>2 DEF Writer

LEMMA AbortKeeps ==
    ASSUME Inv, NEW w \in Writers, NEW outcome, Abort(w, outcome)
    PROVE  Inv'
<1> DEFINE pc == IF outcome = "cross_walk" THEN "report" ELSE "done"
           t == [Fresh EXCEPT !.pc = pc, !.outcome = outcome]
<1>1. /\ tx' = [tx EXCEPT ![w] = t]
      /\ rowLock' = Unlock(rowLock, w) /\ advisory' = Unlock(advisory, w)
      /\ job' = job /\ problem' = problem /\ reviews' = reviews
  BY DEF Abort
<1>2. /\ DOMAIN t = {"pc", "saw", "row", "added", "deleted", "new", "outcome", "answer"}
      /\ t.pc = pc /\ t.added = {} /\ t.deleted = {}
  <2> HIDE DEF pc
  <2>1. QED
    BY DEF Fresh
<1>3. pc \in {"report", "done"}
  OBVIOUS
<1> HIDE DEF t, pc
<1>4. tx'[w] = t /\ Kind(w)' = Kind(w) /\ (Writer(w)' => Inv')
  BY <1>1, PrivateStep
<1>5. Fields(w)'
  BY <1>2, <1>4 DEF Fields
<1>6. rowLock' # w /\ advisory' # w
  BY <1>1 DEF Unlock
<1>7. tx'[w].pc = pc /\ tx'[w].added = {} /\ tx'[w].deleted = {}
  BY <1>2, <1>4
<1>8. Writer(w)'
  BY <1>1, <1>3, <1>4, <1>5, <1>6, <1>7, NothingPending
<1>9. QED
  BY <1>4, <1>8

LEMMA DeadlockAbortKeeps ==
    ASSUME Inv, NEW w \in Writers, DeadlockAbort(w)
    PROVE  Inv'
BY AbortKeeps DEF DeadlockAbort

(* A statement that touches neither a lock nor a committed row. *)
LEMMA QuietStep ==
    ASSUME Inv, NEW w \in Writers, NEW t, tx' = [tx EXCEPT ![w] = t],
           UNCHANGED <<job, problem, reviews, rowLock, advisory>>
    PROVE  /\ tx'[w] = t
           /\ Kind(w)' = Kind(w)
           /\ Writer(w)' => Inv'
BY PrivateStep

(* The record of w, in a form the provers can read fields from. *)
LEMMA Written ==
    ASSUME Inv, NEW w \in Writers
    PROVE  Fields(w) /\ Outside(w) /\ Stages(w) /\ Locked(w) /\ Means(w)
           /\ RowIsWhole(w) /\ FileFits(w) /\ Synthesis(w)
BY DEF Inv, Writer

LEMMA ReviewAnswerKeeps ==
    ASSUME Inv, NEW w \in Writers, ReviewAnswer(w)
    PROVE  Inv'
<1> DEFINE t == [tx[w] EXCEPT !.pc = "done", !.outcome = "created",
                              !.answer = [t |-> problem.t, s |-> problem.s]]
<1>1. tx' = [tx EXCEPT ![w] = t] /\ UNCHANGED <<job, problem, reviews, rowLock, advisory>>
  BY DEF ReviewAnswer
<1>2. /\ DOMAIN t = {"pc", "saw", "row", "added", "deleted", "new", "outcome", "answer"}
      /\ t.pc = "done" /\ t.added = tx[w].added /\ t.deleted = tx[w].deleted
  BY Written DEF Fields
<1> HIDE DEF t
<1>3. tx'[w] = t /\ Kind(w)' = Kind(w) /\ (Writer(w)' => Inv')
  BY <1>1, QuietStep
<1>4. Fields(w)' /\ tx'[w].pc = "done" /\ tx'[w].added = tx[w].added /\ tx'[w].deleted = tx[w].deleted
  BY <1>2, <1>3 DEF Fields
<1>5. tx[w].added = {} /\ tx[w].deleted = {} /\ rowLock # w /\ advisory # w
  BY Written DEF Outside, ReviewAnswer, At
<1>6. Writer(w)'
  BY <1>1, <1>3, <1>4, <1>5, NothingPending
<1>7. QED
  BY <1>3, <1>6

LEMMA ReviewReportKeeps ==
    ASSUME Inv, NEW w \in Writers, ReviewReport(w)
    PROVE  Inv'
<1> DEFINE t == [tx[w] EXCEPT !.pc = "done", !.answer = reviews]
<1>1. tx' = [tx EXCEPT ![w] = t] /\ UNCHANGED <<job, problem, reviews, rowLock, advisory>>
  BY DEF ReviewReport
<1>2. /\ DOMAIN t = {"pc", "saw", "row", "added", "deleted", "new", "outcome", "answer"}
      /\ t.pc = "done" /\ t.added = tx[w].added /\ t.deleted = tx[w].deleted
  BY Written DEF Fields
<1> HIDE DEF t
<1>3. tx'[w] = t /\ Kind(w)' = Kind(w) /\ (Writer(w)' => Inv')
  BY <1>1, QuietStep
<1>4. Fields(w)' /\ tx'[w].pc = "done" /\ tx'[w].added = tx[w].added /\ tx'[w].deleted = tx[w].deleted
  BY <1>2, <1>3 DEF Fields
<1>5. tx[w].added = {} /\ tx[w].deleted = {} /\ rowLock # w /\ advisory # w
  BY Written DEF Outside, ReviewReport, At
<1>6. Writer(w)'
  BY <1>1, <1>3, <1>4, <1>5, NothingPending
<1>7. QED
  BY <1>3, <1>6

(* The two reads that decide whether a script writes at all. *)
LEMMA ReadKeeps ==
    ASSUME Inv, NEW w \in Writers, At(w, "start"), NEW end,
           Kind(w) = "import" \/ (Kind(w) = "backfill" /\ (end = "none" => problem # NoRow)),
           tx' = [tx EXCEPT ![w].pc = IF end = "none" THEN "write" ELSE "done",
                            ![w].outcome = end, ![w].saw = problem],
           UNCHANGED <<job, problem, reviews, rowLock, advisory>>
    PROVE  Inv'
<1> DEFINE pc == IF end = "none" THEN "write" ELSE "done"
           t == [tx[w] EXCEPT !.pc = pc, !.outcome = end, !.saw = problem]
<1>1. tx' = [tx EXCEPT ![w] = t]
  OBVIOUS
<1>2. /\ DOMAIN t = {"pc", "saw", "row", "added", "deleted", "new", "outcome", "answer"}
      /\ t.pc = pc /\ t.added = tx[w].added /\ t.deleted = tx[w].deleted
  <2> HIDE DEF pc
  <2>1. QED
    BY Written DEF Fields
<1> HIDE DEF t
<1>3. tx'[w] = t /\ Kind(w)' = Kind(w) /\ (Writer(w)' => Inv')
  BY <1>1, QuietStep
<1>4. Fields(w)' /\ tx'[w].pc = pc /\ tx'[w].added = tx[w].added /\ tx'[w].deleted = tx[w].deleted
  <2> HIDE DEF pc
  <2>1. QED
    BY <1>2, <1>3 DEF Fields
<1>5. tx[w].added = {} /\ tx[w].deleted = {} /\ rowLock # w /\ advisory # w
  BY Written DEF Outside, At
<1>6. /\ pc \in {"write", "done"}
      /\ pc = "write" /\ Kind(w) = "backfill" => Whole(problem')
      /\ pc = "write" => Kind(w) \in {"import", "backfill"}
  BY DEF Inv, Table, Whole
<1> HIDE DEF pc
<1>7. Writer(w)'
  BY <1>3, <1>4, <1>5, <1>6, NothingPending
<1>8. QED
  BY <1>3, <1>7

LEMMA ImportFindKeeps ==
    ASSUME Inv, NEW w \in Writers, ImportFind(w)
    PROVE  Inv'
BY ReadKeeps DEF ImportFind

LEMMA BackfillReadKeeps ==
    ASSUME Inv, NEW w \in Writers, BackfillRead(w)
    PROVE  Inv'
<1> DEFINE end == IF problem = NoRow \/ problem.marked THEN "skipped" ELSE "none"
<1>1. /\ tx' = [tx EXCEPT ![w].pc = IF end = "none" THEN "write" ELSE "done",
                          ![w].outcome = end, ![w].saw = problem]
      /\ UNCHANGED <<job, problem, reviews, rowLock, advisory>>
      /\ At(w, "start") /\ Kind(w) = "backfill"
  BY DEF BackfillRead
<1>2. end = "none" => problem # NoRow
  OBVIOUS
<1> HIDE DEF end
<1>3. QED
  BY <1>1, <1>2, ReadKeeps

-----------------------------------------------------------------------------
(* The first write of each program *)

LEMMA ReviewInsertKeeps ==
    ASSUME Inv, NEW w \in Writers, ReviewInsert(w)
    PROVE  Inv'
<1>1. /\ tx[w].added = {} /\ tx[w].deleted = {} /\ rowLock # w /\ advisory # w
      /\ Kind(w) = "review" /\ UNCHANGED <<job, problem, reviews, rowLock, advisory>>
  BY Written DEF Outside, ReviewInsert, At
<1>2. CASE problem = NoRow
  <2> DEFINE t == [tx[w] EXCEPT !.pc = "done", !.outcome = "not_found"]
  <2>1. tx' = [tx EXCEPT ![w] = t]
    BY <1>2 DEF ReviewInsert
  <2>2. /\ DOMAIN t = {"pc", "saw", "row", "added", "deleted", "new", "outcome", "answer"}
        /\ t.pc = "done" /\ t.added = tx[w].added /\ t.deleted = tx[w].deleted
    BY Written DEF Fields
  <2> HIDE DEF t
  <2>3. tx'[w] = t /\ Kind(w)' = Kind(w) /\ (Writer(w)' => Inv')
    BY <1>1, <2>1, QuietStep
  <2>4. Writer(w)'
    BY <1>1, <2>2, <2>3, NothingPending DEF Fields
  <2>5. QED
    BY <2>3, <2>4
<1>3. CASE problem # NoRow
  <2> DEFINE r == [by |-> w, n |-> 1, t |-> job[w].t, s |-> job[w].s, synth |-> FALSE]
             t == [tx[w] EXCEPT !.pc = "trigger", !.added = {r}]
  <2>1. tx' = [tx EXCEPT ![w] = t]
    BY <1>3 DEF ReviewInsert
  <2>2. r.synth = FALSE
    OBVIOUS
  <2> HIDE DEF r
  <2>3. /\ DOMAIN t = {"pc", "saw", "row", "added", "deleted", "new", "outcome", "answer"}
        /\ t.pc = "trigger" /\ t.added = {r} /\ t.deleted = tx[w].deleted
    BY Written DEF Fields
  <2> HIDE DEF t
  <2>4. tx'[w] = t /\ Kind(w)' = Kind(w) /\ (Writer(w)' => Inv')
    BY <1>1, <2>1, QuietStep
  <2>5. Fields(w)' /\ Outside(w)' /\ Stages(w)' /\ Locked(w)' /\ Means(w)' /\ FileFits(w)'
    BY <1>1, <2>3, <2>4 DEF Fields, Outside, Stages, Locations, Changed, Locked, Means, FileFits
  <2>6. RowIsWhole(w)'
    BY <1>1, <1>3, <2>3, <2>4 DEF RowIsWhole, Inv, Table, Whole
  <2>7. Synthesis(w)'
    BY <1>1, <2>2, <2>3, <2>4 DEF Synthesis, Synthetic
  <2>8. QED
    BY <2>4, <2>5, <2>6, <2>7 DEF Writer
<1>4. QED
  BY <1>2, <1>3

(* The UPDATE or INSERT on problems that opens a script's transaction. *)
LEMMA FirstWriteKeeps ==
    ASSUME Inv, NEW w \in Writers, At(w, "write"), Free(rowLock, w),
           NEW row, Whole(row), NEW pc,
           \/ Kind(w) = "import" /\ pc = (IF job[w].reviews = <<>> THEN "commit" ELSE "delete")
           \/ Kind(w) = "backfill" /\ pc = "look",
           rowLock' = w, tx' = [tx EXCEPT ![w].row = row, ![w].pc = pc],
           UNCHANGED <<job, problem, reviews, advisory>>
    PROVE  Inv'
<1> DEFINE t == [tx[w] EXCEPT !.row = row, !.pc = pc]
<1>1. tx' = [tx EXCEPT ![w] = t]
  OBVIOUS
<1>2. tx[w].added = {} /\ tx[w].deleted = {} /\ rowLock # w /\ advisory # w
  BY Written DEF Outside, At
<1>3. /\ DOMAIN t = {"pc", "saw", "row", "added", "deleted", "new", "outcome", "answer"}
      /\ t.pc = pc /\ t.row = row /\ t.added = {} /\ t.deleted = {}
  BY <1>2, Written DEF Fields
<1> HIDE DEF t
<1>4. tx'[w] = t /\ Kind(w)' = Kind(w) /\ (Writer(w)' => Inv')
  BY <1>1, PrivateStep DEF Free
<1>5. pc \in {"commit", "delete", "look"}
  OBVIOUS
<1>6. Fields(w)' /\ Outside(w)'
  BY <1>3, <1>4, <1>5 DEF Fields, Outside
<1>7. Stages(w)'
  BY <1>3, <1>4, <1>5 DEF Stages, Locations, Changed
<1>8. Locked(w)' /\ Means(w)'
  BY <1>3, <1>4, <1>5 DEF Locked, Changed, Means
<1>9. RowIsWhole(w)'
  BY <1>3, <1>4, <1>5 DEF RowIsWhole, Whole
<1>10. FileFits(w)'
  BY <1>3, <1>4, <1>5 DEF FileFits
<1>11. Synthesis(w)'
  BY <1>3, <1>4, <1>5 DEF Synthesis, Synthetic, AtMostOne
<1>12. QED
  BY <1>4, <1>6, <1>7, <1>8, <1>9, <1>10, <1>11 DEF Writer

LEMMA ImportWriteKeeps ==
    ASSUME Inv, NEW w \in Writers, ImportWrite(w)
    PROVE  Inv'
<1> DEFINE old == IF problem = NoRow THEN NoScore ELSE problem.s
           row == [t |-> job[w].t, s |-> old, status |-> job[w].status, marked |-> FALSE]
<1>1. CASE Abort(w, OnError(w)) \/ Abort(w, OnCheck(w))
  BY <1>1, AbortKeeps
<1>2. ASSUME rowLock' = w,
             tx' = [tx EXCEPT ![w].row = row,
                              ![w].pc = IF job[w].reviews = <<>> THEN "commit" ELSE "delete"],
             UNCHANGED <<job, problem, reviews, advisory>>
      PROVE  Inv'
  <2>1. At(w, "write") /\ Kind(w) = "import" /\ Free(rowLock, w)
    BY DEF ImportWrite
  <2>2. Whole(row)
    BY DEF Whole
  <2> HIDE DEF row
  <2>3. QED
    BY <1>2, <2>1, <2>2, FirstWriteKeeps
<1>3. QED
  BY <1>1, <1>2 DEF ImportWrite

LEMMA BackfillWriteKeeps ==
    ASSUME Inv, NEW w \in Writers, BackfillWrite(w)
    PROVE  Inv'
<1> DEFINE row == [problem EXCEPT !.s = Midpoint(tx[w].saw.t), !.marked = TRUE]
<1>1. At(w, "write") /\ Kind(w) = "backfill" /\ Free(rowLock, w)
  BY DEF BackfillWrite
<1>2. Whole(row)
  <2>1. Whole(problem)
    BY <1>1, Written DEF RowIsWhole, At
  <2>2. QED
    BY <2>1 DEF Whole
<1>3. CASE FitsCheck(row)
  <2>1. rowLock' = w /\ tx' = [tx EXCEPT ![w].row = row, ![w].pc = "look"]
        /\ UNCHANGED <<job, problem, reviews, advisory>>
    BY <1>3 DEF BackfillWrite
  <2> HIDE DEF row
  <2>2. QED
    BY <1>1, <1>2, <2>1, FirstWriteKeeps
<1>4. CASE ~FitsCheck(row)
  BY <1>4, AbortKeeps DEF BackfillWrite
<1>5. QED
  BY <1>3, <1>4

-----------------------------------------------------------------------------
(* The reviews of an import *)

LEMMA FilePrefixes ==
    ASSUME Inv, NEW w \in Writers, Kind(w) = "import"
    PROVE  /\ Len(job[w].reviews) \in Nat
           /\ job[w].reviews # <<>> => Len(job[w].reviews) > 0
           /\ FirstReviews(w, 0) = {}
           /\ FirstReviews(w, Len(job[w].reviews)) = FileReviews(w)
           /\ \A r \in FileReviews(w) : r.synth = FALSE
           /\ \A k \in Nat : k < Len(job[w].reviews) =>
                 \E x : /\ {r \in FileReviews(w) : r.n = k + 1} = {x}
                        /\ x \notin FirstReviews(w, k)
                        /\ FirstReviews(w, k + 1) = FirstReviews(w, k) \cup {x}
<1> DEFINE R == job[w].reviews
           rv(i) == [by |-> w, n |-> i, t |-> R[i].t, s |-> R[i].s, synth |-> FALSE]
<1>1. R \in Seq(Rated)
  BY Kinds
<1>2. Len(R) \in Nat /\ DOMAIN R = 1..Len(R) /\ (R # <<>> => Len(R) > 0)
  BY <1>1
<1>3. FileReviews(w) = {rv(i) : i \in 1..Len(R)}
  BY <1>2 DEF FileReviews
<1>4. \A i : rv(i).n = i /\ rv(i).synth = FALSE
  OBVIOUS
<1> HIDE DEF R, rv
<1>5. /\ FirstReviews(w, 0) = {} /\ FirstReviews(w, Len(R)) = FileReviews(w)
      /\ \A r \in FileReviews(w) : r.synth = FALSE
  BY <1>2, <1>3, <1>4 DEF FirstReviews
<1>6. ASSUME NEW k \in Nat, k < Len(R)
      PROVE  /\ {r \in FileReviews(w) : r.n = k + 1} = {rv(k + 1)}
             /\ rv(k + 1) \notin FirstReviews(w, k)
             /\ FirstReviews(w, k + 1) = FirstReviews(w, k) \cup {rv(k + 1)}
  <2>1. k + 1 \in 1..Len(R) /\ rv(k + 1) \in FileReviews(w) /\ rv(k + 1).n = k + 1
    BY <1>2, <1>3, <1>4, <1>6
  <2>2. \A r \in FileReviews(w) : r.n \in Nat /\ (r.n = k + 1 => r = rv(k + 1))
    BY <1>2, <1>3, <1>4
  <2>3. {r \in FileReviews(w) : r.n = k + 1} = {rv(k + 1)}
    BY <2>1, <2>2
  <2>4. \A r \in FileReviews(w) : r.n <= k + 1 <=> r.n <= k \/ r.n = k + 1
    BY <2>2
  <2>5. rv(k + 1) \notin FirstReviews(w, k)
    BY <2>1 DEF FirstReviews
  <2>6. FirstReviews(w, k + 1) = FirstReviews(w, k) \cup {rv(k + 1)}
    BY <2>1, <2>2, <2>4 DEF FirstReviews
  <2>7. QED
    BY <2>3, <2>5, <2>6
<1>7. QED
  BY <1>2, <1>5, <1>6 DEF R

LEMMA ImportDeleteKeeps ==
    ASSUME Inv, NEW w \in Writers, ImportDelete(w)
    PROVE  Inv'
<1> DEFINE pc == IF Visible(w) = {} THEN "insert" ELSE "trigger"
           t == [tx[w] EXCEPT !.deleted = Visible(w), !.pc = pc]
<1>1. tx' = [tx EXCEPT ![w] = t] /\ UNCHANGED <<job, problem, reviews, rowLock, advisory>>
  BY DEF ImportDelete
<1>2. /\ Kind(w) = "import" /\ tx[w].added = {} /\ Visible(w) = reviews
      /\ job[w].reviews # <<>> /\ rowLock = w /\ Whole(tx[w].row)
  BY Written DEF Stages, Locked, Inside, Changed, Visible, RowIsWhole, ImportDelete, At
<1>3. pc \in {"insert", "trigger"}
  OBVIOUS
<1> HIDE DEF pc
<1>4. /\ DOMAIN t = {"pc", "saw", "row", "added", "deleted", "new", "outcome", "answer"}
      /\ t.pc = pc /\ t.added = {} /\ t.deleted = reviews /\ t.row = tx[w].row
  BY <1>2, Written DEF Fields
<1> HIDE DEF t
<1>5. tx'[w] = t /\ Kind(w)' = Kind(w) /\ (Writer(w)' => Inv')
  BY <1>1, QuietStep
<1>6. Fields(w)' /\ Outside(w)'
  BY <1>3, <1>4, <1>5 DEF Fields, Outside
<1>7. Stages(w)'
  BY <1>1, <1>2, <1>3, <1>4, <1>5 DEF Stages, Locations, Changed
<1>8. Locked(w)' /\ Means(w)'
  BY <1>1, <1>2, <1>3, <1>4, <1>5 DEF Locked, Means
<1>9. RowIsWhole(w)'
  BY <1>1, <1>2, <1>3, <1>4, <1>5 DEF RowIsWhole, Whole
<1>10. FileFits(w)'
  <2>1. IsFiniteSet({}) /\ Cardinality({}) = 0
    BY FS_EmptySet
  <2>2. FirstReviews(w, 0) = {} /\ 0 < Len(job[w].reviews) /\ Len(job[w].reviews) \in Nat
    BY <1>2, FilePrefixes
  <2>3. \A j : FirstReviews(w, j)' = FirstReviews(w, j)
    BY <1>1 DEF FirstReviews, FileReviews
  <2>4. /\ tx'[w].pc \in {"insert", "trigger"} /\ tx'[w].deleted = reviews
        /\ IsFiniteSet(tx'[w].added) /\ Cardinality(tx'[w].added) = 0
        /\ tx'[w].added = FirstReviews(w, 0)
    BY <1>3, <1>4, <1>5, <2>1, <2>2
  <2>5. QED
    BY <1>1, <2>2, <2>3, <2>4 DEF FileFits
<1>11. Synthesis(w)'
  BY <1>2, <1>4, <1>5 DEF Synthesis, Synthetic
<1>12. QED
  BY <1>5, <1>6, <1>7, <1>8, <1>9, <1>10, <1>11 DEF Writer

LEMMA ImportInsertKeeps ==
    ASSUME Inv, NEW w \in Writers, ImportInsert(w)
    PROVE  Inv'
<1> DEFINE k == Cardinality(tx[w].added)
           one == {r \in FileReviews(w) : r.n = k + 1}
           t == [tx[w] EXCEPT !.pc = "trigger", !.added = tx[w].added \cup one]
<1>1. tx' = [tx EXCEPT ![w] = t] /\ UNCHANGED <<job, problem, reviews, rowLock, advisory>>
  BY DEF ImportInsert
<1>2. tx[w].pc = "insert" /\ Kind(w) = "import"
  BY DEF ImportInsert, At
<1>3. /\ job[w].reviews # <<>> /\ rowLock = w /\ Whole(tx[w].row)
      /\ reviews \subseteq tx[w].deleted
      /\ IsFiniteSet(tx[w].added) /\ tx[w].added = FirstReviews(w, k)
      /\ k < Len(job[w].reviews)
      /\ Synthetic(tx[w].added) = {}
  BY <1>2, Written DEF Stages, Locked, Inside, RowIsWhole, FileFits, Synthesis
<1>4. k \in Nat
  BY <1>3, FS_CardinalityType
<1>5. PICK x : one = {x} /\ x \notin FirstReviews(w, k)
               /\ FirstReviews(w, k + 1) = FirstReviews(w, k) \cup {x}
  BY <1>2, <1>3, <1>4, FilePrefixes
<1>6. /\ IsFiniteSet(tx[w].added \cup one) /\ Cardinality(tx[w].added \cup one) = k + 1
      /\ tx[w].added \cup one = FirstReviews(w, k + 1)
  <2>1. x \notin tx[w].added /\ tx[w].added \cup one = tx[w].added \cup {x}
    BY <1>3, <1>5
  <2>2. IsFiniteSet(tx[w].added \cup {x}) /\ Cardinality(tx[w].added \cup {x}) = Cardinality(tx[w].added) + 1
    BY <1>3, <2>1, FS_AddElement
  <2>3. QED
    BY <1>3, <1>5, <2>1, <2>2
<1>7. Synthetic(tx[w].added \cup one) = {}
  BY <1>2, <1>3, FilePrefixes DEF Synthetic
<1>8. /\ DOMAIN t = {"pc", "saw", "row", "added", "deleted", "new", "outcome", "answer"}
      /\ t.pc = "trigger" /\ t.added = tx[w].added \cup one /\ t.deleted = tx[w].deleted
      /\ t.row = tx[w].row
  <2> HIDE DEF one
  <2>1. QED
    BY Written DEF Fields
<1>9. Len(job[w].reviews) \in Nat
  BY <1>2, FilePrefixes
<1> HIDE DEF t, k, one
<1>10. tx'[w] = t /\ Kind(w)' = Kind(w) /\ (Writer(w)' => Inv')
  BY <1>1, QuietStep
<1>11. Fields(w)' /\ Outside(w)' /\ Stages(w)'
  BY <1>1, <1>2, <1>3, <1>8, <1>10 DEF Fields, Outside, Stages, Locations
<1>12. Locked(w)' /\ Means(w)' /\ RowIsWhole(w)'
  BY <1>1, <1>2, <1>3, <1>8, <1>10 DEF Locked, Means, RowIsWhole, Whole
<1>13. FileFits(w)'
  <2>1. /\ tx'[w].pc = "trigger" /\ tx'[w].added = FirstReviews(w, k + 1)
        /\ Cardinality(tx'[w].added) = k + 1 /\ IsFiniteSet(tx'[w].added)
        /\ tx'[w].deleted = tx[w].deleted
    BY <1>6, <1>8, <1>10
  <2>2. k + 1 <= Len(job[w].reviews)
    BY <1>3, <1>4, <1>9
  <2>3. \A j : FirstReviews(w, j)' = FirstReviews(w, j)
    BY <1>1 DEF FirstReviews, FileReviews
  <2>4. QED
    BY <1>1, <1>3, <2>1, <2>2, <2>3 DEF FileFits
<1>14. Synthesis(w)'
  BY <1>2, <1>7, <1>8, <1>10 DEF Synthesis, Synthetic
<1>15. QED
  BY <1>10, <1>11, <1>12, <1>13, <1>14 DEF Writer

-----------------------------------------------------------------------------
(* The synthetic review of a backfill *)

LEMMA BackfillLookKeeps ==
    ASSUME Inv, NEW w \in Writers, BackfillLook(w)
    PROVE  Inv'
<1> DEFINE pc == IF \E r \in Visible(w) : r.synth THEN "commit" ELSE "insert"
           t == [tx[w] EXCEPT !.pc = pc]
<1>1. tx' = [tx EXCEPT ![w] = t] /\ UNCHANGED <<job, problem, reviews, rowLock, advisory>>
  BY DEF BackfillLook, Goto
<1>2. /\ Kind(w) = "backfill" /\ tx[w].added = {} /\ tx[w].deleted = {}
      /\ rowLock = w /\ Whole(tx[w].row)
  BY Written DEF Stages, Locked, Inside, Changed, RowIsWhole, BackfillLook, At
<1>3. pc \in {"commit", "insert"} /\ (pc = "insert" => Synthetic(reviews) = {})
  BY <1>2 DEF Visible, Synthetic
<1> HIDE DEF pc
<1>4. /\ DOMAIN t = {"pc", "saw", "row", "added", "deleted", "new", "outcome", "answer"}
      /\ t.pc = pc /\ t.added = {} /\ t.deleted = {} /\ t.row = tx[w].row
  BY <1>2, Written DEF Fields
<1> HIDE DEF t
<1>5. tx'[w] = t /\ Kind(w)' = Kind(w) /\ (Writer(w)' => Inv')
  BY <1>1, QuietStep
<1>6. Fields(w)' /\ Outside(w)' /\ Stages(w)'
  BY <1>2, <1>3, <1>4, <1>5 DEF Fields, Outside, Stages, Locations, Changed
<1>7. Locked(w)' /\ Means(w)' /\ RowIsWhole(w)'
  BY <1>1, <1>2, <1>3, <1>4, <1>5 DEF Locked, Changed, Means, RowIsWhole, Whole
<1>8. FileFits(w)'
  BY <1>2, <1>5 DEF FileFits
<1>9. Synthesis(w)'
  BY <1>1, <1>2, <1>3, <1>4, <1>5 DEF Synthesis, Synthetic, AtMostOne
<1>10. QED
  BY <1>5, <1>6, <1>7, <1>8, <1>9 DEF Writer

LEMMA BackfillInsertKeeps ==
    ASSUME Inv, NEW w \in Writers, BackfillInsert(w)
    PROVE  Inv'
<1> DEFINE r == [by |-> w, n |-> 1, t |-> tx[w].saw.t, s |-> Midpoint(tx[w].saw.t), synth |-> TRUE]
           t == [tx[w] EXCEPT !.pc = "trigger", !.added = {r}]
<1>1. tx' = [tx EXCEPT ![w] = t] /\ UNCHANGED <<job, problem, reviews, rowLock, advisory>>
  BY DEF BackfillInsert
<1>2. /\ Kind(w) = "backfill" /\ tx[w].deleted = {}
      /\ rowLock = w /\ Whole(tx[w].row) /\ Synthetic(reviews) = {}
  BY Written DEF Locked, Inside, RowIsWhole, Synthesis, BackfillInsert, At
<1> HIDE DEF r
<1>3. /\ DOMAIN t = {"pc", "saw", "row", "added", "deleted", "new", "outcome", "answer"}
      /\ t.pc = "trigger" /\ t.added = {r} /\ t.deleted = {} /\ t.row = tx[w].row
  BY <1>2, Written DEF Fields
<1> HIDE DEF t
<1>4. tx'[w] = t /\ Kind(w)' = Kind(w) /\ (Writer(w)' => Inv')
  BY <1>1, QuietStep
<1>5. Fields(w)' /\ Outside(w)' /\ Stages(w)'
  BY <1>2, <1>3, <1>4 DEF Fields, Outside, Stages, Locations
<1>6. Locked(w)' /\ Means(w)' /\ RowIsWhole(w)'
  BY <1>1, <1>2, <1>3, <1>4 DEF Locked, Means, RowIsWhole, Whole
<1>7. FileFits(w)'
  BY <1>2, <1>4 DEF FileFits
<1>8. Synthesis(w)'
  BY <1>1, <1>2, <1>3, <1>4 DEF Synthesis, Synthetic, AtMostOne
<1>9. QED
  BY <1>4, <1>5, <1>6, <1>7, <1>8 DEF Writer

-----------------------------------------------------------------------------
(* The trigger *)

(* The loop of an import goes on exactly while its file has reviews left. *)
LEMMA AfterTrigger ==
    ASSUME Inv, NEW w \in Writers, tx[w].pc \in {"trigger", "apply"}
    PROVE  /\ Returned(w) \in {"insert", "commit"}
           /\ Returned(w) = "insert" =>
                 Kind(w) = "import" /\ Cardinality(tx[w].added) < Len(job[w].reviews)
           /\ Returned(w) = "commit" /\ Kind(w) = "import" =>
                 Cardinality(tx[w].added) = Len(job[w].reviews)
<1>1. CASE Kind(w) # "import"
  BY <1>1 DEF Returned
<1>2. CASE Kind(w) = "import"
  <2>1. job[w].reviews # <<>>
    BY <1>2, Written DEF Stages
  <2>2. IsFiniteSet(tx[w].added) /\ Cardinality(tx[w].added) <= Len(job[w].reviews)
    BY <1>2, <2>1, Written DEF FileFits
  <2>3. Cardinality(tx[w].added) \in Nat /\ Len(job[w].reviews) \in Nat
    BY <1>2, <2>2, FS_CardinalityType, FilePrefixes
  <2>4. QED
    BY <1>2, <2>2, <2>3 DEF Returned
<1>3. QED
  BY <1>1, <1>2

(* What the parts about written reviews need of a step of the trigger. *)
LEMMA TriggerKeepsWrites ==
    ASSUME Inv, NEW w \in Writers, tx[w].pc \in {"trigger", "apply"},
           tx'[w].pc \in {"apply", Returned(w)},
           tx'[w].added = tx[w].added, tx'[w].deleted = tx[w].deleted,
           job' = job, reviews' = reviews
    PROVE  Stages(w)' /\ FileFits(w)' /\ Synthesis(w)'
<1>1. Kind(w)' = Kind(w)
  BY DEF Kind
<1>2. Stages(w)'
  BY <1>1, AfterTrigger, Written DEF Stages, Locations
<1>3. FileFits(w)'
  <2>1. SUFFICES ASSUME Kind(w) = "import"
                 PROVE  FileFits(w)'
    BY <1>1 DEF FileFits
  <2>2. job[w].reviews # <<>>
    BY <2>1, Written DEF Stages
  <2>3. /\ reviews \subseteq tx[w].deleted
        /\ IsFiniteSet(tx[w].added)
        /\ tx[w].added = FirstReviews(w, Cardinality(tx[w].added))
        /\ Cardinality(tx[w].added) <= Len(job[w].reviews)
    BY <2>1, <2>2, Written DEF FileFits
  <2>4. \A j : FirstReviews(w, j)' = FirstReviews(w, j)
    BY DEF FirstReviews, FileReviews
  <2>5. QED
    BY <1>1, <2>1, <2>3, <2>4, AfterTrigger DEF FileFits
<1>4. Synthesis(w)'
  BY <1>1, AfterTrigger, Written DEF Synthesis, Synthetic
<1>5. QED
  BY <1>2, <1>3, <1>4

LEMMA RecomputeKeeps ==
    ASSUME Inv, NEW w \in Writers, Recompute(w)
    PROVE  Inv'
<1> DEFINE R == Visible(w)
           c == Consensus(R, Current(w))
           none == R = {} /\ ByMean
<1>1. tx[w].pc = "trigger" /\ Free(advisory, w)
  BY DEF Recompute, At
<1>2. CASE none /\ advisory' = w /\ Goto(w, Returned(w)) /\ UNCHANGED <<job, problem, reviews, rowLock>>
  <2> DEFINE t == [tx[w] EXCEPT !.pc = Returned(w)]
  <2>1. tx' = [tx EXCEPT ![w] = t]
    BY <1>2 DEF Goto
  <2>2. /\ DOMAIN t = {"pc", "saw", "row", "added", "deleted", "new", "outcome", "answer"}
        /\ t.pc = Returned(w) /\ t.added = tx[w].added /\ t.deleted = tx[w].deleted
        /\ t.row = tx[w].row
    BY Written DEF Fields
  <2> HIDE DEF t
  <2>3. tx'[w] = t /\ Kind(w)' = Kind(w) /\ (Writer(w)' => Inv')
    BY <1>1, <1>2, <2>1, PrivateStep DEF Free
  <2>4. tx[w].added = {}
    BY <1>2 DEF Visible
  <2>5. Kind(w) = "import" /\ job[w].reviews # <<>>
    BY <1>1, <2>4, Written DEF Stages
  <2>6. Returned(w) = "insert"
    BY <2>4, <2>5, FilePrefixes, FS_EmptySet DEF Returned
  <2>7. rowLock = w /\ Whole(tx[w].row)
    BY <1>1, <2>5, Written DEF Locked, Inside, RowIsWhole
  <2>8. Stages(w)' /\ FileFits(w)' /\ Synthesis(w)'
    BY <1>1, <1>2, <2>2, <2>3, TriggerKeepsWrites
  <2>9. Fields(w)' /\ Outside(w)' /\ Locked(w)' /\ Means(w)'
    BY <1>2, <2>2, <2>3, <2>6, <2>7 DEF Fields, Outside, Locked, Means
  <2>10. RowIsWhole(w)'
    BY <1>2, <2>2, <2>3, <2>6, <2>7 DEF RowIsWhole, Whole
  <2>11. QED
    BY <2>3, <2>8, <2>9, <2>10 DEF Writer
<1>3. CASE Abort(w, OnBand(w))
  BY <1>3, AbortKeeps
<1>4. CASE /\ advisory' = w
           /\ tx' = [tx EXCEPT ![w].new = c, ![w].pc = "apply"]
           /\ UNCHANGED <<job, problem, reviews, rowLock>>
  <2> DEFINE t == [tx[w] EXCEPT !.new = c, !.pc = "apply"]
  <2>1. tx' = [tx EXCEPT ![w] = t]
    BY <1>4
  <2>2. Publishes(c, R)
    BY DEF Publishes, Consensus
  <2> HIDE DEF c
  <2>3. /\ DOMAIN t = {"pc", "saw", "row", "added", "deleted", "new", "outcome", "answer"}
        /\ t.pc = "apply" /\ t.added = tx[w].added /\ t.deleted = tx[w].deleted
        /\ t.row = tx[w].row /\ t.new = c
    BY Written DEF Fields
  <2> HIDE DEF t
  <2>4. tx'[w] = t /\ Kind(w)' = Kind(w) /\ (Writer(w)' => Inv')
    BY <1>1, <1>4, <2>1, PrivateStep DEF Free
  <2>5. Stages(w)' /\ FileFits(w)' /\ Synthesis(w)'
    BY <1>1, <1>4, <2>3, <2>4, TriggerKeepsWrites
  <2>6. Fields(w)' /\ Outside(w)'
    BY <2>3, <2>4 DEF Fields, Outside
  <2>7. Locked(w)'
    BY <1>1, <1>4, <2>3, <2>4, Written DEF Locked, Inside
  <2>8. Means(w)'
    <3>1. Visible(w)' = R
      BY <1>4, <2>3, <2>4 DEF Visible
    <3>2. QED
      BY <2>2, <2>3, <2>4, <3>1 DEF Means
  <2>9. RowIsWhole(w)'
    BY <1>1, <1>4, <2>3, <2>4, Written DEF RowIsWhole, Inside, Whole
  <2>10. QED
    BY <2>4, <2>5, <2>6, <2>7, <2>8, <2>9 DEF Writer
<1>5. QED
  BY <1>2, <1>3, <1>4 DEF Recompute

LEMMA ApplyKeeps ==
    ASSUME Inv, NEW w \in Writers, Apply(w)
    PROVE  Inv'
<1> DEFINE row == [Current(w) EXCEPT !.t = tx[w].new.t, !.s = tx[w].new.s]
<1>1. tx[w].pc = "apply" /\ Free(rowLock, w) /\ advisory = w
  BY Written DEF Apply, At, Locked
<1>2. CASE ~FitsCheck(row)
  BY <1>2, AbortKeeps DEF Apply
<1>3. CASE FitsCheck(row)
  <2> DEFINE t == [tx[w] EXCEPT !.row = row, !.pc = Returned(w)]
  <2>1. rowLock' = w /\ tx' = [tx EXCEPT ![w] = t] /\ UNCHANGED <<job, problem, reviews, advisory>>
    BY <1>3 DEF Apply
  <2>2. Whole(Current(w))
    BY <1>1, Written DEF RowIsWhole, Inside, Current
  <2>3. Whole(row) /\ row.t = tx[w].new.t /\ row.s = tx[w].new.s
    BY <2>2 DEF Whole
  <2>4. Publishes(row, Visible(w))
    BY <1>1, <2>3, Written DEF Means, Publishes
  <2> HIDE DEF row
  <2>5. /\ DOMAIN t = {"pc", "saw", "row", "added", "deleted", "new", "outcome", "answer"}
        /\ t.pc = Returned(w) /\ t.added = tx[w].added /\ t.deleted = tx[w].deleted
        /\ t.row = row
    BY Written DEF Fields
  <2> HIDE DEF t
  <2>6. tx'[w] = t /\ Kind(w)' = Kind(w) /\ (Writer(w)' => Inv')
    BY <1>1, <2>1, PrivateStep DEF Free
  <2>7. Returned(w) \in {"insert", "commit"}
    BY <1>1, AfterTrigger
  <2>8. Stages(w)' /\ FileFits(w)' /\ Synthesis(w)'
    BY <1>1, <2>1, <2>5, <2>6, TriggerKeepsWrites
  <2>9. Fields(w)' /\ Outside(w)' /\ Locked(w)'
    BY <1>1, <2>1, <2>5, <2>6, <2>7 DEF Fields, Outside, Locked
  <2>10. Means(w)'
    <3>1. Visible(w)' = Visible(w)
      BY <2>1, <2>5, <2>6 DEF Visible
    <3>2. QED
      BY <2>4, <2>5, <2>6, <2>7, <3>1 DEF Means
  <2>11. RowIsWhole(w)'
    BY <2>1, <2>3, <2>5, <2>6, <2>7 DEF RowIsWhole, Whole
  <2>12. QED
    BY <2>6, <2>8, <2>9, <2>10, <2>11 DEF Writer
<1>4. QED
  BY <1>2, <1>3

-----------------------------------------------------------------------------
(* The commit *)

LEMMA CommitKeeps ==
    ASSUME Inv, NEW w \in Writers, Commit(w)
    PROVE  Inv'
<1> DEFINE pc == IF Kind(w) = "review" THEN "answer" ELSE "done"
           t == [Fresh EXCEPT !.pc = pc, !.new = tx[w].new, !.outcome = Committed(w)]
<1>1. /\ tx[w].pc = "commit" /\ tx' = [tx EXCEPT ![w] = t] /\ job' = job
      /\ problem' = Current(w) /\ reviews' = Visible(w)
      /\ rowLock' = Unlock(rowLock, w) /\ advisory' = Unlock(advisory, w)
  BY DEF Commit, At
<1>2. pc \in {"answer", "done"} /\ (pc = "answer" => Kind(w) = "review")
  OBVIOUS
<1> HIDE DEF pc
<1>3. /\ DOMAIN t = {"pc", "saw", "row", "added", "deleted", "new", "outcome", "answer"}
      /\ t.pc = pc /\ t.added = {} /\ t.deleted = {}
  BY DEF Fresh
<1> HIDE DEF t
<1>4. tx'[w] = t /\ DOMAIN tx' = Writers /\ \A v \in Writers \ {w} : tx'[v] = tx[v]
  BY <1>1, Update
<1>5. Whole(problem')
  BY <1>1, Written DEF RowIsWhole, Inside, Current, Whole
<1>6. reviews' = reviews \/ (rowLock = w /\ advisory = w)
  <2>1. CASE Changed(w)
    BY <1>1, <2>1, Written DEF Locked
  <2>2. CASE ~Changed(w)
    BY <1>1, <2>2 DEF Changed, Visible
  <2>3. QED
    BY <2>1, <2>2
<1>7. Apart(w)
  BY <1>1, <1>4, <1>5, <1>6 DEF Apart, Unlock
<1>8. Writer(w)'
  <2>1. Fields(w)' /\ rowLock' # w /\ advisory' # w /\ Kind(w)' = Kind(w)
    BY <1>1, <1>3, <1>4 DEF Fields, Unlock, Kind
  <2>2. QED
    BY <1>1, <1>2, <1>3, <1>4, <2>1, NothingPending
<1>9. AtMostOne(Synthetic(reviews'))
  <2>1. AtMostOne(Synthetic(reviews))
    BY DEF Inv, Table
  <2>2. CASE Synthetic(tx[w].added) = {}
    <3>1. Synthetic(Visible(w)) \subseteq Synthetic(reviews)
      BY <2>2 DEF Visible, Synthetic
    <3>2. QED
      BY <1>1, <2>1, <3>1 DEF AtMostOne
  <2>3. CASE Synthetic(tx[w].added) # {}
    <3>1. Kind(w) = "backfill" /\ tx[w].added # {}
      BY <2>3, Written DEF Synthesis, Synthetic
    <3>2. Synthetic(reviews) = {} /\ AtMostOne(tx[w].added)
      BY <3>1, Written DEF Synthesis
    <3>3. Synthetic(Visible(w)) \subseteq tx[w].added
      BY <3>2 DEF Visible, Synthetic
    <3>4. QED
      BY <1>1, <3>2, <3>3 DEF AtMostOne
  <2>4. QED
    BY <2>2, <2>3
<1>10. QED
  BY <1>7, <1>8, <1>9, StepKeeps

-----------------------------------------------------------------------------
(* The theorems *)

LEMMA InitInv ==
    ASSUME Init
    PROVE  Inv
<1>1. /\ job \in [Writers -> Jobs] /\ problem \in Rows /\ reviews = {}
      /\ tx = [w \in Writers |-> Fresh] /\ rowLock = None /\ advisory = None
  BY DEF Init
<1>2. Table
  <2>1. problem # NoRow => Whole(problem)
    BY <1>1 DEF Problem, Whole
  <2>2. QED
    BY <1>1, <2>1 DEF Table, AtMostOne, Synthetic
<1>3. ASSUME NEW w \in Writers
      PROVE  Writer(w)
  <2>1. /\ tx[w] = Fresh /\ tx[w].pc = "start" /\ tx[w].added = {} /\ tx[w].deleted = {}
        /\ rowLock # w /\ advisory # w
    BY <1>1 DEF Fresh
  <2>2. Fields(w) /\ Outside(w) /\ Stages(w)
    BY <2>1 DEF Fields, Fresh, Outside, Stages, Locations, Changed
  <2>3. Locked(w) /\ Means(w) /\ RowIsWhole(w)
    BY <2>1 DEF Locked, Inside, Changed, Means, RowIsWhole
  <2>4. FileFits(w) /\ Synthesis(w)
    BY <2>1 DEF FileFits, Synthesis, Synthetic, AtMostOne
  <2>5. QED
    BY <2>2, <2>3, <2>4 DEF Writer
<1>4. QED
  BY <1>2, <1>3 DEF Inv

LEMMA NextInv ==
    ASSUME Inv, Next
    PROVE  Inv'
<1>1. PICK w \in Writers : Step(w)
  BY DEF Next
<1>2. QED
  BY <1>1, ReviewInsertKeeps, ReviewAnswerKeeps, ReviewReportKeeps, ImportFindKeeps,
     ImportWriteKeeps, ImportDeleteKeeps, ImportInsertKeeps, BackfillReadKeeps,
     BackfillWriteKeeps, BackfillLookKeeps, BackfillInsertKeeps, RecomputeKeeps,
     ApplyKeeps, CommitKeeps, DeadlockAbortKeeps
  DEF Step

LEMMA StutterInv ==
    ASSUME Inv, UNCHANGED vars
    PROVE  Inv'
<1>1. UNCHANGED <<job, problem, reviews, tx, rowLock, advisory>>
  BY DEF vars
<1>2. Table'
  BY <1>1 DEF Inv, Table, Whole, AtMostOne, Synthetic
<1>3. ASSUME NEW w \in Writers
      PROVE  Writer(w)'
  <2>1. Kind(w)' = Kind(w) /\ Changed(w)' = Changed(w) /\ Visible(w)' = Visible(w)
    BY <1>1 DEF Kind, Changed, Visible
  <2>2. Fields(w)' /\ Outside(w)' /\ Stages(w)' /\ Locked(w)'
    BY <1>1, <2>1, Written DEF Fields, Outside, Stages, Locked
  <2>3. Means(w)' /\ RowIsWhole(w)'
    BY <1>1, <2>1, Written DEF Means, RowIsWhole, Whole
  <2>4. FileFits(w)' /\ Synthesis(w)'
    <3>1. \A k : FirstReviews(w, k)' = FirstReviews(w, k)
      BY <1>1 DEF FirstReviews, FileReviews
    <3>2. QED
      BY <1>1, <2>1, <3>1, Written DEF FileFits, Synthesis, Synthetic
  <2>5. QED
    BY <2>2, <2>3, <2>4 DEF Writer
<1>4. QED
  BY <1>2, <1>3 DEF Inv

(* The inductive invariant: the locks a writer holds cover what it has     *)
(* read, so that what it is about to commit still fits what is committed.  *)
THEOREM ReviewsInvariant == Spec => []Inv
<1>1. Inv /\ [Next]_vars => Inv'
  BY NextInv, StutterInv
<1>2. QED
  BY <1>1, InitInv, PTL DEF Spec

(* seed-backfill.ts leaves at most one synthetic review on a problem,      *)
(* however many copies of it run at once.                                  *)
THEOREM OneSyntheticTheorem == Spec => []OneSynthetic
<1>1. ASSUME Inv
      PROVE  OneSynthetic
  <2>1. AtMostOne(Synthetic(reviews))
    BY <1>1 DEF Inv, Table
  <2>2. CASE Synthetic(reviews) = {}
    BY <2>2, FS_EmptySet DEF OneSynthetic, Synthetic
  <2>3. CASE Synthetic(reviews) # {}
    <3>1. PICK x : Synthetic(reviews) = {x}
      BY <2>1, <2>3 DEF AtMostOne
    <3>2. Cardinality({x}) = 1
      BY FS_Singleton
    <3>3. QED
      BY <3>1, <3>2 DEF OneSynthetic, Synthetic
  <2>4. QED
    BY <2>2, <2>3
<1>2. QED
  BY <1>1, ReviewsInvariant, PTL

(* No step but a commit changes the reviews others see. *)
LEMMA OnlyCommits ==
    ASSUME [Next]_vars, reviews' # reviews
    PROVE  \E w \in Writers : Commit(w)
<1>1. PICK w \in Writers : Step(w)
  BY DEF Next, vars
<1>2. CASE ReviewInsert(w) \/ ReviewAnswer(w) \/ ReviewReport(w)
  BY <1>2 DEF ReviewInsert, ReviewAnswer, ReviewReport
<1>3. CASE ImportFind(w) \/ ImportWrite(w) \/ ImportDelete(w) \/ ImportInsert(w)
  BY <1>3 DEF ImportFind, ImportWrite, ImportDelete, ImportInsert, Abort
<1>4. CASE BackfillRead(w) \/ BackfillWrite(w) \/ BackfillLook(w) \/ BackfillInsert(w)
  BY <1>4 DEF BackfillRead, BackfillWrite, BackfillLook, BackfillInsert, Abort
<1>5. CASE Recompute(w) \/ Apply(w) \/ DeadlockAbort(w)
  BY <1>5 DEF Recompute, Apply, DeadlockAbort, Abort
<1>6. CASE Commit(w)
  BY <1>6
<1>7. QED
  BY <1>1, <1>2, <1>3, <1>4, <1>5, <1>6 DEF Step

(* A commit that changes the reviews publishes the trigger's consensus of  *)
(* exactly the reviews it leaves: neither a review that another            *)
(* transaction committed meanwhile nor one it deleted is missed.           *)
THEOREM ReviewsArePublishedTheorem == Spec => ReviewsArePublished
<1>1. ASSUME Inv, [Next]_vars, reviews' # reviews, ByMean
      PROVE  [t |-> problem'.t, s |-> problem'.s] = Consensus(reviews', problem')
  <2>1. PICK w \in Writers : Commit(w)
    BY <1>1, OnlyCommits
  <2>2. tx[w].pc = "commit" /\ problem' = Current(w) /\ reviews' = Visible(w)
    BY <2>1 DEF Commit, At
  <2>3. Changed(w)
    BY <1>1, <2>2 DEF Changed, Visible
  <2>4. rowLock = w /\ Publishes(tx[w].row, reviews')
    BY <1>1, <2>2, <2>3, Written DEF Locked, Means
  <2>5. problem' = tx[w].row
    BY <2>2, <2>4 DEF Current
  <2>6. problem'.t = MeanRating(reviews') /\ problem'.s = MeanScore(reviews')
    BY <1>1, <2>4, <2>5 DEF Publishes
  <2>7. QED
    BY <1>1, <2>6 DEF Consensus
<1>2. Inv /\ [Next]_vars
         => [reviews' # reviews /\ ByMean
                => [t |-> problem'.t, s |-> problem'.s] = Consensus(reviews', problem')]_vars
  BY <1>1
<1>3. QED
  BY <1>2, ReviewsInvariant, PTL DEF Spec, ReviewsArePublished

(* The record of a writer is changed by its own steps only. *)
LEMMA OwnRecord ==
    ASSUME Inv, NEW v \in Writers, NEW w \in Writers \ {v}, Step(v)
    PROVE  tx'[w] = tx[w]
<1>1. DOMAIN tx = Writers
  BY DEF Inv, Table
<1>2. \A outcome : Abort(v, outcome) => tx'[w] = tx[w]
  BY <1>1 DEF Abort
<1>3. CASE ReviewInsert(v) \/ ReviewAnswer(v) \/ ReviewReport(v)
  BY <1>1, <1>3 DEF ReviewInsert, ReviewAnswer, ReviewReport
<1>4. CASE ImportFind(v) \/ ImportDelete(v) \/ ImportInsert(v)
  BY <1>1, <1>4 DEF ImportFind, ImportDelete, ImportInsert
<1>5. CASE BackfillRead(v) \/ BackfillLook(v) \/ BackfillInsert(v)
  BY <1>1, <1>5 DEF BackfillRead, BackfillLook, BackfillInsert, Goto
<1>6. CASE ImportWrite(v) \/ BackfillWrite(v)
  BY <1>1, <1>2, <1>6 DEF ImportWrite, BackfillWrite
<1>7. CASE Recompute(v) \/ Apply(v) \/ DeadlockAbort(v)
  BY <1>1, <1>2, <1>7 DEF Recompute, Apply, DeadlockAbort, Goto
<1>8. CASE Commit(v)
  BY <1>1, <1>8 DEF Commit
<1>9. QED
  BY <1>3, <1>4, <1>5, <1>6, <1>7, <1>8 DEF Step

(* Before its commit a writer can do nothing else. *)
LEMMA CommitIsNext ==
    ASSUME NEW w \in Writers, At(w, "commit"), Step(w)
    PROVE  Commit(w)
<1>1. tx[w].pc = "commit"
  BY DEF At
<1>2. ~ (ReviewInsert(w) \/ ReviewAnswer(w) \/ ReviewReport(w) \/ ImportFind(w) \/ ImportWrite(w)
         \/ ImportDelete(w) \/ ImportInsert(w))
  BY <1>1 DEF ReviewInsert, ReviewAnswer, ReviewReport, ImportFind, ImportWrite, ImportDelete,
     ImportInsert, At
<1>3. ~ (BackfillRead(w) \/ BackfillWrite(w) \/ BackfillLook(w) \/ BackfillInsert(w)
         \/ Recompute(w) \/ Apply(w) \/ DeadlockAbort(w))
  BY <1>1 DEF BackfillRead, BackfillWrite, BackfillLook, BackfillInsert, Recompute, Apply,
     DeadlockAbort, WaitsFor, At
<1>4. QED
  BY <1>2, <1>3 DEF Step

(* import-yaml.ts: an import with reviews commits exactly its file's: what *)
(* a reviewer or the backfill wrote between its DELETE and its commit is   *)
(* kept out by the row lock.                                               *)
THEOREM ImportReplacesTheorem == Spec => ImportReplaces
<1> DEFINE Replaces == \A w \in Writers :
                          /\ Kind(w) = "import" /\ At(w, "commit") /\ tx'[w].pc = "done"
                          /\ job[w].reviews # <<>>
                          => reviews' = FileReviews(w)
<1>1. ASSUME Inv, Next, NEW w \in Writers,
             Kind(w) = "import", At(w, "commit"), tx'[w].pc = "done", job[w].reviews # <<>>
      PROVE  reviews' = FileReviews(w)
  <2>1. Commit(w)
    <3>1. PICK v \in Writers : Step(v)
      BY <1>1 DEF Next
    <3>2. v = w
      BY <1>1, <3>1, OwnRecord DEF At
    <3>3. QED
      BY <1>1, <3>1, <3>2, CommitIsNext
  <2>2. reviews' = Visible(w)
    BY <2>1 DEF Commit
  <2>3. /\ reviews \subseteq tx[w].deleted
        /\ tx[w].added = FirstReviews(w, Len(job[w].reviews))
    BY <1>1, Written DEF FileFits, At
  <2>4. QED
    BY <1>1, <2>2, <2>3, FilePrefixes DEF Visible
<1>2. Inv /\ [Next]_vars => [Replaces]_vars
  BY <1>1
<1>3. QED
  BY <1>2, ReviewsInvariant, PTL DEF Spec, ImportReplaces

-----------------------------------------------------------------------------
(* Induction, from the least element of a set of numbers *)

LEMMA LeastNumber ==
    ASSUME NEW T, T \subseteq Nat, T # {}
    PROVE  \E x \in T : \A y \in T : x <= y
<1> DEFINE R == {ss \in Nat \X Nat : ss[1] < ss[2]}
<1>1. IsWellFoundedOn(R, Nat)
  BY NatLessThanWellFounded DEF OpToRel
<1>2. \A x, y \in T : x \in Nat /\ y \in Nat /\ (<<y, x>> \in R <=> y < x)
  OBVIOUS
<1> HIDE DEF R
<1>3. PICK x \in T : \A y \in T : ~ (<<y, x>> \in R)
  BY <1>1, WFMin
<1>4. ASSUME NEW y \in T
      PROVE  x <= y
  <2>1. x \in Nat /\ y \in Nat /\ ~ (y < x)
    BY <1>2, <1>3
  <2>2. QED
    BY <2>1
<1>5. QED
  BY <1>4

LEMMA EveryNumber ==
    ASSUME NEW S, 0 \in S, \A n \in Nat : n \in S => n + 1 \in S
    PROVE  Nat \subseteq S
<1> DEFINE T == Nat \ S
<1>1. SUFFICES ASSUME T # {} PROVE FALSE
  OBVIOUS
<1>2. PICK x \in T : \A y \in T : x <= y
  BY <1>1, LeastNumber
<1>3. x # 0 /\ x \in Nat
  OBVIOUS
<1>4. x - 1 \in Nat /\ x - 1 \notin T
  BY <1>2, <1>3
<1>5. (x - 1) + 1 \in S
  BY <1>4
<1>6. QED
  BY <1>3, <1>5

-----------------------------------------------------------------------------
(* The sums of the trigger: SUM over the rows of a column *)

Pick(S) == CHOOSE x \in S : TRUE

(* The equation that the fold over the subsets of R solves. *)
Folded(f, R, column) ==
    [S \in SUBSET R |-> IF S = {} THEN 0 ELSE Pick(S)[column] + f[S \ {Pick(S)}]]

Sum(R, column) == (CHOOSE f : f = Folded(f, R, column))[R]

LEMMA TotalIsSum ==
    ASSUME NEW R
    PROVE  /\ Total(R, LAMBDA r : r.t) = Sum(R, "t")
           /\ Total(R, LAMBDA r : r.s) = Sum(R, "s")
BY DEF Total, MapThenSumSet, MapThenFoldSet, Sum, Folded, Pick

LEMMA WithoutPick ==
    ASSUME NEW S, IsFiniteSet(S), S # {}
    PROVE  /\ Pick(S) \in S
           /\ IsFiniteSet(S \ {Pick(S)})
           /\ Cardinality(S) \in Nat \ {0}
           /\ Cardinality(S \ {Pick(S)}) = Cardinality(S) - 1
<1>1. Pick(S) \in S
  BY DEF Pick
<1>2. Cardinality(S) \in Nat /\ Cardinality(S) # 0
  BY FS_CardinalityType, FS_EmptySet
<1>3. QED
  BY <1>1, <1>2, FS_RemoveElement

(* The fold has a solution on a finite set. *)
LEMMA FoldExists ==
    ASSUME NEW R, IsFiniteSet(R), NEW column, \A r \in R : r[column] \in Nat
    PROVE  \E f : f = Folded(f, R, column)
<1> DEFINE Small(n) == {S \in SUBSET R : Cardinality(S) <= n}
           Value(f, S) == IF S = {} THEN 0 ELSE Pick(S)[column] + f[S \ {Pick(S)}]
           Solves(f, n) == f \in [Small(n) -> Nat] /\ \A S \in Small(n) : f[S] = Value(f, S)
           N == {n \in Nat : \E f : Solves(f, n)}
<1>1. \A S \in SUBSET R : /\ IsFiniteSet(S) /\ Cardinality(S) \in Nat
                          /\ Cardinality(S) <= Cardinality(R)
  BY FS_Subset, FS_CardinalityType
<1>2. Cardinality(R) \in Nat
  BY FS_CardinalityType
<1>3. ASSUME NEW S \in SUBSET R, S # {}
      PROVE  /\ Pick(S)[column] \in Nat /\ S \ {Pick(S)} \in SUBSET R
             /\ Cardinality(S \ {Pick(S)}) = Cardinality(S) - 1
  BY <1>1, <1>3, WithoutPick
<1>4. 0 \in N
  <2> DEFINE f == [S \in Small(0) |-> 0]
  <2>1. \A S \in Small(0) : S = {}
    <3> TAKE S \in Small(0)
    <3>1. IsFiniteSet(S) /\ Cardinality(S) \in Nat /\ Cardinality(S) <= 0
      BY <1>1
    <3>2. Cardinality(S) = 0
      BY <3>1
    <3>3. QED
      BY <3>1, <3>2, FS_EmptySet
  <2> HIDE DEF Small
  <2>2. Solves(f, 0)
    BY <2>1
  <2> HIDE DEF f, Solves
  <2>3. QED
    BY <2>2
<1>5. ASSUME NEW n \in Nat, n \in N
      PROVE  n + 1 \in N
  <2>1. PICK f : Solves(f, n)
    BY <1>5
  <2> DEFINE g == [S \in Small(n + 1) |-> Value(f, S)]
  <2>2. ASSUME NEW S \in Small(n + 1), S # {}
        PROVE  S \ {Pick(S)} \in Small(n) /\ S \ {Pick(S)} \in Small(n + 1)
    <3>1. S \in SUBSET R /\ Cardinality(S) \in Nat /\ Cardinality(S) <= n + 1
      BY <1>1
    <3>2. S \ {Pick(S)} \in SUBSET R /\ Cardinality(S \ {Pick(S)}) = Cardinality(S) - 1
      BY <1>3, <2>2, <3>1
    <3>3. QED
      BY <3>1, <3>2
  <2>3. \A S \in Small(n) : S \in Small(n + 1)
    <3> TAKE S \in Small(n)
    <3>1. S \in SUBSET R /\ Cardinality(S) \in Nat /\ Cardinality(S) <= n
      BY <1>1
    <3>2. QED
      BY <3>1
  <2>4. \A S \in Small(n + 1) : S \in SUBSET R
    OBVIOUS
  <2> HIDE DEF Small
  <2>5. \A S \in Small(n) : f[S] \in Nat /\ f[S] = Value(f, S)
    BY <2>1
  <2>6. \A S \in Small(n + 1) : Value(f, S) \in Nat
    <3> TAKE S \in Small(n + 1)
    <3>1. CASE S = {}
      BY <3>1
    <3>2. CASE S # {}
      <4>1. Pick(S)[column] \in Nat /\ S \ {Pick(S)} \in Small(n)
        BY <1>3, <2>2, <2>4, <3>2
      <4>2. f[S \ {Pick(S)}] \in Nat
        BY <2>5, <4>1
      <4>3. Value(f, S) = Pick(S)[column] + f[S \ {Pick(S)}]
        BY <3>2
      <4> HIDE DEF Value
      <4>4. QED
        BY <4>1, <4>2, <4>3
    <3>3. QED
      BY <3>1, <3>2
  <2>7. \A S \in Small(n) : g[S] = f[S]
    BY <2>3, <2>5
  <2>8. g \in [Small(n + 1) -> Nat]
    BY <2>6
  <2>9. \A S \in Small(n + 1) : g[S] = Value(f, S)
    OBVIOUS
  <2> HIDE DEF g
  <2>10. \A S \in Small(n + 1) : Value(f, S) = Value(g, S)
    BY <2>2, <2>7
  <2>11. Solves(g, n + 1)
    BY <2>8, <2>9, <2>10
  <2> HIDE DEF Solves
  <2>12. QED
    BY <2>11
<1> HIDE DEF N
<1>6. Cardinality(R) \in N
  BY <1>2, <1>4, <1>5, EveryNumber
<1>7. PICK f : Solves(f, Cardinality(R))
  BY <1>6 DEF N
<1>8. Small(Cardinality(R)) = SUBSET R
  BY <1>1
<1> HIDE DEF Small
<1>9. f \in [SUBSET R -> Nat] /\ \A S \in SUBSET R : f[S] = Value(f, S)
  BY <1>7, <1>8
<1>10. f = Folded(f, R, column)
  BY <1>9 DEF Folded
<1>11. QED
  BY <1>10

(* The sum of numbers between lo and hi. *)
LEMMA SumBounds ==
    ASSUME NEW R, IsFiniteSet(R), NEW column, NEW lo \in Nat, NEW hi \in Nat,
           \A r \in R : r[column] \in lo..hi
    PROVE  /\ Cardinality(R) \in Nat /\ Sum(R, column) \in Nat
           /\ lo * Cardinality(R) <= Sum(R, column)
           /\ Sum(R, column) <= hi * Cardinality(R)
<1> DEFINE f == CHOOSE g : g = Folded(g, R, column)
           Bounded(S, n) == f[S] \in Nat /\ lo * n <= f[S] /\ f[S] <= hi * n
           N == {n \in Nat : \A S \in SUBSET R : Cardinality(S) = n => Bounded(S, n)}
<1>1. f = Folded(f, R, column)
  <2>1. \E g : g = Folded(g, R, column)
    BY FoldExists
  <2>2. QED
    BY <2>1
<1>2. Sum(R, column) = f[R]
  BY DEF Sum
<1> HIDE DEF f
<1>3. \A S \in SUBSET R : IsFiniteSet(S) /\ Cardinality(S) \in Nat
  BY FS_Subset, FS_CardinalityType
<1>4. \A S \in SUBSET R : f[S] = IF S = {} THEN 0 ELSE Pick(S)[column] + f[S \ {Pick(S)}]
  BY <1>1 DEF Folded
<1>5. 0 \in N
  <2>1. ASSUME NEW S \in SUBSET R, Cardinality(S) = 0
        PROVE  Bounded(S, 0)
    <3>1. S = {}
      BY <1>3, <2>1, FS_EmptySet
    <3>2. f[S] = 0
      BY <1>4, <3>1
    <3>3. lo * 0 = 0 /\ hi * 0 = 0
      OBVIOUS
    <3>4. QED
      BY <3>2, <3>3
  <2>2. QED
    BY <2>1
<1>6. ASSUME NEW n \in Nat, n \in N
      PROVE  n + 1 \in N
  <2>1. ASSUME NEW S \in SUBSET R, Cardinality(S) = n + 1
        PROVE  Bounded(S, n + 1)
    <3> DEFINE U == S \ {Pick(S)}
               x == Pick(S)[column]
    <3>1. S # {}
      <4>1. Cardinality({}) = 0 /\ n + 1 # 0
        BY FS_EmptySet
      <4>2. QED
        BY <2>1, <4>1
    <3>2. x \in lo..hi /\ U \in SUBSET R /\ Cardinality(U) = n
      BY <1>3, <2>1, <3>1, WithoutPick
    <3>3. f[S] = x + f[U]
      BY <1>4, <3>1
    <3> HIDE DEF U, x
    <3>4. Bounded(U, n)
      BY <1>6, <3>2
    <3>5. lo * (n + 1) = lo * n + lo /\ hi * (n + 1) = hi * n + hi
          /\ lo * n \in Nat /\ hi * n \in Nat
      OBVIOUS
    <3>6. QED
      BY <3>2, <3>3, <3>4, <3>5
  <2> HIDE DEF Bounded
  <2>2. QED
    BY <2>1
<1> HIDE DEF N
<1>7. Cardinality(R) \in N /\ R \in SUBSET R
  BY <1>3, <1>5, <1>6, EveryNumber
<1>8. Bounded(R, Cardinality(R))
  BY <1>7 DEF N
<1>9. QED
  BY <1>2, <1>3, <1>8

LEMMA QuotientBounds ==
    ASSUME NEW n \in Nat, NEW d \in Nat, d > 0, NEW lo \in Nat, NEW hi \in Nat,
           lo * d <= n, n < (hi + 1) * d
    PROVE  n \div d \in lo..hi
<1> DEFINE q == n \div d
           r == n % d
<1>1. q \in Nat /\ r \in Nat /\ r < d /\ n = q * d + r
  OBVIOUS
<1> HIDE DEF q, r
<1>2. ASSUME q < lo
      PROVE  FALSE
  <2>1. PICK k \in Nat : lo = q + 1 + k
    <3>1. lo - q - 1 \in Nat /\ lo = q + 1 + (lo - q - 1)
      BY <1>1, <1>2
    <3>2. QED
      BY <3>1
  <2>2. (q + 1 + k) * d = q * d + d + k * d /\ k * d \in Nat /\ q * d \in Nat
    BY <1>1
  <2>3. QED
    BY <1>1, <2>1, <2>2
<1>3. ASSUME q > hi
      PROVE  FALSE
  <2>1. PICK k \in Nat : q = hi + 1 + k
    <3>1. q - hi - 1 \in Nat /\ q = hi + 1 + (q - hi - 1)
      BY <1>1, <1>3
    <3>2. QED
      BY <3>1
  <2>2. (hi + 1 + k) * d = (hi + 1) * d + k * d /\ k * d \in Nat /\ (hi + 1) * d \in Nat
    OBVIOUS
  <2>3. QED
    BY <1>1, <2>1, <2>2
<1>4. QED
  BY <1>1, <1>2, <1>3 DEF q

(* fn_recompute_problem_consensus: the rounded mean of any number of       *)
(* ratings from 1 to 5 is a rating, the mean of their scores a score.      *)
THEOREM MeansInRange ==
    ASSUME NEW R, R \subseteq Review, IsFiniteSet(R)
    PROVE  /\ R # {} => MeanRating(R) \in Rating
           /\ MeanScore(R) \in Score \cup {NoScore}
<1>1. \A r \in R : r.t \in 1..5 /\ r.s \in 0..2400 \cup {NoScore}
  BY DEF Review, Rating, Score
<1>2. ASSUME R # {}
      PROVE  MeanRating(R) \in Rating
  <2> DEFINE c == Cardinality(R)
             u == Sum(R, "t")
  <2>1. c \in Nat /\ u \in Nat /\ 1 * c <= u /\ u <= 5 * c
    <3>1. \A r \in R : r["t"] \in 1..5
      BY <1>1
    <3>2. QED
      BY <3>1, SumBounds
  <2>2. c # 0
    BY <1>2, FS_EmptySet
  <2>3. MeanRating(R) = (2 * u + c) \div (2 * c)
    BY TotalIsSum DEF MeanRating
  <2> HIDE DEF c, u
  <2>4. 2 * u + c \in Nat /\ 2 * c \in Nat /\ 2 * c > 0
        /\ 1 * (2 * c) <= 2 * u + c /\ 2 * u + c < (5 + 1) * (2 * c)
    BY <2>1, <2>2
  <2>5. (2 * u + c) \div (2 * c) \in 1..5
    BY <2>4, QuotientBounds
  <2>6. QED
    BY <2>3, <2>5 DEF Rating
<1>3. ASSUME Scored(R) # {}
      PROVE  MeanScore(R) \in Score
  <2> DEFINE S == Scored(R)
             c == Cardinality(S)
             u == Sum(S, "s")
  <2>1. IsFiniteSet(S) /\ S \subseteq R
    BY FS_Subset DEF Scored
  <2>2. c \in Nat /\ u \in Nat /\ 0 * c <= u /\ u <= 2400 * c
    <3>1. \A r \in S : r["s"] \in 0..2400
      BY <1>1 DEF Scored
    <3> DEFINE lo == 0
               hi == 2400
    <3>2. IsFiniteSet(S) /\ lo \in Nat /\ hi \in Nat /\ \A r \in S : r["s"] \in lo..hi
      BY <2>1, <3>1
    <3> HIDE DEF S, lo, hi
    <3>3. /\ Cardinality(S) \in Nat /\ Sum(S, "s") \in Nat
          /\ lo * Cardinality(S) <= Sum(S, "s")
          /\ Sum(S, "s") <= hi * Cardinality(S)
      BY <3>2, SumBounds
    <3>4. QED
      BY <3>3 DEF lo, hi
  <2>3. c # 0
    BY <1>3, <2>1, FS_EmptySet
  <2>4. MeanScore(R) = u \div c
    BY <1>3, TotalIsSum DEF MeanScore
  <2> HIDE DEF S, c, u
  <2>5. c > 0 /\ u < (2400 + 1) * c
    BY <2>2, <2>3
  <2>6. u \div c \in 0..2400
    BY <2>2, <2>5, QuotientBounds
  <2>7. QED
    BY <2>4, <2>6 DEF Score
<1>4. Scored(R) = {} => MeanScore(R) = NoScore
  BY DEF MeanScore
<1>5. QED
  BY <1>2, <1>3, <1>4

-----------------------------------------------------------------------------
(* Types *)

RecordTypes(t) ==
    /\ t.outcome \in Outcomes
    /\ t.saw \in Problem \cup {NoRow} /\ t.row \in Problem \cup {NoRow}
    /\ t.added \subseteq Review /\ IsFiniteSet(t.added)
    /\ t.deleted \subseteq Review
    /\ t.new \in Rated \cup {None}
    /\ t.pc = "apply" => t.new \in Rated

(* A problem is never deleted: a writer that has seen one still finds it.  *)
WriterTypes(w) ==
    /\ RecordTypes(tx[w])
    /\ rowLock = w <=> tx[w].row # NoRow
    /\ tx[w].pc \in Inside => rowLock = w \/ problem # NoRow
    /\ tx[w].pc = "write" /\ Kind(w) = "backfill" => problem # NoRow
    /\ tx[w].pc \in {"write", "look", "insert"} /\ Kind(w) = "backfill" => tx[w].saw # NoRow

Types ==
    /\ problem \in Problem \cup {NoRow}
    /\ reviews \subseteq Review /\ IsFiniteSet(reviews)
    /\ rowLock \in Writers \cup {None} /\ advisory \in Writers \cup {None}
    /\ \A w \in Writers : WriterTypes(w)

(* What the types say of one writer. *)
LEMMA TypesOf ==
    ASSUME Inv, Types, NEW w \in Writers
    PROVE  /\ WriterTypes(w) /\ RecordTypes(tx[w])
           /\ problem \in Problem \cup {NoRow}
           /\ Visible(w) \subseteq Review /\ IsFiniteSet(Visible(w))
           /\ tx[w].pc \in Inside => Current(w) \in Problem
<1>1. WriterTypes(w) /\ RecordTypes(tx[w])
  BY DEF Types, WriterTypes
<1>2. Visible(w) \subseteq Review
  BY <1>1 DEF Types, RecordTypes, Visible
<1>3. IsFiniteSet(Visible(w))
  <2>1. IsFiniteSet(reviews \ tx[w].deleted) /\ IsFiniteSet(tx[w].added)
    BY <1>1, FS_Difference DEF Types, RecordTypes
  <2>2. QED
    BY <2>1, FS_Union DEF Visible
<1>4. tx[w].pc \in Inside => Current(w) \in Problem
  BY <1>1 DEF Types, WriterTypes, RecordTypes, Current
<1>5. QED
  BY <1>1, <1>2, <1>3, <1>4 DEF Types

(* It is enough to look at the writer that moves. *)
LEMMA TypesStep ==
    ASSUME Inv, Types, NEW w \in Writers, NEW t, tx' = [tx EXCEPT ![w] = t],
           job' = job,
           problem' \in Problem \cup {NoRow}, problem # NoRow => problem' # NoRow,
           reviews' \subseteq Review, IsFiniteSet(reviews'),
           rowLock' \in {rowLock, Unlock(rowLock, w)} \/ (Free(rowLock, w) /\ rowLock' = w),
           advisory' \in {advisory, Unlock(advisory, w)} \/ (Free(advisory, w) /\ advisory' = w),
           RecordTypes(t),
           rowLock' = w <=> t.row # NoRow,
           t.pc \in Inside => rowLock' = w \/ problem' # NoRow,
           t.pc = "write" /\ Kind(w) = "backfill" => problem' # NoRow,
           t.pc \in {"write", "look", "insert"} /\ Kind(w) = "backfill" => t.saw # NoRow
    PROVE  Types'
<1>1. tx'[w] = t /\ \A v \in Writers \ {w} : tx'[v] = tx[v]
  BY Update
<1>2. /\ rowLock' \in Writers \cup {None} /\ advisory' \in Writers \cup {None}
      /\ \A v \in Writers \ {w} : rowLock' = v <=> rowLock = v
  BY DEF Types, Unlock, Free
<1>3. \A v \in Writers : Kind(v)' = Kind(v)
  BY DEF Kind
<1>4. WriterTypes(w)'
  BY <1>1, <1>3 DEF WriterTypes, RecordTypes
<1>5. ASSUME NEW v \in Writers \ {w}
      PROVE  WriterTypes(v)'
  <2>1. WriterTypes(v)
    BY DEF Types
  <2>2. QED
    BY <1>1, <1>2, <1>3, <2>1 DEF WriterTypes, RecordTypes
<1>6. QED
  BY <1>2, <1>4, <1>5 DEF Types

(* A statement that touches neither a lock nor a committed row. *)
LEMMA TypesQuietStep ==
    ASSUME Inv, Types, NEW w \in Writers, NEW t, tx' = [tx EXCEPT ![w] = t],
           UNCHANGED <<job, problem, reviews, rowLock, advisory>>,
           RecordTypes(t), t.row = tx[w].row,
           t.pc \in Inside => tx[w].pc \in Inside \/ problem # NoRow,
           t.pc = "write" /\ Kind(w) = "backfill" => problem # NoRow,
           t.pc \in {"write", "look", "insert"} /\ Kind(w) = "backfill" => t.saw # NoRow
    PROVE  Types'
<1>1. WriterTypes(w)
  BY TypesOf
<1>2. /\ rowLock = w <=> t.row # NoRow
      /\ t.pc \in Inside => rowLock = w \/ problem # NoRow
  BY <1>1 DEF WriterTypes
<1>3. /\ problem' \in Problem \cup {NoRow} /\ reviews' \subseteq Review /\ IsFiniteSet(reviews')
  BY DEF Types
<1>4. QED
  BY <1>2, <1>3, TypesStep

LEMMA AbortTypes ==
    ASSUME Inv, Types, NEW w \in Writers, NEW outcome \in Outcomes, Abort(w, outcome)
    PROVE  Types'
<1> DEFINE pc == IF outcome = "cross_walk" THEN "report" ELSE "done"
           t == [Fresh EXCEPT !.pc = pc, !.outcome = outcome]
<1>1. /\ tx' = [tx EXCEPT ![w] = t]
      /\ rowLock' = Unlock(rowLock, w) /\ advisory' = Unlock(advisory, w)
      /\ job' = job /\ problem' = problem /\ reviews' = reviews
  BY DEF Abort
<1>2. pc \in {"report", "done"}
  OBVIOUS
<1> HIDE DEF pc
<1>3. /\ t.pc = pc /\ t.saw = NoRow /\ t.row = NoRow /\ t.added = {} /\ t.deleted = {}
      /\ t.new = None /\ t.outcome = outcome
  BY DEF Fresh
<1> HIDE DEF t
<1>4. RecordTypes(t)
  BY <1>2, <1>3, FS_EmptySet DEF RecordTypes
<1>5. rowLock' # w
  BY <1>1 DEF Unlock
<1>6. problem' \in Problem \cup {NoRow} /\ reviews' \subseteq Review /\ IsFiniteSet(reviews')
  BY <1>1 DEF Types
<1>7. QED
  BY <1>1, <1>2, <1>3, <1>4, <1>5, <1>6, TypesStep DEF Inside

LEMMA ErrorOutcomes ==
    ASSUME Inv, NEW w \in Writers
    PROVE  OnBand(w) \in Outcomes /\ OnCheck(w) \in Outcomes /\ OnError(w) \in Outcomes
           /\ Committed(w) \in Outcomes
<1>1. CASE Kind(w) = "review"
  BY <1>1 DEF OnBand, OnCheck, OnError, Committed, Outcomes
<1>2. CASE Kind(w) = "import"
  BY <1>2 DEF OnBand, OnCheck, OnError, Committed, Outcomes
<1>3. CASE Kind(w) = "backfill"
  BY <1>3 DEF OnBand, OnCheck, OnError, Committed, Outcomes
<1>4. QED
  BY <1>1, <1>2, <1>3, Kinds

LEMMA DeadlockAbortTypes ==
    ASSUME Inv, Types, NEW w \in Writers, DeadlockAbort(w)
    PROVE  Types'
BY AbortTypes, ErrorOutcomes DEF DeadlockAbort

LEMMA ReviewAnswerTypes ==
    ASSUME Inv, Types, NEW w \in Writers, ReviewAnswer(w)
    PROVE  Types'
<1> DEFINE t == [tx[w] EXCEPT !.pc = "done", !.outcome = "created",
                              !.answer = [t |-> problem.t, s |-> problem.s]]
<1>1. tx' = [tx EXCEPT ![w] = t] /\ UNCHANGED <<job, problem, reviews, rowLock, advisory>>
  BY DEF ReviewAnswer
<1>2. /\ t.pc = "done" /\ t.saw = tx[w].saw /\ t.row = tx[w].row /\ t.added = tx[w].added
      /\ t.deleted = tx[w].deleted /\ t.new = tx[w].new /\ t.outcome = "created"
  BY Written DEF Fields
<1> HIDE DEF t
<1>3. RecordTypes(t)
  BY <1>2, TypesOf DEF RecordTypes, Outcomes
<1>4. QED
  BY <1>1, <1>2, <1>3, TypesQuietStep DEF Inside

LEMMA ReviewReportTypes ==
    ASSUME Inv, Types, NEW w \in Writers, ReviewReport(w)
    PROVE  Types'
<1> DEFINE t == [tx[w] EXCEPT !.pc = "done", !.answer = reviews]
<1>1. tx' = [tx EXCEPT ![w] = t] /\ UNCHANGED <<job, problem, reviews, rowLock, advisory>>
  BY DEF ReviewReport
<1>2. /\ t.pc = "done" /\ t.saw = tx[w].saw /\ t.row = tx[w].row /\ t.added = tx[w].added
      /\ t.deleted = tx[w].deleted /\ t.new = tx[w].new /\ t.outcome = tx[w].outcome
  BY Written DEF Fields
<1> HIDE DEF t
<1>3. RecordTypes(t)
  BY <1>2, TypesOf DEF RecordTypes
<1>4. QED
  BY <1>1, <1>2, <1>3, TypesQuietStep DEF Inside

LEMMA ReadTypes ==
    ASSUME Inv, Types, NEW w \in Writers, NEW end \in Outcomes,
           Kind(w) = "backfill" => (end = "none" => problem # NoRow),
           tx' = [tx EXCEPT ![w].pc = IF end = "none" THEN "write" ELSE "done",
                            ![w].outcome = end, ![w].saw = problem],
           UNCHANGED <<job, problem, reviews, rowLock, advisory>>
    PROVE  Types'
<1> DEFINE pc == IF end = "none" THEN "write" ELSE "done"
           t == [tx[w] EXCEPT !.pc = pc, !.outcome = end, !.saw = problem]
<1>1. tx' = [tx EXCEPT ![w] = t]
  OBVIOUS
<1>2. pc \in {"write", "done"} /\ (pc = "write" /\ Kind(w) = "backfill" => problem # NoRow)
  OBVIOUS
<1> HIDE DEF pc
<1>3. /\ t.pc = pc /\ t.saw = problem /\ t.row = tx[w].row /\ t.added = tx[w].added
      /\ t.deleted = tx[w].deleted /\ t.new = tx[w].new /\ t.outcome = end
  BY Written DEF Fields
<1> HIDE DEF t
<1>4. RecordTypes(t)
  BY <1>2, <1>3, TypesOf DEF RecordTypes
<1>5. QED
  BY <1>1, <1>2, <1>3, <1>4, TypesQuietStep DEF Inside

LEMMA ImportFindTypes ==
    ASSUME Inv, Types, NEW w \in Writers, ImportFind(w)
    PROVE  Types'
<1> DEFINE end == IF ~job[w].valid THEN "failed"
                  ELSE IF problem # NoRow /\ problem.status = "calibrated" THEN "skipped" ELSE "none"
<1>1. /\ tx' = [tx EXCEPT ![w].pc = IF end = "none" THEN "write" ELSE "done",
                          ![w].outcome = end, ![w].saw = problem]
      /\ UNCHANGED <<job, problem, reviews, rowLock, advisory>>
      /\ Kind(w) = "import"
  BY DEF ImportFind
<1>2. end \in Outcomes
  BY DEF Outcomes
<1> HIDE DEF end
<1>3. QED
  BY <1>1, <1>2, ReadTypes

LEMMA BackfillReadTypes ==
    ASSUME Inv, Types, NEW w \in Writers, BackfillRead(w)
    PROVE  Types'
<1> DEFINE end == IF problem = NoRow \/ problem.marked THEN "skipped" ELSE "none"
<1>1. /\ tx' = [tx EXCEPT ![w].pc = IF end = "none" THEN "write" ELSE "done",
                          ![w].outcome = end, ![w].saw = problem]
      /\ UNCHANGED <<job, problem, reviews, rowLock, advisory>>
  BY DEF BackfillRead
<1>2. end \in Outcomes /\ (end = "none" => problem # NoRow)
  BY DEF Outcomes
<1> HIDE DEF end
<1>3. QED
  BY <1>1, <1>2, ReadTypes

LEMMA ReviewInsertTypes ==
    ASSUME Inv, Types, NEW w \in Writers, ReviewInsert(w)
    PROVE  Types'
<1>1. UNCHANGED <<job, problem, reviews, rowLock, advisory>> /\ Kind(w) = "review"
  BY DEF ReviewInsert
<1>2. CASE problem = NoRow
  <2> DEFINE t == [tx[w] EXCEPT !.pc = "done", !.outcome = "not_found"]
  <2>1. tx' = [tx EXCEPT ![w] = t]
    BY <1>2 DEF ReviewInsert
  <2>2. /\ t.pc = "done" /\ t.saw = tx[w].saw /\ t.row = tx[w].row /\ t.added = tx[w].added
        /\ t.deleted = tx[w].deleted /\ t.new = tx[w].new /\ t.outcome = "not_found"
    BY Written DEF Fields
  <2> HIDE DEF t
  <2>3. RecordTypes(t)
    BY <2>2, TypesOf DEF RecordTypes, Outcomes
  <2>4. QED
    BY <1>1, <2>1, <2>2, <2>3, TypesQuietStep DEF Inside
<1>3. CASE problem # NoRow
  <2> DEFINE r == [by |-> w, n |-> 1, t |-> job[w].t, s |-> job[w].s, synth |-> FALSE]
             t == [tx[w] EXCEPT !.pc = "trigger", !.added = {r}]
  <2>1. tx' = [tx EXCEPT ![w] = t]
    BY <1>3 DEF ReviewInsert
  <2>2. r \in Review
    <3>1. job[w] \in ReviewJob
      BY <1>1, Kinds DEF Kind, ImportJob, BackfillJob
    <3>2. job[w].t \in Rating /\ job[w].s \in Score \cup {NoScore}
      BY <3>1 DEF ReviewJob
    <3>3. QED
      BY <3>2 DEF Review
  <2> HIDE DEF r
  <2>3. /\ t.pc = "trigger" /\ t.saw = tx[w].saw /\ t.row = tx[w].row /\ t.added = {r}
        /\ t.deleted = tx[w].deleted /\ t.new = tx[w].new /\ t.outcome = tx[w].outcome
    BY Written DEF Fields
  <2> HIDE DEF t
  <2>4. RecordTypes(t)
    <3>1. IsFiniteSet({r}) /\ {r} \subseteq Review
      BY <2>2, FS_Singleton
    <3>2. QED
      BY <2>3, <3>1, TypesOf DEF RecordTypes
  <2>5. QED
    BY <1>1, <1>3, <2>1, <2>3, <2>4, TypesQuietStep
<1>4. QED
  BY <1>2, <1>3

LEMMA FirstWriteTypes ==
    ASSUME Inv, Types, NEW w \in Writers, Free(rowLock, w),
           NEW row \in Problem, NEW pc, pc \in {"commit", "delete"} \/ (pc = "look" /\ tx[w].saw # NoRow),
           rowLock' = w, tx' = [tx EXCEPT ![w].row = row, ![w].pc = pc],
           UNCHANGED <<job, problem, reviews, advisory>>
    PROVE  Types'
<1> DEFINE t == [tx[w] EXCEPT !.row = row, !.pc = pc]
<1>1. tx' = [tx EXCEPT ![w] = t]
  OBVIOUS
<1>2. /\ t.pc = pc /\ t.saw = tx[w].saw /\ t.row = row /\ t.added = tx[w].added
      /\ t.deleted = tx[w].deleted /\ t.new = tx[w].new /\ t.outcome = tx[w].outcome
  BY Written DEF Fields
<1> HIDE DEF t
<1>3. pc \in {"commit", "delete", "look"} /\ (pc = "look" => tx[w].saw # NoRow)
  OBVIOUS
<1>4. RecordTypes(t)
  BY <1>2, <1>3, TypesOf DEF RecordTypes
<1>5. t.row # NoRow
  BY <1>2
<1>6. problem' \in Problem \cup {NoRow} /\ reviews' \subseteq Review /\ IsFiniteSet(reviews')
  BY DEF Types
<1>7. QED
  BY <1>1, <1>2, <1>3, <1>4, <1>5, <1>6, TypesStep

LEMMA Midpoints ==
    ASSUME NEW t \in Rating
    PROVE  Midpoint(t) \in Score
<1>1. t \in {1, 2, 3, 4, 5}
  BY DEF Rating
<1>2. Low(t) \in 0..2400 /\ High(t) \in 0..2400
  <2>1. CASE t = 1
    BY <2>1 DEF Low, High
  <2>2. CASE t = 2
    BY <2>2 DEF Low, High
  <2>3. CASE t = 3
    BY <2>3 DEF Low, High
  <2>4. CASE t = 4
    BY <2>4 DEF Low, High
  <2>5. CASE t = 5
    BY <2>5 DEF Low, High
  <2>6. QED
    BY <1>1, <2>1, <2>2, <2>3, <2>4, <2>5
<1> DEFINE a == Low(t)
           b == High(t)
<1>3. Midpoint(t) = (a + b) \div 2
  BY DEF Midpoint
<1>4. a \in 0..2400 /\ b \in 0..2400
  BY <1>2
<1> HIDE DEF a, b
<1>5. (a + b) \div 2 \in 0..2400
  BY <1>4
<1>6. QED
  BY <1>3, <1>5 DEF Score

LEMMA ImportWriteTypes ==
    ASSUME Inv, Types, NEW w \in Writers, ImportWrite(w)
    PROVE  Types'
<1> DEFINE old == IF problem = NoRow THEN NoScore ELSE problem.s
           row == [t |-> job[w].t, s |-> old, status |-> job[w].status, marked |-> FALSE]
<1>1. CASE Abort(w, OnError(w)) \/ Abort(w, OnCheck(w))
  BY <1>1, AbortTypes, ErrorOutcomes
<1>2. ASSUME rowLock' = w,
             tx' = [tx EXCEPT ![w].row = row,
                              ![w].pc = IF job[w].reviews = <<>> THEN "commit" ELSE "delete"],
             UNCHANGED <<job, problem, reviews, advisory>>
      PROVE  Types'
  <2>1. Kind(w) = "import" /\ Free(rowLock, w)
    BY DEF ImportWrite
  <2>2. row \in Problem
    <3>1. job[w] \in ImportJob
      BY <2>1, Kinds DEF Kind, ReviewJob, BackfillJob
    <3>2. job[w].t \in Rating /\ job[w].status \in Statuses
      BY <3>1 DEF ImportJob
    <3>3. old \in Score \cup {NoScore}
      BY DEF Types, Problem
    <3> HIDE DEF old
    <3>4. QED
      BY <3>2, <3>3 DEF Problem
  <2> DEFINE pc == IF job[w].reviews = <<>> THEN "commit" ELSE "delete"
  <2>3. pc \in {"commit", "delete"}
    OBVIOUS
  <2>4. tx' = [tx EXCEPT ![w].row = row, ![w].pc = pc]
    BY <1>2
  <2> HIDE DEF row, pc
  <2>5. QED
    BY <1>2, <2>1, <2>2, <2>3, <2>4, FirstWriteTypes
<1>3. QED
  BY <1>1, <1>2 DEF ImportWrite

LEMMA BackfillWriteTypes ==
    ASSUME Inv, Types, NEW w \in Writers, BackfillWrite(w)
    PROVE  Types'
<1> DEFINE row == [problem EXCEPT !.s = Midpoint(tx[w].saw.t), !.marked = TRUE]
<1>1. tx[w].pc = "write" /\ Kind(w) = "backfill" /\ Free(rowLock, w)
  BY DEF BackfillWrite, At
<1>2. problem \in Problem /\ tx[w].saw \in Problem /\ tx[w].saw # NoRow
  BY <1>1, TypesOf DEF WriterTypes, RecordTypes
<1>3. row \in Problem
  <2>1. Midpoint(tx[w].saw.t) \in Score
    BY <1>2, Midpoints DEF Problem
  <2> DEFINE m == Midpoint(tx[w].saw.t)
  <2> HIDE DEF m
  <2>2. m \in Score
    BY <2>1 DEF m
  <2>3. [problem EXCEPT !.s = m, !.marked = TRUE] \in Problem
    BY <1>2, <2>2 DEF Problem
  <2>4. QED
    BY <2>3 DEF m
<1>4. CASE FitsCheck(row)
  <2>1. rowLock' = w /\ tx' = [tx EXCEPT ![w].row = row, ![w].pc = "look"]
        /\ UNCHANGED <<job, problem, reviews, advisory>>
    BY <1>4 DEF BackfillWrite
  <2> HIDE DEF row
  <2>2. QED
    BY <1>1, <1>2, <1>3, <2>1, FirstWriteTypes
<1>5. CASE ~FitsCheck(row)
  BY <1>5, AbortTypes, ErrorOutcomes DEF BackfillWrite
<1>6. QED
  BY <1>4, <1>5

LEMMA ImportDeleteTypes ==
    ASSUME Inv, Types, NEW w \in Writers, ImportDelete(w)
    PROVE  Types'
<1> DEFINE pc == IF Visible(w) = {} THEN "insert" ELSE "trigger"
           V == Visible(w)
           t == [tx[w] EXCEPT !.deleted = V, !.pc = pc]
<1>1. /\ tx' = [tx EXCEPT ![w] = t] /\ UNCHANGED <<job, problem, reviews, rowLock, advisory>>
      /\ tx[w].pc = "delete"
  BY DEF ImportDelete, At
<1>2. Kind(w) = "import" /\ tx[w].pc \in Inside
  BY <1>1, Written DEF Stages, Inside
<1>3. pc \in {"insert", "trigger"} /\ V \subseteq Review
  BY TypesOf
<1> HIDE DEF pc, V
<1>4. /\ t.pc = pc /\ t.saw = tx[w].saw /\ t.row = tx[w].row /\ t.added = tx[w].added
      /\ t.deleted = V /\ t.new = tx[w].new /\ t.outcome = tx[w].outcome
  BY Written DEF Fields
<1> HIDE DEF t
<1>5. RecordTypes(t)
  BY <1>3, <1>4, TypesOf DEF RecordTypes
<1>6. QED
  BY <1>1, <1>2, <1>3, <1>4, <1>5, TypesQuietStep

(* The file's reviews are reviews. *)
LEMMA FileTypes ==
    ASSUME Inv, NEW w \in Writers, Kind(w) = "import"
    PROVE  FileReviews(w) \subseteq Review
<1> DEFINE R == job[w].reviews
           rv(i) == [by |-> w, n |-> i, t |-> R[i].t, s |-> R[i].s, synth |-> FALSE]
<1>1. R \in Seq(Rated)
  BY Kinds
<1>2. DOMAIN R \subseteq Nat /\ \A i \in DOMAIN R : R[i] \in Rated
  BY <1>1
<1>3. ASSUME NEW i \in DOMAIN R
      PROVE  rv(i) \in Review
  <2>1. i \in Nat /\ R[i].t \in Rating /\ R[i].s \in Score \cup {NoScore}
    BY <1>2 DEF Rated
  <2>2. QED
    BY <2>1 DEF Review
<1>4. FileReviews(w) = {rv(i) : i \in DOMAIN R}
  BY DEF FileReviews
<1> HIDE DEF R, rv
<1>5. QED
  BY <1>3, <1>4

LEMMA ImportInsertTypes ==
    ASSUME Inv, Types, NEW w \in Writers, ImportInsert(w)
    PROVE  Types'
<1> DEFINE k == Cardinality(tx[w].added)
           one == {r \in FileReviews(w) : r.n = k + 1}
           t == [tx[w] EXCEPT !.pc = "trigger", !.added = tx[w].added \cup one]
<1>1. tx' = [tx EXCEPT ![w] = t] /\ UNCHANGED <<job, problem, reviews, rowLock, advisory>>
  BY DEF ImportInsert
<1>2. tx[w].pc = "insert" /\ Kind(w) = "import" /\ tx[w].pc \in Inside
  BY DEF ImportInsert, At, Inside
<1>3. /\ job[w].reviews # <<>> /\ IsFiniteSet(tx[w].added) /\ k < Len(job[w].reviews)
  BY <1>2, Written DEF Stages, FileFits
<1>4. PICK x : one = {x}
  <2>1. k \in Nat
    BY <1>3, FS_CardinalityType
  <2>2. QED
    BY <1>2, <1>3, <2>1, FilePrefixes
<1>5. one \subseteq Review
  BY <1>2, FileTypes
<1> HIDE DEF one
<1>6. IsFiniteSet(tx[w].added \cup one) /\ tx[w].added \cup one \subseteq Review
  <2>1. IsFiniteSet(one)
    BY <1>4, FS_Singleton
  <2>2. IsFiniteSet(tx[w].added \cup one)
    BY <1>3, <2>1, FS_Union
  <2>3. QED
    BY <1>5, <2>2, TypesOf DEF RecordTypes
<1>7. /\ t.pc = "trigger" /\ t.saw = tx[w].saw /\ t.row = tx[w].row
      /\ t.added = tx[w].added \cup one
      /\ t.deleted = tx[w].deleted /\ t.new = tx[w].new /\ t.outcome = tx[w].outcome
  BY Written DEF Fields
<1> HIDE DEF t
<1>8. RecordTypes(t)
  BY <1>6, <1>7, TypesOf DEF RecordTypes
<1>9. QED
  BY <1>1, <1>2, <1>7, <1>8, TypesQuietStep

LEMMA BackfillLookTypes ==
    ASSUME Inv, Types, NEW w \in Writers, BackfillLook(w)
    PROVE  Types'
<1> DEFINE pc == IF \E r \in Visible(w) : r.synth THEN "commit" ELSE "insert"
           t == [tx[w] EXCEPT !.pc = pc]
<1>1. /\ tx' = [tx EXCEPT ![w] = t] /\ UNCHANGED <<job, problem, reviews, rowLock, advisory>>
      /\ tx[w].pc = "look" /\ tx[w].pc \in Inside
  BY DEF BackfillLook, Goto, At, Inside
<1>2. pc \in {"commit", "insert"}
  OBVIOUS
<1> HIDE DEF pc
<1>3. /\ t.pc = pc /\ t.saw = tx[w].saw /\ t.row = tx[w].row /\ t.added = tx[w].added
      /\ t.deleted = tx[w].deleted /\ t.new = tx[w].new /\ t.outcome = tx[w].outcome
  BY Written DEF Fields
<1> HIDE DEF t
<1>4. RecordTypes(t)
  BY <1>2, <1>3, TypesOf DEF RecordTypes
<1>5. Kind(w) = "backfill" => tx[w].saw # NoRow
  BY <1>1, TypesOf DEF WriterTypes
<1>6. QED
  BY <1>1, <1>2, <1>3, <1>4, <1>5, TypesQuietStep

LEMMA BackfillInsertTypes ==
    ASSUME Inv, Types, NEW w \in Writers, BackfillInsert(w)
    PROVE  Types'
<1> DEFINE r == [by |-> w, n |-> 1, t |-> tx[w].saw.t, s |-> Midpoint(tx[w].saw.t), synth |-> TRUE]
           t == [tx[w] EXCEPT !.pc = "trigger", !.added = {r}]
<1>1. /\ tx' = [tx EXCEPT ![w] = t] /\ UNCHANGED <<job, problem, reviews, rowLock, advisory>>
      /\ tx[w].pc = "insert" /\ tx[w].pc \in Inside /\ Kind(w) = "backfill"
  BY DEF BackfillInsert, At, Inside
<1>2. r \in Review
  <2>1. tx[w].saw.t \in Rating
    BY <1>1, TypesOf DEF WriterTypes, RecordTypes, Problem
  <2>2. Midpoint(tx[w].saw.t) \in Score
    BY <2>1, Midpoints
  <2>3. QED
    BY <2>1, <2>2 DEF Review
<1> HIDE DEF r
<1>3. IsFiniteSet({r}) /\ {r} \subseteq Review
  BY <1>2, FS_Singleton
<1>4. /\ t.pc = "trigger" /\ t.saw = tx[w].saw /\ t.row = tx[w].row /\ t.added = {r}
      /\ t.deleted = tx[w].deleted /\ t.new = tx[w].new /\ t.outcome = tx[w].outcome
  BY Written DEF Fields
<1> HIDE DEF t
<1>5. RecordTypes(t)
  BY <1>3, <1>4, TypesOf DEF RecordTypes
<1>6. QED
  BY <1>1, <1>4, <1>5, TypesQuietStep

LEMMA RecomputeTypes ==
    ASSUME Inv, Types, NEW w \in Writers, Recompute(w)
    PROVE  Types'
<1> DEFINE R == Visible(w)
           c == Consensus(R, Current(w))
           none == R = {} /\ ByMean
<1>1. tx[w].pc = "trigger" /\ tx[w].pc \in Inside /\ Free(advisory, w)
  BY DEF Recompute, At, Inside
<1>2. /\ problem \in Problem \cup {NoRow} /\ reviews \subseteq Review /\ IsFiniteSet(reviews)
      /\ tx[w].pc \in Inside => rowLock = w \/ problem # NoRow
      /\ rowLock = w <=> tx[w].row # NoRow
  BY TypesOf DEF Types, WriterTypes
<1>3. CASE advisory' = w /\ Goto(w, Returned(w)) /\ UNCHANGED <<job, problem, reviews, rowLock>>
  <2> DEFINE pc == Returned(w)
             t == [tx[w] EXCEPT !.pc = pc]
  <2>1. tx' = [tx EXCEPT ![w] = t]
    BY <1>3 DEF Goto
  <2>2. pc \in {"insert", "commit"} /\ (pc = "insert" => Kind(w) = "import")
    BY <1>1, AfterTrigger
  <2> HIDE DEF pc
  <2>3. /\ t.pc = pc /\ t.saw = tx[w].saw /\ t.row = tx[w].row /\ t.added = tx[w].added
        /\ t.deleted = tx[w].deleted /\ t.new = tx[w].new /\ t.outcome = tx[w].outcome
    BY Written DEF Fields
  <2> HIDE DEF t
  <2>4. RecordTypes(t)
    BY <2>2, <2>3, TypesOf DEF RecordTypes
  <2>5. QED
    BY <1>1, <1>2, <1>3, <2>1, <2>2, <2>3, <2>4, TypesStep
<1>4. CASE Abort(w, OnBand(w))
  BY <1>4, AbortTypes, ErrorOutcomes
<1>5. CASE /\ ~none /\ advisory' = w
           /\ tx' = [tx EXCEPT ![w].new = c, ![w].pc = "apply"]
           /\ UNCHANGED <<job, problem, reviews, rowLock>>
  <2> DEFINE t == [tx[w] EXCEPT !.new = c, !.pc = "apply"]
  <2>1. tx' = [tx EXCEPT ![w] = t]
    BY <1>5
  <2>2. c \in Rated
    <3>1. R \subseteq Review /\ IsFiniteSet(R) /\ Current(w) \in Problem
      BY <1>1, TypesOf
    <3>2. MeanScore(R) \in Score \cup {NoScore} /\ (R # {} => MeanRating(R) \in Rating)
      BY <3>1, MeansInRange
    <3>3. (IF ByMean THEN MeanRating(R) ELSE Current(w).t) \in Rating
      BY <1>5, <3>1, <3>2 DEF Problem
    <3>4. QED
      BY <3>2, <3>3 DEF Consensus, Rated
  <2> HIDE DEF c
  <2>3. /\ t.pc = "apply" /\ t.saw = tx[w].saw /\ t.row = tx[w].row /\ t.added = tx[w].added
        /\ t.deleted = tx[w].deleted /\ t.new = c /\ t.outcome = tx[w].outcome
    BY Written DEF Fields
  <2> HIDE DEF t
  <2>4. RecordTypes(t)
    BY <2>2, <2>3, TypesOf DEF RecordTypes
  <2>5. QED
    BY <1>1, <1>2, <1>5, <2>1, <2>3, <2>4, TypesStep
<1>6. QED
  BY <1>3, <1>4, <1>5 DEF Recompute

LEMMA ApplyTypes ==
    ASSUME Inv, Types, NEW w \in Writers, Apply(w)
    PROVE  Types'
<1> DEFINE row == [Current(w) EXCEPT !.t = tx[w].new.t, !.s = tx[w].new.s]
<1>1. tx[w].pc = "apply" /\ tx[w].pc \in Inside /\ Free(rowLock, w)
  BY DEF Apply, At, Inside
<1>2. problem \in Problem \cup {NoRow} /\ reviews \subseteq Review /\ IsFiniteSet(reviews)
  BY DEF Types
<1>3. CASE ~FitsCheck(row)
  BY <1>3, AbortTypes, ErrorOutcomes DEF Apply
<1>4. CASE FitsCheck(row)
  <2> DEFINE pc == Returned(w)
             t == [tx[w] EXCEPT !.row = row, !.pc = pc]
  <2>1. rowLock' = w /\ tx' = [tx EXCEPT ![w] = t] /\ UNCHANGED <<job, problem, reviews, advisory>>
    BY <1>4 DEF Apply
  <2>2. row \in Problem
    <3>1. Current(w) \in Problem /\ tx[w].new \in Rated
      BY <1>1, TypesOf DEF RecordTypes
    <3>2. tx[w].new.t \in Rating /\ tx[w].new.s \in Score \cup {NoScore}
      BY <3>1 DEF Rated
    <3>3. QED
      BY <3>1, <3>2 DEF Problem
  <2>3. pc \in {"insert", "commit"} /\ (pc = "insert" => Kind(w) = "import")
    BY <1>1, AfterTrigger
  <2> HIDE DEF row, pc
  <2>4. /\ t.pc = pc /\ t.saw = tx[w].saw /\ t.row = row /\ t.added = tx[w].added
        /\ t.deleted = tx[w].deleted /\ t.new = tx[w].new /\ t.outcome = tx[w].outcome
    BY Written DEF Fields
  <2> HIDE DEF t
  <2>5. RecordTypes(t)
    BY <2>2, <2>3, <2>4, TypesOf DEF RecordTypes
  <2>6. t.row # NoRow
    BY <2>2, <2>4
  <2>7. QED
    BY <1>1, <1>2, <2>1, <2>3, <2>4, <2>5, <2>6, TypesStep
<1>5. QED
  BY <1>3, <1>4

LEMMA CommitTypes ==
    ASSUME Inv, Types, NEW w \in Writers, Commit(w)
    PROVE  Types'
<1> DEFINE pc == IF Kind(w) = "review" THEN "answer" ELSE "done"
           o == Committed(w)
           new == tx[w].new
           t == [Fresh EXCEPT !.pc = pc, !.new = new, !.outcome = o]
<1>1. /\ tx[w].pc = "commit" /\ tx[w].pc \in Inside
      /\ tx' = [tx EXCEPT ![w] = t] /\ job' = job
      /\ problem' = Current(w) /\ reviews' = Visible(w)
      /\ rowLock' = Unlock(rowLock, w) /\ advisory' = Unlock(advisory, w)
  BY DEF Commit, At, Inside
<1>2. pc \in {"answer", "done"}
  OBVIOUS
<1>3. o \in Outcomes /\ new \in Rated \cup {None}
  BY ErrorOutcomes, TypesOf DEF RecordTypes
<1> HIDE DEF pc, o, new
<1>4. /\ t.pc = pc /\ t.saw = NoRow /\ t.row = NoRow /\ t.added = {} /\ t.deleted = {}
      /\ t.new = new /\ t.outcome = o
  BY DEF Fresh
<1> HIDE DEF t
<1>5. RecordTypes(t)
  BY <1>2, <1>3, <1>4, FS_EmptySet DEF RecordTypes
<1>6. problem' \in Problem /\ reviews' \subseteq Review /\ IsFiniteSet(reviews')
  BY <1>1, TypesOf
<1>7. rowLock' # w
  BY <1>1 DEF Unlock
<1>8. QED
  BY <1>1, <1>2, <1>4, <1>5, <1>6, <1>7, TypesStep DEF Inside

LEMMA InitTypes ==
    ASSUME Init
    PROVE  Types
<1>1. /\ problem \in Problem \cup {NoRow} /\ reviews = {}
      /\ rowLock = None /\ advisory = None
      /\ \A w \in Writers : tx[w] = Fresh
  BY DEF Init
<1>2. /\ Fresh.pc = "start" /\ Fresh.saw = NoRow /\ Fresh.row = NoRow /\ Fresh.added = {}
      /\ Fresh.deleted = {} /\ Fresh.new = None /\ Fresh.outcome = "none"
  BY DEF Fresh
<1>3. RecordTypes(Fresh)
  BY <1>2, FS_EmptySet DEF RecordTypes, Outcomes
<1>4. \A w \in Writers : WriterTypes(w)
  BY <1>1, <1>2, <1>3 DEF WriterTypes, Inside
<1>5. QED
  BY <1>1, <1>4, FS_EmptySet DEF Types

LEMMA NextTypes ==
    ASSUME Inv, Types, [Next]_vars
    PROVE  Types'
<1>1. CASE Next
  <2>1. PICK w \in Writers : Step(w)
    BY <1>1 DEF Next
  <2>2. QED
    BY <2>1, ReviewInsertTypes, ReviewAnswerTypes, ReviewReportTypes, ImportFindTypes,
       ImportWriteTypes, ImportDeleteTypes, ImportInsertTypes, BackfillReadTypes,
       BackfillWriteTypes, BackfillLookTypes, BackfillInsertTypes, RecomputeTypes,
       ApplyTypes, CommitTypes, DeadlockAbortTypes
    DEF Step
<1>2. CASE UNCHANGED vars
  <2>1. UNCHANGED <<job, problem, reviews, tx, rowLock, advisory>>
    BY <1>2 DEF vars
  <2>2. \A w \in Writers : WriterTypes(w)'
    BY <2>1 DEF Types, WriterTypes, RecordTypes, Kind
  <2>3. QED
    BY <2>1, <2>2 DEF Types
<1>3. QED
  BY <1>1, <1>2

(* Every rating the three programs commit is a rating from 1 to 5 with a   *)
(* score from 0 to 10 or none: the trigger's rounded means stay in range   *)
(* for any number of reviews, a new row is never half filled, and only a   *)
(* writer inside a transaction holds a lock or has uncommitted writes.     *)
THEOREM ReviewsTypes == Spec => []TypeOK
<1>1. Inv /\ Types /\ [Next]_vars => Types'
  BY NextTypes
<1>2. ASSUME Inv, Types
      PROVE  TypeOK
  <2>1. ASSUME NEW w \in Writers
        PROVE  /\ tx[w].pc \in Locations /\ tx[w].outcome \in Outcomes
               /\ tx[w].saw \in Problem \cup {NoRow} /\ tx[w].row \in Problem \cup {NoRow}
               /\ tx[w].added \subseteq Review /\ tx[w].deleted \subseteq Review
               /\ tx[w].new \in Rated \cup {None}
               /\ rowLock = w <=> tx[w].row # NoRow
               /\ tx[w].pc \in {"start", "answer", "report", "done"} =>
                     tx[w].row = NoRow /\ tx[w].added = {} /\ tx[w].deleted = {} /\ advisory # w
    <3>1. tx[w].pc \in Locations /\ Outside(w)
      BY <1>2, Written DEF Stages
    <3>2. WriterTypes(w) /\ RecordTypes(tx[w])
      BY <1>2, TypesOf
    <3>3. QED
      BY <3>1, <3>2 DEF Outside, WriterTypes, RecordTypes
  <2>2. /\ job \in [Writers -> Jobs] /\ problem \in Problem \cup {NoRow} /\ reviews \subseteq Review
        /\ rowLock \in Writers \cup {None} /\ advisory \in Writers \cup {None}
    BY <1>2 DEF Inv, Table, Types
  <2>3. QED
    BY <2>1, <2>2 DEF TypeOK
<1>3. QED
  BY <1>1, <1>2, InitTypes, ReviewsInvariant, PTL DEF Spec
=============================================================================
