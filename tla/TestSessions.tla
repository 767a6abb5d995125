---------------------------- MODULE TestSessions ----------------------------
(***************************************************************************)
(* The life of test sessions in backend/src/test-sessions: the handlers    *)
(* that write a session's row, its snapshots and its attempts.             *)
(*                                                                         *)
(* The service talks to PostgreSQL at READ COMMITTED.  Outside a           *)
(* transaction every statement commits by itself, so each statement is a   *)
(* step here and other requests run between two statements of a handler.   *)
(* Inside a transaction the writes stay in the request's own record until  *)
(* the commit step, and lock[s] is the request holding the session's row.  *)
(* A refused request (403, 404, 400 before any write) changes nothing and  *)
(* is a stuttering step.  A request's body is chosen where it is first     *)
(* used.  All sessions belong to one student, the one loadSessionOwned     *)
(* lets through.                                                           *)
(***************************************************************************)
EXTENDS Naturals, Sequences, FiniteSets

CONSTANTS
    Sessions,       \* the student's test sessions
    Requests,       \* what the server can handle at the same time
    NumSlots,       \* questions in a test
    Codes,          \* question codes
    Code,           \* Code[s][k]: frozen_question_codes of session s
    Answers,        \* answer payloads (with the review mark)
    MaxSeq,         \* BOUND: the client's action_seq runs over 1..MaxSeq
    MaxHint,        \* hints a problem has
    Threshold,      \* VIOLATION_THRESHOLD
    ClientSources,  \* auto_submit_source values the client sends
    Ops,            \* the endpoints called in this instance
    MayAbort,       \* whether requests may die half way
    None            \* no value

Slots == 1..NumSlots

Sources == {"MANUAL", "TIMER_EXPIRY", "VIOLATION_THRESHOLD",
            "NETWORK_FAILURE_FALLBACK"}

ASSUME SessionsAssumption == None \notin Sessions /\ None \notin Requests
ASSUME NumSlotsAssumption == NumSlots \in Nat
ASSUME CodeAssumption == Code \in [Sessions -> [Slots -> Codes]]
ASSUME ThresholdAssumption == Threshold \in Nat \ {0}
ASSUME SourcesAssumption == ClientSources \subseteq Sources /\ None \notin Sources
ASSUME BoundsAssumption == MaxSeq \in Nat /\ MaxHint \in Nat /\ MayAbort \in BOOLEAN
ASSUME AnswersAssumption == None \notin Answers

VARIABLES
    session,     \* committed test_sessions rows
    snapshots,   \* committed test_session_snapshots rows, None where absent
    attempts,    \* committed attempts rows
    lock,        \* lock[s]: the request whose transaction holds the row of s
    req,         \* req[r]: where request r is and what it has read
    answered,    \* history: what submits have returned
    latest,      \* history: per slot, the highest action_seq executed and its answers
    delivered,   \* history: hints whose text was returned
    scored,      \* history: late entries counted in scored_count
    due          \* history: the snapshots of s when the last drain locked it

db == <<session, snapshots, attempts>>
history == <<answered, latest, delivered, scored, due>>
vars == <<db, lock, req, history>>

-----------------------------------------------------------------------------
(* Types *)

SessionRow == [source : Sources \cup {None},  \* auto_submit_source; None = submitted_at is NULL
               violations : Nat,              \* violations_count
               rotations : Nat,               \* times the figure secret was rotated
               expired : BOOLEAN]             \* now() is past expires_at

Row == [answer : Answers \cup {None}, seq : Nat, visited : BOOLEAN,
        levels : Seq(Nat)]                    \* hint_levels_revealed; hints_used is its length

Attempt == [s : Sessions, slot : Slots, batch : Nat, code : Codes, order : Nat \ {0},
            answer : Answers \cup {None}, seq : Nat, hints : Nat, source : Sources]

Entry == [slot : Slots, seq : 1..MaxSeq, answer : Answers \cup {None}]
Patch == [slot : Slots, seq : 1..MaxSeq, answer : Answers \cup {None}, visited : BOOLEAN]
HintAsk == [slot : Slots, level : 1..MaxHint]
SubmitBody == [source : Sources]

Rows == [Slots -> Row \cup {None}]

(* What a row of attempts is identified by in the answers to a submit. *)
AttemptRowIds == [slot : Slots, batch : Nat]

ASSUME RowAssumption == None \notin Row
ASSUME OutcomeAssumption == None \notin [source : Sources, ids : SUBSET AttemptRowIds]

Locations == {"idle", "patch_write", "hint_check", "hint_write",
              "violation_update", "violation_commit",
              "submit_lock", "submit_read", "submit_count", "submit_commit",
              "late_next", "late_write"}

(* Inside the transaction, after the row lock is taken. *)
DrainSteps == {"submit_read", "submit_count", "submit_commit"}

Idle == [pc |-> "idle", s |-> None, in |-> None, count |-> 0, bump |-> FALSE,
         rows |-> None, prior |-> None]

Request == [pc : Locations, s : Sessions \cup {None},
            in : HintAsk \cup Entry \cup SubmitBody \cup {None},
            count : Nat, bump : BOOLEAN, rows : Rows \cup {None},
            prior : [Codes -> Nat] \cup {None}]

(* What a request's record holds at each step of its handler. *)
Ready(q) ==
    /\ q.pc # "idle" => q.s \in Sessions
    /\ q.pc = "hint_write" => q.in \in HintAsk
    /\ q.pc = "late_write" => q.in \in Entry
    /\ q.pc \in {"violation_update", "violation_commit", "submit_lock"} \cup DrainSteps
          => q.in \in SubmitBody
    /\ q.pc \in {"submit_count", "submit_commit"} => q.rows \in Rows
    /\ q.pc = "submit_commit" => q.prior \in [Codes -> Nat]

-----------------------------------------------------------------------------
(* Helpers *)

Submitted(s) == session[s].source # None

Live(s) == ~Submitted(s) /\ ~session[s].expired

Start(r, op, in) ==
    /\ op \in Ops
    /\ req[r].pc = "idle"
    /\ req' = [req EXCEPT ![r] = in]
    /\ UNCHANGED <<db, lock, history>>

At(pc, s, in) == [Idle EXCEPT !.pc = pc, !.s = s, !.in = in]

Goto(r, pc) == req' = [req EXCEPT ![r].pc = pc]

Done(r) == req' = [req EXCEPT ![r] = Idle]

(* Mutation: the transaction is never ended. *)
KeepLock(r) == UNCHANGED lock

Release(r) == lock' = [s \in Sessions |-> IF lock[s] = r THEN None ELSE lock[s]]

(* The foreign-key check of an inserted snapshot takes FOR KEY SHARE on the *)
(* session's row, which waits for a holder of FOR UPDATE.  An update of an  *)
(* existing snapshot checks no foreign key and waits for nobody.            *)
MayWriteSnapshot(s, k) ==
    ~(/\ snapshots[s][k] = None
      /\ lock[s] # None
      /\ req[lock[s]].pc \in DrainSteps)

LevelsOf(row) == IF row = None THEN <<>> ELSE row.levels

(* Mutations of Upsert: a conflict update that forgets to compare            *)
(* action_seq, and one that writes EXCLUDED.hint_levels_revealed back.       *)
UpsertIgnoringSeq(row, p) ==
    IF row = None
    THEN [answer |-> p.answer, seq |-> p.seq, visited |-> p.visited, levels |-> <<>>]
    ELSE [row EXCEPT !.answer = p.answer,
                     !.seq = IF p.seq > row.seq THEN p.seq ELSE @,
                     !.visited = @ \/ p.visited]

UpsertResettingHints(row, p) ==
    IF row = None \/ p.seq > row.seq
    THEN [answer |-> p.answer, seq |-> p.seq, visited |-> p.visited, levels |-> <<>>]
    ELSE row

(* INSERT ... ON CONFLICT DO UPDATE of patchSnapshot: the payload is         *)
(* replaced only by a higher action_seq.                                     *)
Upsert(row, p) ==
    IF row = None
    THEN [answer |-> p.answer, seq |-> p.seq, visited |-> p.visited, levels |-> <<>>]
    ELSE [row EXCEPT !.answer = IF p.seq > row.seq THEN p.answer ELSE @,
                     !.seq = IF p.seq > row.seq THEN p.seq ELSE @,
                     !.visited = @ \/ p.visited]

(* The upsert of getHint: append the level, or insert a row that was never  *)
(* visited, at action_seq 0.                                                *)
UpsertHint(row, level) ==
    IF row = None
    THEN [answer |-> None, seq |-> 0, visited |-> FALSE, levels |-> <<level>>]
    ELSE [row EXCEPT !.levels = Append(@, level)]

(* History: one executed snapshot write. *)
Record(s, p) ==
    LET old == latest[s][p.slot]
        new == IF p.seq > old.seq THEN [seq |-> p.seq, answers |-> {p.answer}]
               ELSE IF p.seq = old.seq THEN [old EXCEPT !.answers = @ \cup {p.answer}]
               ELSE old IN
    latest' = [latest EXCEPT ![s][p.slot] = new]

-----------------------------------------------------------------------------
(* patchSnapshot: the submitted_at check, then the upsert. *)

PatchBegin(r, s) ==
    /\ ~Submitted(s)
    /\ Start(r, "patch", At("patch_write", s, None))

PatchWrite(r, p) ==
    LET s == req[r].s IN
    /\ req[r].pc = "patch_write"
    /\ MayWriteSnapshot(s, p.slot)
    /\ snapshots' = [snapshots EXCEPT ![s][p.slot] = Upsert(@, p)]
    /\ Record(s, p)
    /\ Done(r)
    /\ UNCHANGED <<session, attempts, lock, answered, delivered, scored, due>>

-----------------------------------------------------------------------------
(* getHint: the submitted_at check, the read of hints_used, the upsert. *)

HintBegin(r, s) ==
    /\ ~Submitted(s)
    /\ Start(r, "hint", At("hint_check", s, None))

HintCheck(r, h) ==
    /\ req[r].pc = "hint_check"
    /\ h.level = Len(LevelsOf(snapshots[req[r].s][h.slot])) + 1
    /\ req' = [req EXCEPT ![r].pc = "hint_write", ![r].in = h]
    /\ UNCHANGED <<db, lock, history>>

(* 400 sequence_skipped or 404 no_such_level *)
HintRefuse(r) ==
    /\ req[r].pc = "hint_check"
    /\ Done(r)
    /\ UNCHANGED <<db, lock, history>>

HintWrite(r) ==
    LET s == req[r].s
        h == req[r].in IN
    /\ req[r].pc = "hint_write"
    /\ MayWriteSnapshot(s, h.slot)
    /\ snapshots' = [snapshots EXCEPT ![s][h.slot] = UpsertHint(@, h.level)]
    /\ delivered' = delivered \cup {[s |-> s, slot |-> h.slot, level |-> h.level]}
    /\ Done(r)
    /\ UNCHANGED <<session, attempts, lock, answered, latest, scored, due>>

-----------------------------------------------------------------------------
(* logViolation: one transaction that counts, audits and, at the threshold, *)
(* runs the submit pipeline.                                                *)

ViolationBegin(r, s) ==
    /\ ~Submitted(s)
    /\ Start(r, "violation",
             [At("violation_update", s, [source |-> "VIOLATION_THRESHOLD"])
                EXCEPT !.count = session[s].violations])

(* Mutation: the threshold is reported, and the client is left to submit. *)
ViolationReportOnly(r) ==
    LET s == req[r].s IN
    /\ req[r].pc = "violation_update"
    /\ lock[s] = None
    /\ lock' = [lock EXCEPT ![s] = IF Submitted(s) THEN None ELSE r]
    /\ req' = [req EXCEPT ![r].bump = ~Submitted(s), ![r].pc = "violation_commit"]
    /\ UNCHANGED <<db, history>>

(* UPDATE ... WHERE submitted_at IS NULL waits for the row, then looks at   *)
(* its committed version.  When no row qualifies the count is the one read  *)
(* before the transaction.                                                  *)
ViolationUpdate(r) ==
    LET s == req[r].s
        count == IF Submitted(s) THEN req[r].count ELSE session[s].violations + 1 IN
    /\ req[r].pc = "violation_update"
    /\ lock[s] = None
    /\ lock' = [lock EXCEPT ![s] = IF Submitted(s) THEN None ELSE r]
    /\ req' = [req EXCEPT ![r].bump = ~Submitted(s),
                          ![r].pc = IF count >= Threshold THEN "submit_lock"
                                                          ELSE "violation_commit"]
    /\ UNCHANGED <<db, history>>

ViolationCommit(r) ==
    LET s == req[r].s IN
    /\ req[r].pc = "violation_commit"
    /\ session' = [session EXCEPT ![s].violations = IF req[r].bump THEN @ + 1 ELSE @]
    /\ Release(r)
    /\ Done(r)
    /\ UNCHANGED <<snapshots, attempts, history>>

-----------------------------------------------------------------------------
(* submit and runSubmitInTransaction. *)

AttemptIds(s) == {[slot |-> a.slot, batch |-> a.batch] : a \in {b \in attempts : b.s = s}}

(* Mutation: rows that were seen but not answered are skipped too. *)
UntouchedIfUnanswered(row) == row.answer = None

Untouched(row) == ~row.visited /\ row.answer = None /\ row.levels = <<>>

(* The slots of a drain that become attempts rows. *)
Drained(rows) == {k \in Slots : rows[k] # None /\ ~Untouched(rows[k])}

(* Mutation: the in-batch sequence starts at 0 and nothing is added. *)
OrderFromZero(r, k) ==
    LET s == req[r].s IN
    req[r].prior[Code[s][k]]
      + Cardinality({j \in Drained(req[r].rows) : j < k /\ Code[s][j] = Code[s][k]})

(* Mutation: every row of a batch gets the number after the prior count. *)
OrderWithoutBatchIndex(r, k) == req[r].prior[Code[req[r].s][k]] + 1

(* attempt_order: the prior attempts at the code, plus the place in this    *)
(* batch among the slots with the same code.                                *)
Order(r, k) ==
    LET s == req[r].s IN
    req[r].prior[Code[s][k]]
      + Cardinality({j \in Drained(req[r].rows) : j <= k /\ Code[s][j] = Code[s][k]})

NewAttempts(r) ==
    LET s == req[r].s
        rows == req[r].rows IN
    {[s |-> s, slot |-> k, batch |-> session[s].rotations + 1, code |-> Code[s][k],
      order |-> Order(r, k), answer |-> rows[k].answer, seq |-> rows[k].seq,
      hints |-> Len(rows[k].levels), source |-> req[r].in.source] : k \in Drained(rows)}

SubmitBegin(r, s, src) == Start(r, "submit", At("submit_lock", s, [source |-> src]))

(* Mutation: the repeat echoes the request's own source. *)
RepeatEchoesRequest(r) == [s |-> req[r].s, source |-> req[r].in.source,
                           ids |-> AttemptIds(req[r].s)]

(* The idempotent return: the stored source and the stored attempt ids. *)
RepeatAnswer(r) == [s |-> req[r].s, source |-> session[req[r].s].source,
                    ids |-> AttemptIds(req[r].s)]

SubmitRepeat(r) ==
    LET s == req[r].s IN
    /\ req[r].pc = "submit_lock"
    /\ lock[s] \in {None, r}
    /\ Submitted(s)
    /\ answered' = answered \cup {RepeatAnswer(r)}
    /\ Release(r)
    /\ Done(r)
    /\ UNCHANGED <<db, latest, delivered, scored, due>>

(* Mutation: a plain SELECT instead of SELECT ... FOR UPDATE. *)
SubmitSelectOnly(r) ==
    /\ req[r].pc = "submit_lock"
    /\ ~Submitted(req[r].s)
    /\ Goto(r, "submit_read")
    /\ due' = [due EXCEPT ![req[r].s] = snapshots[req[r].s]]
    /\ UNCHANGED <<db, lock, answered, latest, delivered, scored>>

(* SELECT ... FOR UPDATE; a violation's transaction already holds the row. *)
SubmitLock(r) ==
    LET s == req[r].s IN
    /\ req[r].pc = "submit_lock"
    /\ lock[s] \in {None, r}
    /\ ~Submitted(s)
    /\ lock' = [lock EXCEPT ![s] = r]
    /\ Goto(r, "submit_read")
    /\ due' = [due EXCEPT ![s] = snapshots[s]]
    /\ UNCHANGED <<db, answered, latest, delivered, scored>>

(* Mutation: a session without snapshots is left as it is. *)
SubmitReadSkippingEmpty(r) ==
    LET s == req[r].s IN
    /\ req[r].pc = "submit_read"
    /\ IF \A k \in Slots : snapshots[s][k] = None
       THEN Release(r) /\ Done(r)
       ELSE /\ req' = [req EXCEPT ![r].pc = "submit_count", ![r].rows = snapshots[s]]
            /\ UNCHANGED lock
    /\ UNCHANGED <<db, history>>

SubmitRead(r) ==
    /\ req[r].pc = "submit_read"
    /\ req' = [req EXCEPT ![r].pc = "submit_count", ![r].rows = snapshots[req[r].s]]
    /\ UNCHANGED <<db, lock, history>>

(* The batched prior counts: committed attempts of any session. *)
SubmitCount(r) ==
    /\ req[r].pc = "submit_count"
    /\ req' = [req EXCEPT ![r].pc = "submit_commit",
                          ![r].prior = [c \in Codes |-> Cardinality({a \in attempts : a.code = c})]]
    /\ UNCHANGED <<db, lock, history>>

(* The attempts, the session's UPDATE and the violation's increment become  *)
(* visible together.                                                        *)
SubmitCommit(r) ==
    LET s == req[r].s IN
    /\ req[r].pc = "submit_commit"
    /\ attempts' = attempts \cup NewAttempts(r)
    /\ session' = [session EXCEPT ![s].source = req[r].in.source,
                                  ![s].rotations = @ + 1,
                                  ![s].violations = IF req[r].bump THEN @ + 1 ELSE @]
    /\ answered' = answered \cup
          {[s |-> s, source |-> req[r].in.source,
            ids |-> {[slot |-> a.slot, batch |-> a.batch] : a \in NewAttempts(r)}]}
    /\ Release(r)
    /\ Done(r)
    /\ UNCHANGED <<snapshots, latest, delivered, scored, due>>

-----------------------------------------------------------------------------
(* lateSnapshots: ownership only, then per entry the statement whose CTE     *)
(* asks whether the session is live and whose INSERT writes.  The CTE reads  *)
(* the statement's snapshot without a lock, so the write may come later.     *)
(* An entry that finds the session not live is only audited: a stutter.      *)

LateBegin(r, s) == Start(r, "late", At("late_next", s, None))

LateEntry(r, e) ==
    /\ req[r].pc = "late_next"
    /\ Live(req[r].s)
    /\ req' = [req EXCEPT ![r].pc = "late_write", ![r].in = e]
    /\ UNCHANGED <<db, lock, history>>

(* Inserts with visit_count 1; on conflict visit_count stays. *)
LateWrite(r) ==
    LET s == req[r].s
        e == req[r].in
        p == [slot |-> e.slot, seq |-> e.seq, answer |-> e.answer,
              visited |-> snapshots[s][e.slot] = None] IN
    /\ req[r].pc = "late_write"
    /\ MayWriteSnapshot(s, e.slot)
    /\ snapshots' = [snapshots EXCEPT ![s][e.slot] = Upsert(@, p)]
    /\ Record(s, p)
    /\ scored' = scored \cup {[s |-> s, slot |-> e.slot, seq |-> e.seq]}
    /\ req' = [req EXCEPT ![r].pc = "late_next", ![r].in = None]
    /\ UNCHANGED <<session, attempts, lock, answered, delivered, due>>

LateEnd(r) ==
    /\ req[r].pc = "late_next"
    /\ Done(r)
    /\ UNCHANGED <<db, lock, history>>

-----------------------------------------------------------------------------
(* The environment. *)

(* The server's clock passes expires_at; nothing in the service acts on it. *)
Expire(s) ==
    /\ "clock" \in Ops
    /\ ~session[s].expired
    /\ session' = [session EXCEPT ![s].expired = TRUE]
    /\ UNCHANGED <<snapshots, attempts, lock, req, history>>

(* The request dies: the process stops, the connection drops, or the        *)
(* transaction times out and rolls back.  What was committed stays.         *)
Abort(r) ==
    /\ MayAbort
    /\ req[r].pc # "idle"
    /\ Release(r)
    /\ Done(r)
    /\ UNCHANGED <<db, history>>

-----------------------------------------------------------------------------
Init ==
    /\ session = [s \in Sessions |-> [source |-> None, violations |-> 0,
                                      rotations |-> 0, expired |-> FALSE]]
    /\ snapshots = [s \in Sessions |-> [k \in Slots |-> None]]
    /\ attempts = {}
    /\ lock = [s \in Sessions |-> None]
    /\ req = [r \in Requests |-> Idle]
    /\ answered = {} /\ delivered = {} /\ scored = {}
    /\ latest = [s \in Sessions |-> [k \in Slots |-> [seq |-> 0, answers |-> {}]]]
    /\ due = [s \in Sessions |-> None]

Arrive(r, s) ==
    \/ PatchBegin(r, s)
    \/ HintBegin(r, s)
    \/ ViolationBegin(r, s)
    \/ \E src \in ClientSources : SubmitBegin(r, s, src)
    \/ LateBegin(r, s)

(* The steps that wait for no row lock. *)
Proceed(r) ==
    \/ \E h \in HintAsk : HintCheck(r, h)
    \/ HintRefuse(r) \/ ViolationCommit(r)
    \/ SubmitRead(r) \/ SubmitCount(r) \/ SubmitCommit(r)

(* The steps that wait until the session's row is free enough. *)
Acquire(r) ==
    \/ \E p \in Patch : PatchWrite(r, p)
    \/ HintWrite(r) \/ LateWrite(r)
    \/ ViolationUpdate(r) \/ SubmitLock(r) \/ SubmitRepeat(r)

Next ==
    \/ \E r \in Requests :
          \/ \E s \in Sessions : Arrive(r, s)
          \/ Proceed(r)
          \/ Acquire(r)
          \/ \E e \in Entry : LateEntry(r, e)
          \/ LateEnd(r)
          \/ Abort(r)
    \/ \E s \in Sessions : Expire(s)

Spec == Init /\ [][Next]_vars

(* A handler that can run does.  PostgreSQL queues the waiters of a row, so *)
(* one that keeps finding it free gets it; a late batch has finitely many   *)
(* entries.  Nothing makes a client send a request.                         *)
Fairness ==
    \A r \in Requests : WF_vars(Proceed(r)) /\ SF_vars(Acquire(r)) /\ SF_vars(LateEnd(r))

FairSpec == Spec /\ Fairness

-----------------------------------------------------------------------------
(* Properties *)

(* Every variable has its type, and a request has read what its next step   *)
(* uses.                                                                    *)
TypeOK ==
    /\ session \in [Sessions -> SessionRow]
    /\ snapshots \in [Sessions -> Rows]
    /\ attempts \subseteq Attempt /\ IsFiniteSet(attempts)
    /\ lock \in [Sessions -> Requests \cup {None}]
    /\ req \in [Requests -> Request]
    /\ \A r \in Requests : Ready(req[r])
    /\ answered \subseteq [s : Sessions, source : Sources, ids : SUBSET AttemptRowIds]
    /\ latest \in [Sessions -> [Slots -> [seq : Nat, answers : SUBSET (Answers \cup {None})]]]
    /\ delivered \subseteq [s : Sessions, slot : Slots, level : Nat]
    /\ scored \subseteq [s : Sessions, slot : Slots, seq : Nat]
    /\ due \in [Sessions -> Rows \cup {None}]

(* A session is drained into attempts at most once: rows of a session exist *)
(* only after it was submitted, all come from the same drain and carry its  *)
(* auto_submit_source, and the figure secret was rotated exactly once.      *)
(* (runSubmitInTransaction under concurrent submits and violations)         *)
DrainedOnce ==
    /\ \A s \in Sessions : session[s].rotations = IF Submitted(s) THEN 1 ELSE 0
    /\ \A a \in attempts : a.batch = 1 /\ a.source = session[a.s].source

(* Whatever a submit, a repeated submit or an auto-submitting violation     *)
(* returned for a session is still its outcome: source and attempt ids.     *)
(* (first-write-wins of POST /submit)                                       *)
AnswersAgree ==
    \A k \in answered : Submitted(k.s) /\ k.source = session[k.s].source
                         /\ k.ids = AttemptIds(k.s)

(* The violation that reaches the threshold commits together with the       *)
(* submit it causes: no crash or rival leaves a session at the threshold    *)
(* and still open, or submitted for another reason.  (logViolation)         *)
ThresholdSubmits ==
    \A s \in Sessions :
       /\ session[s].violations <= Threshold
       /\ session[s].violations = Threshold => session[s].source = "VIOLATION_THRESHOLD"

(* A hint whose text was returned is charged in the slot's snapshot.        *)
(* (getHint against concurrent patches of the same row)                     *)
HintsCharged ==
    \A d \in delivered :
       \E i \in DOMAIN LevelsOf(snapshots[d.s][d.slot]) :
          snapshots[d.s][d.slot].levels[i] = d.level

(* A slot holds the answer of the highest action_seq executed for it, in    *)
(* whatever order patches and late snapshots arrived.  (the two upserts)    *)
LatestAnswerWins ==
    \A s \in Sessions, k \in Slots : latest[s][k].seq > 0 =>
       /\ snapshots[s][k].seq = latest[s][k].seq
       /\ snapshots[s][k].answer \in latest[s][k].answers

(* A slot visited, or whose hints were opened, before the winning submit    *)
(* locked the session is graded, on that answer or a later one and with at  *)
(* least those hints.  (runSubmitInTransaction against patches and hints)   *)
SeenBeforeSubmitIsGraded ==
    \A s \in Sessions, k \in Slots :
       Submitted(s) /\ due[s][k] # None /\ (due[s][k].visited \/ due[s][k].levels # <<>>)
       => \E a \in attempts : /\ a.s = s /\ a.slot = k
                               /\ a.seq >= due[s][k].seq
                               /\ a.hints >= Len(due[s][k].levels)

(* attempt_order numbers the rows of one batch apart, also when a question  *)
(* code fills several slots.  (inBatchSeqByCode)                            *)
OrdersDistinctInSession ==
    \A a, b \in attempts : a.s = b.s /\ a.code = b.code /\ a.order = b.order => a = b

(* Once a session is submitted its attempts rows never change and none is   *)
(* added.  (PRD: never overwrite, never append new attempts)                *)
AttemptsFrozen ==
    [][ /\ attempts \subseteq attempts'
        /\ \A a \in attempts' \ attempts : ~Submitted(a.s) ]_vars

(* The detailed handlers implement the abstract promise of POST /submit.    *)
Promise == INSTANCE SubmitOnce WITH
    Rows <- AttemptRowIds,
    outcome <- [s \in Sessions |->
                  IF Submitted(s) THEN [source |-> session[s].source, ids |-> AttemptIds(s)]
                                  ELSE None],
    answers <- answered

ImplementsSubmitOnce == Promise!Spec

(* Under the scheduling of FairSpec every request that arrived ends.        *)
RequestsFinish == \A r \in Requests : req[r].pc # "idle" ~> req[r].pc = "idle"

(* When requests do not die, a session somebody submits ends up submitted,  *)
(* whoever wins.                                                            *)
SubmitDecides ==
    \A r \in Requests, s \in Sessions :
       (req[r].pc = "submit_lock" /\ req[r].s = s) ~> Submitted(s)

(* Claims of the documents that the code does not keep. *)

(* "scored only if pre-submit-commit" (lateSnapshots): an entry counted in  *)
(* scored_count is part of what the session was graded on.                  *)
ScoredIsGraded ==
    \A e \in scored : Submitted(e.s) =>
       \E a \in attempts : a.s = e.s /\ a.slot = e.slot /\ a.seq >= e.seq

(* "enforce sequential reveal" (getHint): the levels charged to a slot are  *)
(* 1, 2, 3, ... each once.                                                  *)
HintsSequential ==
    \A s \in Sessions, k \in Slots :
       \A i \in DOMAIN LevelsOf(snapshots[s][k]) : snapshots[s][k].levels[i] = i

(* "attempt_order is unique within the (student x question_code) tuple".    *)
AttemptOrderUnique ==
    \A a, b \in attempts : a.code = b.code /\ a.order = b.order => a = b
=============================================================================
