--------------------------- MODULE SessionLifecycle --------------------------
(***************************************************************************)
(* The life of a test session around its submit, as one student sees it:   *)
(* createSession, getSession, updateState, getFigure, getResults of        *)
(* test-sessions.service.ts and the dashboard query that leads to them.    *)
(*                                                                         *)
(* Every handler awaits its statements one by one, outside a transaction:  *)
(* call[c] is a request under way, with the row it loaded first.  The      *)
(* submit is one step here; TestSessions has its statements and shows that *)
(* they take effect once and together.  Requests for another student's     *)
(* session end at the ownership check of loadSessionOwned.                 *)
(***************************************************************************)
EXTENDS Integers, FiniteSets

CONSTANTS
    Ids,          \* test_sessions.id; their number bounds the sessions ever created
    Callers,      \* requests that may be under way together
    Assignments,  \* what the student qualifies for, directly or by a cohort
    Duration,     \* tests.duration_seconds
    Grace,        \* SECRET_GRACE_MS
    Day,          \* the INTERVAL '24 hours' of the dashboard query
    MaxTime,      \* bound of the clock
    Answers,      \* payloads of the one slot modelled
    NoTime, NoRow, NoAnswer, NoId

Time == 0..MaxTime

(* window_start_at and window_end_at are from and to; at is assigned_at,   *)
(* before the clock starts, and no two of a test are equal.                *)
Assignment == [id : Nat, test : Nat, from : Nat, to : Nat, at : Int]

ASSUME AssignmentsAssumption == Assignments \subseteq Assignment
ASSUME NumbersAssumption ==
    Duration \in Nat /\ Grace \in Nat /\ Day \in Nat /\ MaxTime \in Nat
ASSUME NoneAssumption == NoTime \notin Int /\ NoAnswer \notin Answers /\ NoId \notin Ids

VARIABLES
    clock,
    rows,      \* the test_sessions table
    answer,    \* answer_payload of the session's slot in test_session_snapshots
    graded,    \* the payload the session's attempts row was made from
    call,      \* the requests under way
    page       \* what the student's browser shows

vars == <<clock, rows, answer, graded, call, page>>

table == <<rows, answer, graded>>

(* A secret is fresh at each generateSessionSecret: it is named by its     *)
(* session and its number in it.                                           *)
Row == [asg : Assignments, started : Time \cup {NoTime}, expires : Nat,
        submitted : Time \cup {NoTime}, cur : Nat, prev : Int]

ASSUME NoRowAssumption == NoRow \notin Row

Token == [s : Ids, key : Nat]

(* The runtime page has the tokens and the expires_at of one GET, the      *)
(* results page the grade.                                                 *)
Runtime == [kind : {"runtime"}, token : Token, expires : Nat]
Results == [kind : {"results"}, s : Ids, grade : Answers \cup {NoAnswer}]
NoPage == [kind |-> "none"]

Idle == [pc |-> "idle"]

Created == {s \in Ids : rows[s] # NoRow}

Open(s) == s \in Created /\ rows[s].submitted = NoTime

(* The active session of a test, where there is one. *)
Active(t) == {s \in Ids : Open(s) /\ rows[s].asg.test = t}

Start(c, request) == call' = [call EXCEPT ![c] = request]

End(c) == call' = [call EXCEPT ![c] = Idle]

-----------------------------------------------------------------------------
(* POST /api/test-sessions *)

(* loadAssignment and the end of the window; its start is not looked at. *)
CreateLoad(c, a) ==
    /\ call[c].pc = "idle"
    /\ clock <= a.to
    /\ Start(c, [pc |-> "check", asg |-> a])
    /\ UNCHANGED <<clock, table, page>>

(* 409 with the existing session, or on to the INSERT. *)
CreateCheck(c) ==
    /\ call[c].pc = "check"
    /\ LET existing == Active(call[c].asg.test)
       IN  IF existing = {}
           THEN Start(c, [pc |-> "insert", asg |-> call[c].asg]) ELSE End(c)
    /\ UNCHANGED <<clock, table, page>>

(* Mutant: the row as the comment above the INSERT describes it. *)
NewRowUnstarted(a) == [asg |-> a, started |-> NoTime, expires |-> clock + Duration, submitted |-> NoTime,
                       cur |-> 0, prev |-> -1]

NewRow(a) == [asg |-> a, started |-> clock, expires |-> clock + Duration, submitted |-> NoTime,
              cur |-> 0, prev |-> -1]

(* Mutant: no unique index. *)
CreateInsertUnchecked(c) ==
    /\ call[c].pc = "insert"
    /\ \E s \in Ids \ Created :
          rows' = [rows EXCEPT ![s] = NewRow(call[c].asg)]
    /\ End(c)
    /\ UNCHANGED <<clock, answer, graded, page>>

(* The INSERT: uniq_active_session refuses a second active row (500). *)
CreateInsert(c) ==
    /\ call[c].pc = "insert"
    /\ IF Active(call[c].asg.test) # {}
       THEN UNCHANGED rows
       ELSE \E s \in Ids \ Created : rows' = [rows EXCEPT ![s] = NewRow(call[c].asg)]
    /\ End(c)
    /\ UNCHANGED <<clock, answer, graded, page>>

-----------------------------------------------------------------------------
(* loadSessionOwned: the first statement of the handlers below *)

Load(c, op, s) ==
    /\ call[c].pc = "idle"
    /\ s \in Created
    /\ Start(c, [pc |-> op, s |-> s, row |-> rows[s]])
    /\ UNCHANGED <<clock, table, page>>

(* GET /:id: the tokens are signed under the secret of the loaded row. *)
GetAnswer(c) ==
    /\ call[c].pc = "get"
    /\ page' = [kind |-> "runtime", token |-> [s |-> call[c].s, key |-> call[c].row.cur],
                expires |-> call[c].row.expires]
    /\ End(c)
    /\ UNCHANGED <<clock, table>>

(* PUT /:id/state.  HEARTBEAT, and START of a session that has started,    *)
(* change nothing; START of a row without started_at gives it what is left *)
(* of its time, from now.                                                  *)
StateAnswer(c, action) ==
    LET s == call[c].s
        row == call[c].row
        starts == action = "START" /\ row.started = NoTime
        expires == IF starts /\ row.expires < clock THEN clock ELSE row.expires
    IN  /\ call[c].pc = "state"
        /\ rows' = IF starts /\ Open(s)
                   THEN [rows EXCEPT ![s].started = clock, ![s].expires = expires]
                   ELSE rows
        /\ End(c)
        /\ UNCHANGED <<clock, answer, graded, page>>

-----------------------------------------------------------------------------
(* GET /:id/figures/:signed_token *)

FigureLoad(c, s) ==
    /\ call[c].pc = "idle"
    /\ s \in Created /\ page.kind = "runtime"
    /\ Start(c, [pc |-> "figure", s |-> s, row |-> rows[s], token |-> page.token, began |-> clock])
    /\ UNCHANGED <<clock, table, page>>

(* Mutant: the grace is not looked at. *)
UsablePreviousAlways(row) == {row.prev}

(* The secret a submit replaced, while its grace lasts.  secret_rotated_at *)
(* is written together with submitted_at.                                  *)
UsablePrevious(row) ==
    IF row.submitted = NoTime THEN {} ELSE IF clock - row.submitted > Grace THEN {} ELSE {row.prev}

Verified(c) ==
    /\ call[c].token.s = call[c].s
    /\ call[c].token.key \in {call[c].row.cur} \cup UsablePrevious(call[c].row)

FigureServed(c) ==
    /\ call[c].pc = "figure" /\ Verified(c)
    /\ End(c)
    /\ UNCHANGED <<clock, table, page>>

FigureRefused(c) ==
    /\ call[c].pc = "figure" /\ ~Verified(c)
    /\ End(c)
    /\ UNCHANGED <<clock, table, page>>

-----------------------------------------------------------------------------
(* GET /:id/results: the gate, then attempts, then snapshots *)

ResultsGate(c) ==
    /\ call[c].pc = "results"
    /\ IF call[c].row.submitted = NoTime THEN End(c)
       ELSE Start(c, [pc |-> "attempts", s |-> call[c].s])
    /\ UNCHANGED <<clock, table, page>>

ResultsAttempts(c) ==
    /\ call[c].pc = "attempts"
    /\ Start(c, [pc |-> "snapshots", s |-> call[c].s, graded |-> graded[call[c].s]])
    /\ UNCHANGED <<clock, table, page>>

(* student_answer, from the snapshot as it is by now, is not kept here. *)
ResultsAnswer(c) ==
    /\ call[c].pc = "snapshots"
    /\ page' = [kind |-> "results", s |-> call[c].s, grade |-> call[c].graded]
    /\ End(c)
    /\ UNCHANGED <<clock, table>>

-----------------------------------------------------------------------------
(* The other writers of a session *)

(* A snapshot write lands: a patch that passed its check before a submit,  *)
(* and a late snapshot, land in a submitted session too.                   *)
WriteAnswer(s, a) ==
    /\ s \in Created
    /\ answer' = [answer EXCEPT ![s] = a]
    /\ UNCHANGED <<clock, rows, graded, call, page>>

(* The outcome, and generateSessionSecret. *)
Submitted(row) == [row EXCEPT !.submitted = clock, !.prev = row.cur, !.cur = row.cur + 1]

(* Mutant: a repeated submit drains and rotates again. *)
SubmitAgain(s) ==
    /\ s \in Created
    /\ graded' = [graded EXCEPT ![s] = answer[s]]
    /\ rows' = [rows EXCEPT ![s] = Submitted(@)]
    /\ UNCHANGED <<clock, answer, call, page>>

(* POST /:id/submit: grade, rotate the secret, mark submitted, once. *)
Submit(s) ==
    /\ Open(s)
    /\ graded' = [graded EXCEPT ![s] = answer[s]]
    /\ rows' = [rows EXCEPT ![s] = Submitted(@)]
    /\ UNCHANGED <<clock, answer, call, page>>

Tick ==
    /\ clock < MaxTime
    /\ clock' = clock + 1
    /\ UNCHANGED <<table, call, page>>

-----------------------------------------------------------------------------
(* GET /api/dashboard/assigned-tests, a read of one statement *)

(* DISTINCT ON (test_id) ... ORDER BY test_id, assigned_at. *)
Deduped == {a \in Assignments : \A b \in Assignments : a.test = b.test => a.at <= b.at}

Status(a, s) ==
    CASE s # NoId -> IF Open(s) THEN "IN_PROGRESS" ELSE "SUBMITTED"
      [] s = NoId /\ clock < a.from -> "UPCOMING"
      [] s = NoId /\ clock > a.to -> "EXPIRED"
      [] s = NoId /\ a.from <= clock /\ clock <= a.to -> "OPEN"

(* The LEFT JOIN: a row for each session of the assignment, or one without.*)
Joined(a) == LET own == {s \in Created : rows[s].asg = a}
             IN  IF own = {} THEN {NoId} ELSE own

Card(a) == {[asg |-> a, session |-> s, status |-> Status(a, s)] : s \in Joined(a)}

Cards == UNION {Card(a) : a \in {b \in Deduped : b.to + Day > clock}}

(* canBegin of the dashboard's card. *)
Begins == {k \in Cards : k.status \in {"OPEN", "IN_PROGRESS"}}

-----------------------------------------------------------------------------
Init ==
    /\ clock = 0
    /\ rows = [s \in Ids |-> NoRow]
    /\ answer = [s \in Ids |-> NoAnswer] /\ graded = [s \in Ids |-> NoAnswer]
    /\ call = [c \in Callers |-> Idle]
    /\ page = NoPage

Create(c) == (\E a \in Assignments : CreateLoad(c, a)) \/ CreateCheck(c) \/ CreateInsert(c)

Read(c) ==
    \/ \E op \in {"get", "state", "results"}, s \in Ids : Load(c, op, s)
    \/ GetAnswer(c)
    \/ \E action \in {"START", "HEARTBEAT"} : StateAnswer(c, action)
    \/ ResultsGate(c) \/ ResultsAttempts(c) \/ ResultsAnswer(c)
    \/ \E s \in Ids : FigureLoad(c, s)
    \/ FigureServed(c) \/ FigureRefused(c)

Next ==
    \/ Tick
    \/ \E c \in Callers : Create(c) \/ Read(c)
    \/ \E s \in Ids : Submit(s) \/ \E a \in Answers : WriteAnswer(s, a)

Spec == Init /\ [][Next]_vars
-----------------------------------------------------------------------------
(* Properties *)

(* A request past its first statement is about a session that exists. *)
Request ==
    {Idle}
    \cup [pc : {"check", "insert"}, asg : Assignments]
    \cup [pc : {"get", "state", "results"}, s : Created, row : Row]
    \cup [pc : {"figure"}, s : Created, row : Row, token : Token, began : Time]
    \cup [pc : {"attempts"}, s : Created]
    \cup [pc : {"snapshots"}, s : Created, graded : Answers \cup {NoAnswer}]

(* Types; and a secret is rotated by the submit and only then              *)
(* (test-sessions.service.ts:925-939, 1003-1024).                          *)
TypeOK ==
    /\ clock \in Time
    /\ rows \in [Ids -> Row \cup {NoRow}]
    /\ \A s \in Created : <<rows[s].prev, rows[s].cur>> = IF Open(s) THEN <<-1, 0>> ELSE <<0, 1>>
    /\ answer \in [Ids -> Answers \cup {NoAnswer}]
    /\ graded \in [Ids -> Answers \cup {NoAnswer}]
    /\ page \in Runtime \cup Results \cup {NoPage}
    /\ call \in [Callers -> Request]

(* However many creations race, through whichever assignment, a test has   *)
(* one session that can be written to.                                     *)
OneActivePerTest == \A s, r \in Ids : Open(s) /\ Open(r) /\ rows[s].asg.test = rows[r].asg.test => s = r

(* The expires_at a page was loaded with is still the session's: its timer *)
(* ends when the server's time does.                                       *)
DeadlineKept ==
    page.kind = "runtime" => page.token.s \in Created /\ rows[page.token.s].expires = page.expires

(* A grade shown together with the right answers is final: no late answer  *)
(* and no repeated submit changes it afterwards.                           *)
GradeSeenIsFinal == page.kind = "results" => page.s \in Created /\ graded[page.s] = page.grade

GraceEnds(c) == rows[call[c].s].submitted + Grace

(* Figures survive the submit for the grace period and no longer: a token  *)
(* the student holds for a session is refused only after the grace, and    *)
(* served after it only to a request that began before.                    *)
FigureAnswers ==
    [][\A c \in Callers :
          call[c].pc = "figure" /\ call[c].token.s = call[c].s /\ call'[c].pc = "idle"
          => \/ call[c].token.key = rows[call[c].s].cur /\ Verified(c)
             \/ call[c].token.key # rows[call[c].s].cur /\ Verified(c) /\ call[c].began <= GraceEnds(c)
             \/ call[c].token.key # rows[call[c].s].cur /\ ~Verified(c) /\ clock > GraceEnds(c)]_vars

(* An active session of a test that is listed has its card. *)
ActiveIsShown ==
    \A s \in Ids : Open(s) /\ (\E k \in Cards : k.asg.test = rows[s].asg.test)
                   => \E k \in Begins : k.session = s
=============================================================================
