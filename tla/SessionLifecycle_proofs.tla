----------------------- MODULE SessionLifecycle_proofs -----------------------
(***************************************************************************)
(* Theorems about SessionLifecycle: its types, one active session per      *)
(* test, the deadline and the grade a page shows, the cards of open        *)
(* sessions, for any number of sessions, requests and assignments.         *)
(***************************************************************************)
EXTENDS SessionLifecycle, TLAPS

USE AssignmentsAssumption, NumbersAssumption, NoneAssumption, NoRowAssumption

-----------------------------------------------------------------------------
(* What the actions do to the table *)

(* No action removes a session; a session keeps its assignment; only       *)
(* updateState touches its times, and only a submit its outcome.           *)
TableStep ==
    \/ rows' = rows
    \/ \E c \in Callers, s \in Ids \ Created :
          /\ rows' = [rows EXCEPT ![s] = NewRow(call[c].asg)]
          /\ call[c] \in [pc : {"insert"}, asg : Assignments]
          /\ Active(call[c].asg.test) = {}
    \/ \E s \in Ids :
          /\ Open(s)
          /\ rows' = [rows EXCEPT ![s] = Submitted(rows[s])]
    \/ \E c \in Callers :
          /\ call[c].pc = "state" /\ call[c].row.started = NoTime /\ Open(call[c].s)
          /\ call[c] \in [pc : {"get", "state", "results"}, s : Created, row : Row]
          /\ \E expires \in Nat :
                rows' = [rows EXCEPT ![call[c].s].started = clock, ![call[c].s].expires = expires]

LEMMA RequestByPc ==
    ASSUME TypeOK, NEW c \in Callers
    PROVE  /\ call[c].pc \in {"check", "insert"} => call[c] \in [pc : {"check", "insert"}, asg : Assignments]
           /\ call[c].pc \in {"get", "state", "results"} =>
                 call[c] \in [pc : {"get", "state", "results"}, s : Created, row : Row]
           /\ call[c].pc = "figure" =>
                 call[c] \in [pc : {"figure"}, s : Created, row : Row, token : Token, began : Time]
           /\ call[c].pc = "attempts" => call[c] \in [pc : {"attempts"}, s : Created]
           /\ call[c].pc = "snapshots" =>
                 call[c] \in [pc : {"snapshots"}, s : Created, graded : Answers \cup {NoAnswer}]
<1>1. call[c] \in Request
  BY DEF TypeOK
<1>2. QED
  BY <1>1 DEF Request, Idle

LEMMA RowShape ==
    ASSUME TypeOK, NEW s \in Created
    PROVE  s \in Ids /\ rows[s] \in Row /\ rows[s] # NoRow
BY DEF TypeOK, Created

LEMMA NextTable ==
    ASSUME TypeOK, Next
    PROVE  TableStep
<1>1. CASE Tick
  BY <1>1 DEF Tick, table, TableStep
<1>2. ASSUME NEW c \in Callers, Create(c)
      PROVE  TableStep
  <2>1. ASSUME NEW a \in Assignments, CreateLoad(c, a)
        PROVE  TableStep
    BY <2>1 DEF CreateLoad, table, TableStep
  <2>2. CASE CreateCheck(c)
    BY <2>2 DEF CreateCheck, table, TableStep
  <2>3. CASE CreateInsert(c)
    <3>1. call[c] \in [pc : {"insert"}, asg : Assignments]
      BY <2>3, RequestByPc DEF CreateInsert
    <3>2. QED
      BY <2>3, <3>1 DEF CreateInsert, TableStep
  <2>4. QED
    BY <1>2, <2>1, <2>2, <2>3 DEF Create
<1>3. ASSUME NEW c \in Callers, Read(c)
      PROVE  TableStep
  <2>1. ASSUME NEW op, NEW s \in Ids, Load(c, op, s)
        PROVE  TableStep
    BY <2>1 DEF Load, table, TableStep
  <2>2. CASE GetAnswer(c)
    BY <2>2 DEF GetAnswer, table, TableStep
  <2>3. ASSUME NEW action, StateAnswer(c, action)
        PROVE  TableStep
    <3>1. call[c] \in [pc : {"get", "state", "results"}, s : Created, row : Row] /\ call[c].pc = "state"
      BY <2>3, RequestByPc DEF StateAnswer
    <3>2. call[c].row.expires \in Nat /\ clock \in Nat
      BY <3>1 DEF Row, TypeOK, Time
    <3>3. CASE action = "START" /\ call[c].row.started = NoTime /\ Open(call[c].s)
      <4> DEFINE e == IF call[c].row.expires < clock THEN clock ELSE call[c].row.expires
      <4>1. e \in Nat
        BY <3>2
      <4>2. rows' = [rows EXCEPT ![call[c].s].started = clock, ![call[c].s].expires = e]
        BY <2>3, <3>3 DEF StateAnswer
      <4> HIDE DEF e
      <4>3. QED
        BY <3>1, <3>3, <4>1, <4>2 DEF TableStep
    <3>4. CASE ~(action = "START" /\ call[c].row.started = NoTime /\ Open(call[c].s))
      BY <2>3, <3>4 DEF StateAnswer, TableStep
    <3>5. QED
      BY <3>3, <3>4
  <2>4. CASE ResultsGate(c)
    BY <2>4 DEF ResultsGate, table, TableStep
  <2>5. CASE ResultsAttempts(c)
    BY <2>5 DEF ResultsAttempts, table, TableStep
  <2>6. CASE ResultsAnswer(c)
    BY <2>6 DEF ResultsAnswer, table, TableStep
  <2>7. ASSUME NEW s \in Ids, FigureLoad(c, s)
        PROVE  TableStep
    BY <2>7 DEF FigureLoad, table, TableStep
  <2>8. CASE FigureServed(c)
    BY <2>8 DEF FigureServed, table, TableStep
  <2>9. CASE FigureRefused(c)
    BY <2>9 DEF FigureRefused, table, TableStep
  <2>10. QED
    BY <1>3, <2>1, <2>2, <2>3, <2>4, <2>5, <2>6, <2>7, <2>8, <2>9 DEF Read
<1>4. ASSUME NEW s \in Ids, Submit(s)
      PROVE  TableStep
  BY <1>4 DEF Submit, TableStep
<1>5. ASSUME NEW s \in Ids, NEW a \in Answers, WriteAnswer(s, a)
      PROVE  TableStep
  BY <1>5 DEF WriteAnswer, TableStep
<1>6. QED
  BY <1>1, <1>2, <1>3, <1>4, <1>5 DEF Next

-----------------------------------------------------------------------------
(* Types *)

Secrets == \A s \in Created : <<rows[s].prev, rows[s].cur>> = IF Open(s) THEN <<-1, 0>> ELSE <<0, 1>>

LEMMA TableTypes ==
    ASSUME TypeOK, TableStep
    PROVE  /\ rows' \in [Ids -> Row \cup {NoRow}]
           /\ Secrets'
           /\ Created \subseteq Created'
<1>0. clock \in Time /\ clock \in Nat
  BY DEF TypeOK, Time
<1>1. CASE rows' = rows
  BY <1>1 DEF TypeOK, Secrets, Created, Open
<1>2. ASSUME NEW c \in Callers, NEW s \in Ids \ Created,
             rows' = [rows EXCEPT ![s] = NewRow(call[c].asg)],
             call[c] \in [pc : {"insert"}, asg : Assignments]
      PROVE  /\ rows' \in [Ids -> Row \cup {NoRow}]
             /\ Secrets'
             /\ Created \subseteq Created'
  <2> DEFINE r == NewRow(call[c].asg)
  <2>1. clock + Duration \in Nat
    BY <1>0
  <2>2. r \in Row /\ r.prev = -1 /\ r.cur = 0 /\ r.submitted = NoTime
    BY <1>0, <1>2, <2>1 DEF NewRow, Row
  <2>3. rows' = [rows EXCEPT ![s] = r]
    BY <1>2
  <2> HIDE DEF r
  <2>4. rows' \in [Ids -> Row \cup {NoRow}]
    BY <2>2, <2>3 DEF TypeOK
  <2>5. Created \subseteq Created'
    BY <2>2, <2>3 DEF TypeOK, Created
  <2>6. ASSUME NEW i \in Created'
        PROVE  (<<rows[i].prev, rows[i].cur>> = IF Open(i) THEN <<-1, 0>> ELSE <<0, 1>>)'
    <3>1. CASE i = s
      <4>1. rows'[i] = r /\ Open(i)'
        BY <2>2, <2>3, <2>6, <3>1 DEF TypeOK, Created, Open
      <4>2. QED
        BY <4>1, <2>2
    <3>2. CASE i # s
      <4>1. i \in Created /\ rows'[i] = rows[i] /\ (Open(i)' <=> Open(i))
        BY <2>3, <2>6, <3>2 DEF TypeOK, Created, Open
      <4>2. QED
        BY <4>1 DEF TypeOK
    <3>3. QED
      BY <3>1, <3>2
  <2>7. QED
    BY <2>4, <2>5, <2>6 DEF Secrets
<1>3. ASSUME NEW s \in Ids, Open(s),
             rows' = [rows EXCEPT ![s] = Submitted(rows[s])]
      PROVE  /\ rows' \in [Ids -> Row \cup {NoRow}]
             /\ Secrets'
             /\ Created \subseteq Created'
  <2> DEFINE r == Submitted(rows[s])
  <2>1. s \in Created /\ rows[s] \in Row
    BY <1>3, RowShape DEF Open
  <2>2. rows[s].cur = 0
    BY <1>3, <2>1 DEF TypeOK
  <2> DEFINE r1 == [rows[s] EXCEPT !.submitted = clock]
             r2 == [r1 EXCEPT !.prev = rows[s].cur]
             r3 == [r2 EXCEPT !.cur = rows[s].cur + 1]
  <2>a. r1 \in Row /\ r1.submitted = clock
    BY <1>0, <2>1 DEF Row
  <2>b. r2 \in Row /\ r2.submitted = clock /\ r2.prev = 0
    <3> HIDE DEF r1
    <3>1. QED  BY <2>a, <2>2 DEF Row
  <2>c. r3 \in Row /\ r3.submitted = clock /\ r3.prev = 0 /\ r3.cur = 1
    <3> HIDE DEF r2
    <3>1. QED  BY <2>b, <2>2 DEF Row
  <2>3. r \in Row /\ r.prev = 0 /\ r.cur = 1 /\ r.submitted = clock
    BY <2>c DEF Submitted
  <2>4. rows' = [rows EXCEPT ![s] = r]
    BY <1>3
  <2> HIDE DEF r
  <2>5. rows' \in [Ids -> Row \cup {NoRow}]
    BY <2>3, <2>4 DEF TypeOK
  <2>6. Created \subseteq Created'
    BY <2>3, <2>4 DEF TypeOK, Created
  <2>7. ASSUME NEW i \in Created'
        PROVE  (<<rows[i].prev, rows[i].cur>> = IF Open(i) THEN <<-1, 0>> ELSE <<0, 1>>)'
    <3>1. CASE i = s
      <4>1. rows'[i] = r /\ ~Open(i)'
        BY <1>0, <2>3, <2>4, <2>7, <3>1 DEF TypeOK, Created, Open
      <4>2. QED
        BY <4>1, <2>3
    <3>2. CASE i # s
      <4>1. i \in Created /\ rows'[i] = rows[i] /\ (Open(i)' <=> Open(i))
        BY <2>4, <2>7, <3>2 DEF TypeOK, Created, Open
      <4>2. QED
        BY <4>1 DEF TypeOK
    <3>3. QED
      BY <3>1, <3>2
  <2>8. QED
    BY <2>5, <2>6, <2>7 DEF Secrets
<1>4. ASSUME NEW c \in Callers, Open(call[c].s), NEW expires \in Nat,
             call[c] \in [pc : {"get", "state", "results"}, s : Created, row : Row],
             rows' = [rows EXCEPT ![call[c].s].started = clock, ![call[c].s].expires = expires]
      PROVE  /\ rows' \in [Ids -> Row \cup {NoRow}]
             /\ Secrets'
             /\ Created \subseteq Created'
  <2> DEFINE s == call[c].s
             r == [rows[s] EXCEPT !.started = clock, !.expires = expires]
  <2>1. s \in Created /\ s \in Ids /\ rows[s] \in Row
    BY <1>4, RowShape
  <2>2. r \in Row /\ r.prev = rows[s].prev /\ r.cur = rows[s].cur /\ r.submitted = rows[s].submitted
    BY <1>0, <1>4, <2>1 DEF Row
  <2>3. rows' = [rows EXCEPT ![s] = r]
    BY <1>4, <2>1 DEF TypeOK
  <2> HIDE DEF r, s
  <2>4. rows' \in [Ids -> Row \cup {NoRow}]
    BY <2>1, <2>2, <2>3 DEF TypeOK
  <2>5. Created = Created'
    BY <2>1, <2>2, <2>3 DEF TypeOK, Created
  <2>6. ASSUME NEW i \in Created'
        PROVE  (<<rows[i].prev, rows[i].cur>> = IF Open(i) THEN <<-1, 0>> ELSE <<0, 1>>)'
    <3>1. /\ i \in Created /\ rows'[i].prev = rows[i].prev /\ rows'[i].cur = rows[i].cur
          /\ (Open(i)' <=> Open(i))
      BY <2>1, <2>2, <2>3, <2>5, <2>6 DEF TypeOK, Created, Open
    <3>2. QED
      BY <3>1 DEF TypeOK
  <2>7. QED
    BY <2>4, <2>5, <2>6 DEF Secrets
<1>5. QED
  BY <1>1, <1>2, <1>3, <1>4 DEF TableStep

(* A request written by an action is well-formed over the new table. *)
LEMMA CallStep ==
    ASSUME TypeOK, Created \subseteq Created',
           NEW c \in Callers, NEW x, x \in Request', call' = [call EXCEPT ![c] = x]
    PROVE  (call \in [Callers -> Request])'
<1>1. Request \subseteq Request'
  BY DEF Request, Idle, Time, Token, Row
<1>2. QED
  BY <1>1 DEF TypeOK

LEMMA CallsKept ==
    ASSUME TypeOK, Created \subseteq Created', call' = call
    PROVE  (call \in [Callers -> Request])'
<1>1. Request \subseteq Request'
  BY DEF Request, Idle, Time, Token, Row
<1>2. QED
  BY <1>1 DEF TypeOK

LEMMA IdleStep ==
    ASSUME TypeOK, Created \subseteq Created', NEW c \in Callers, End(c)
    PROVE  (call \in [Callers -> Request])'
<1>1. Idle \in Request'
  BY DEF Request
<1>2. QED
  BY <1>1, CallStep DEF End

LEMMA TypeStep ==
    ASSUME TypeOK, Next
    PROVE  TypeOK'
<1> DEFINE Rest == /\ clock \in Time
                   /\ answer \in [Ids -> Answers \cup {NoAnswer}]
                   /\ graded \in [Ids -> Answers \cup {NoAnswer}]
                   /\ page \in Runtime \cup Results \cup {NoPage}
<1>1. rows' \in [Ids -> Row \cup {NoRow}] /\ Secrets' /\ Created \subseteq Created'
  BY NextTable, TableTypes
<1>2. Rest
  BY DEF TypeOK
<1>3. SUFFICES Rest' /\ (call \in [Callers -> Request])'
  BY <1>1 DEF TypeOK, Secrets
<1>4. ASSUME UNCHANGED <<clock, answer, graded, page>>
      PROVE  Rest'
  BY <1>2, <1>4
<1> HIDE DEF Rest
<1>5. CASE Tick
  <2>1. clock' \in Time /\ UNCHANGED <<answer, graded, page, call>>
    BY <1>5 DEF Tick, table, Time, TypeOK
  <2>2. QED
    BY <1>1, <1>2, <2>1, CallsKept DEF Rest
<1>6. ASSUME NEW c \in Callers, Create(c)
      PROVE  Rest' /\ (call \in [Callers -> Request])'
  <2>1. ASSUME NEW a \in Assignments, CreateLoad(c, a)
        PROVE  Rest' /\ (call \in [Callers -> Request])'
    <3>1. [pc |-> "check", asg |-> a] \in Request'
      BY DEF Request
    <3>2. (call \in [Callers -> Request])'
      BY <1>1, <2>1, <3>1, CallStep DEF CreateLoad, Start
    <3>3. QED
      BY <1>4, <2>1, <3>2 DEF CreateLoad, table
  <2>2. CASE CreateCheck(c)
    <3>1. call[c] \in [pc : {"check", "insert"}, asg : Assignments]
      BY <2>2, RequestByPc DEF CreateCheck
    <3>2. [pc |-> "insert", asg |-> call[c].asg] \in Request'
      BY <3>1 DEF Request
    <3>3. Start(c, [pc |-> "insert", asg |-> call[c].asg]) \/ End(c)
      BY <2>2 DEF CreateCheck
    <3>4. (call \in [Callers -> Request])'
      BY <1>1, <3>2, <3>3, CallStep, IdleStep DEF Start
    <3>5. QED
      BY <1>4, <2>2, <3>4 DEF CreateCheck, table
  <2>3. CASE CreateInsert(c)
    BY <1>1, <1>4, <2>3, IdleStep DEF CreateInsert
  <2>4. QED
    BY <1>6, <2>1, <2>2, <2>3 DEF Create
<1>7. ASSUME NEW c \in Callers, Read(c)
      PROVE  Rest' /\ (call \in [Callers -> Request])'
  <2>1. ASSUME NEW op \in {"get", "state", "results"}, NEW s \in Ids, Load(c, op, s)
        PROVE  Rest' /\ (call \in [Callers -> Request])'
    <3>1. s \in Created /\ rows[s] \in Row
      BY <2>1, RowShape DEF Load
    <3>2. [pc |-> op, s |-> s, row |-> rows[s]] \in Request'
      BY <1>1, <3>1 DEF Request, Row, Time
    <3>3. (call \in [Callers -> Request])'
      BY <1>1, <2>1, <3>2, CallStep DEF Load, Start
    <3>4. QED
      BY <1>4, <2>1, <3>3 DEF Load, table
  <2>2. CASE GetAnswer(c)
    <3>1. call[c] \in [pc : {"get", "state", "results"}, s : Created, row : Row]
      BY <2>2, RequestByPc DEF GetAnswer
    <3>2. page' \in Runtime
      <4>1. call[c].s \in Ids /\ call[c].row.cur \in Nat /\ call[c].row.expires \in Nat
        BY <3>1 DEF Row, Created
      <4>2. QED
        BY <2>2, <4>1 DEF GetAnswer, Runtime, Token
    <3>3. Rest'
      BY <1>2, <2>2, <3>2 DEF GetAnswer, Rest, table
    <3>4. QED
      BY <1>1, <2>2, <3>3, IdleStep DEF GetAnswer
  <2>3. ASSUME NEW action, StateAnswer(c, action)
        PROVE  Rest' /\ (call \in [Callers -> Request])'
    BY <1>1, <1>4, <2>3, IdleStep DEF StateAnswer
  <2>4. CASE ResultsGate(c)
    <3>1. call[c] \in [pc : {"get", "state", "results"}, s : Created, row : Row]
      BY <2>4, RequestByPc DEF ResultsGate
    <3>2. [pc |-> "attempts", s |-> call[c].s] \in Request'
      BY <1>1, <3>1 DEF Request
    <3>3. Start(c, [pc |-> "attempts", s |-> call[c].s]) \/ End(c)
      BY <2>4 DEF ResultsGate
    <3>4. (call \in [Callers -> Request])'
      BY <1>1, <3>2, <3>3, CallStep, IdleStep DEF Start
    <3>5. QED
      BY <1>4, <2>4, <3>4 DEF ResultsGate, table
  <2>5. CASE ResultsAttempts(c)
    <3>1. call[c] \in [pc : {"attempts"}, s : Created]
      BY <2>5, RequestByPc DEF ResultsAttempts
    <3>2. graded[call[c].s] \in Answers \cup {NoAnswer}
      BY <3>1, RowShape DEF TypeOK
    <3>3. [pc |-> "snapshots", s |-> call[c].s, graded |-> graded[call[c].s]] \in Request'
      BY <1>1, <3>1, <3>2 DEF Request
    <3>4. (call \in [Callers -> Request])'
      BY <1>1, <2>5, <3>3, CallStep DEF ResultsAttempts, Start
    <3>5. QED
      BY <1>4, <2>5, <3>4 DEF ResultsAttempts, table
  <2>6. CASE ResultsAnswer(c)
    <3>1. call[c] \in [pc : {"snapshots"}, s : Created, graded : Answers \cup {NoAnswer}]
      BY <2>6, RequestByPc DEF ResultsAnswer
    <3>2. page' \in Results
      BY <2>6, <3>1 DEF ResultsAnswer, Results, Created
    <3>3. Rest'
      BY <1>2, <2>6, <3>2 DEF ResultsAnswer, Rest, table
    <3>4. QED
      BY <1>1, <2>6, <3>3, IdleStep DEF ResultsAnswer
  <2>7. ASSUME NEW s \in Ids, FigureLoad(c, s)
        PROVE  Rest' /\ (call \in [Callers -> Request])'
    <3>1. s \in Created /\ rows[s] \in Row
      BY <2>7, RowShape DEF FigureLoad
    <3>2. page.token \in Token /\ clock \in Time
      BY <2>7 DEF FigureLoad, TypeOK, Runtime, Results, NoPage
    <3>3. [pc |-> "figure", s |-> s, row |-> rows[s], token |-> page.token, began |-> clock] \in Request'
      BY <1>1, <3>1, <3>2 DEF Request, Row, Time, Token
    <3>4. (call \in [Callers -> Request])'
      BY <1>1, <2>7, <3>3, CallStep DEF FigureLoad, Start
    <3>5. QED
      BY <1>4, <2>7, <3>4 DEF FigureLoad, table
  <2>8. CASE FigureServed(c)
    BY <1>1, <1>4, <2>8, IdleStep DEF FigureServed, table
  <2>9. CASE FigureRefused(c)
    BY <1>1, <1>4, <2>9, IdleStep DEF FigureRefused, table
  <2>10. QED
    BY <1>7, <2>1, <2>2, <2>3, <2>4, <2>5, <2>6, <2>7, <2>8, <2>9 DEF Read
<1>8. ASSUME NEW s \in Ids, Submit(s)
      PROVE  Rest' /\ (call \in [Callers -> Request])'
  <2>1. graded' \in [Ids -> Answers \cup {NoAnswer}]
    BY <1>8 DEF Submit, TypeOK
  <2>2. Rest'
    BY <1>2, <1>8, <2>1 DEF Submit, Rest
  <2>3. QED
    BY <1>1, <1>8, <2>2, CallsKept DEF Submit
<1>9. ASSUME NEW s \in Ids, NEW a \in Answers, WriteAnswer(s, a)
      PROVE  Rest' /\ (call \in [Callers -> Request])'
  <2>1. answer' \in [Ids -> Answers \cup {NoAnswer}]
    BY <1>9 DEF WriteAnswer, TypeOK
  <2>2. Rest'
    BY <1>2, <1>9, <2>1 DEF WriteAnswer, Rest
  <2>3. QED
    BY <1>1, <1>9, <2>2, CallsKept DEF WriteAnswer
<1>10. QED
  BY <1>5, <1>6, <1>7, <1>8, <1>9 DEF Next

LEMMA TypeInit == Init => TypeOK
<1> SUFFICES ASSUME Init
             PROVE  TypeOK
  OBVIOUS
<1>1. clock \in Time
  BY DEF Init, Time
<1>2. Created = {}
  BY DEF Init, Created
<1>3. call \in [Callers -> Request]
  BY DEF Init, Request
<1>4. rows \in [Ids -> Row \cup {NoRow}]
  BY DEF Init
<1>5. QED
  BY <1>1, <1>2, <1>3, <1>4 DEF Init, TypeOK

LEMMA TypeStutter == ASSUME TypeOK, UNCHANGED vars PROVE TypeOK'
BY DEF TypeOK, vars, Created, Open, Request, Token, Runtime, Results

(* TypeOK of every reachable state: requests refer to sessions that exist, *)
(* and a session's secret is replaced by its submit and by nothing else    *)
(* (test-sessions.service.ts:925-939, 1003-1024).                          *)
THEOREM SessionTypes == Spec => []TypeOK
BY TypeInit, TypeStep, TypeStutter, PTL DEF Spec

-----------------------------------------------------------------------------
(* The invariant.  A handler works on the row it loaded: what it shows or  *)
(* serves is right because that row can only have fallen behind in one way,*)
(* by a submit, and because nothing changes a session's times.             *)

Behind(old, s) ==
    \/ old = rows[s]
    \/ /\ old.submitted = NoTime /\ old.cur = 0
       /\ rows[s].submitted # NoTime
       /\ old.started = rows[s].started /\ old.expires = rows[s].expires

Started == \A s \in Created : rows[s].started # NoTime

Past == \A s \in Created : rows[s].submitted # NoTime => rows[s].submitted <= clock

RowFits(c) == call[c].pc \in {"get", "state", "results", "figure"} => Behind(call[c].row, call[c].s)

GradeFits(c) ==
    /\ call[c].pc \in {"attempts", "snapshots"} => rows[call[c].s].submitted # NoTime
    /\ call[c].pc = "snapshots" => graded[call[c].s] = call[c].graded

(* A figure request's token is not newer than the row it was loaded with,  *)
(* and a submit it did not see came after it began.                        *)
FigureFits(c) ==
    call[c].pc = "figure" =>
        /\ call[c].began <= clock
        /\ call[c].token.s = call[c].s => call[c].token.key <= call[c].row.cur
        /\ call[c].row # rows[call[c].s] => call[c].began <= rows[call[c].s].submitted

CallFits == \A c \in Callers : RowFits(c) /\ GradeFits(c) /\ FigureFits(c)

PageFits ==
    /\ page.kind = "runtime" =>
          /\ page.token.s \in Created
          /\ rows[page.token.s].expires = page.expires
          /\ page.token.key <= rows[page.token.s].cur
    /\ page.kind = "results" =>
          /\ page.s \in Created
          /\ rows[page.s].submitted # NoTime
          /\ graded[page.s] = page.grade

Inv == TypeOK /\ OneActivePerTest /\ Started /\ Past /\ CallFits /\ PageFits

(* What every step leaves of the table. *)
Keeps ==
    /\ \A s \in Created :
          /\ s \in Created'
          /\ rows'[s] = rows[s] \/ (Open(s) /\ rows'[s] = Submitted(rows[s]))
    /\ \A s \in Created : rows[s].submitted # NoTime => graded'[s] = graded[s]
    /\ clock <= clock' /\ clock \in Time /\ clock' \in Time

LEMMA SubmittedRow ==
    ASSUME NEW row \in Row, clock \in Time
    PROVE  /\ Submitted(row).asg = row.asg /\ Submitted(row).started = row.started
           /\ Submitted(row).expires = row.expires /\ Submitted(row).submitted = clock
           /\ Submitted(row).cur = row.cur + 1
<1> DEFINE r1 == [row EXCEPT !.submitted = clock]
           r2 == [r1 EXCEPT !.prev = row.cur]
           r3 == [r2 EXCEPT !.cur = row.cur + 1]
<1>1. r1 \in Row /\ r1.asg = row.asg /\ r1.started = row.started /\ r1.expires = row.expires
      /\ r1.submitted = clock
  BY DEF Row
<1> HIDE DEF r1
<1>2. r2 \in Row /\ r2.asg = row.asg /\ r2.started = row.started /\ r2.expires = row.expires
      /\ r2.submitted = clock
  <2>1. row.cur \in Int
    BY DEF Row
  <2>2. QED
    BY <1>1, <2>1 DEF Row
<1> HIDE DEF r2
<1>3. r3 \in Row /\ r3.asg = row.asg /\ r3.started = row.started /\ r3.expires = row.expires
      /\ r3.submitted = clock /\ r3.cur = row.cur + 1
  <2>1. row.cur + 1 \in Nat
    BY DEF Row
  <2>2. QED
    BY <1>2, <2>1 DEF Row
<1>4. Submitted(row) = r3
  BY DEF Submitted, r1, r2
<1> HIDE DEF r3
<1>5. QED
  BY <1>3, <1>4

LEMMA NextKeeps ==
    ASSUME Inv, Next
    PROVE  Keeps
<1>0. TypeOK /\ TypeOK'
  BY TypeStep DEF Inv
<1>1. TableStep
  BY <1>0, NextTable
<1>2. \A s \in Created : s \in Created' /\ (rows'[s] = rows[s] \/ (Open(s) /\ rows'[s] = Submitted(rows[s])))
  <2>0. Created \subseteq Created'
    BY <1>0, <1>1, TableTypes
  <2>1. CASE rows' = rows
    BY <2>0, <2>1
  <2>2. ASSUME NEW c \in Callers, NEW s \in Ids \ Created, rows' = [rows EXCEPT ![s] = NewRow(call[c].asg)]
        PROVE  \A i \in Created : rows'[i] = rows[i]
    BY <1>0, <2>2 DEF TypeOK, Created
  <2>3. ASSUME NEW s \in Ids, Open(s), rows' = [rows EXCEPT ![s] = Submitted(rows[s])]
        PROVE  \A i \in Created : rows'[i] = rows[i] \/ (Open(i) /\ rows'[i] = Submitted(rows[i]))
    BY <1>0, <2>3 DEF TypeOK, Created
  <2>4. ASSUME NEW c \in Callers, call[c].pc = "state", call[c].row.started = NoTime,
               call[c] \in [pc : {"get", "state", "results"}, s : Created, row : Row]
        PROVE  FALSE
    <3>1. Behind(call[c].row, call[c].s) /\ call[c].s \in Created
      BY <2>4 DEF Inv, CallFits, RowFits
    <3>2. QED
      BY <2>4, <3>1 DEF Behind, Inv, Started
  <2>5. QED
    BY <1>1, <2>0, <2>1, <2>2, <2>3, <2>4 DEF TableStep
<1>3. \A s \in Created : rows[s].submitted # NoTime => graded'[s] = graded[s]
  <2>1. CASE UNCHANGED graded
    BY <2>1
  <2>2. ASSUME NEW s \in Ids, Submit(s)
        PROVE  \A i \in Created : rows[i].submitted # NoTime => graded'[i] = graded[i]
    BY <1>0, <2>2 DEF Submit, Open, TypeOK, Created
  <2>3. QED
    BY <2>1, <2>2 DEF Next, Tick, Create, CreateLoad, CreateCheck, CreateInsert, Read, Load, GetAnswer,
        StateAnswer, ResultsGate, ResultsAttempts, ResultsAnswer, FigureLoad, FigureServed, FigureRefused,
        WriteAnswer, table
<1>4. clock' = clock \/ clock' = clock + 1
  BY DEF Next, Tick, Create, CreateLoad, CreateCheck, CreateInsert, Read, Load, GetAnswer,
        StateAnswer, ResultsGate, ResultsAttempts, ResultsAnswer, FigureLoad, FigureServed, FigureRefused,
        WriteAnswer, Submit, table
<1>5. clock <= clock' /\ clock \in Time /\ clock' \in Time
  BY <1>0, <1>4 DEF TypeOK, Time
<1>6. QED
  BY <1>2, <1>3, <1>5 DEF Keeps

LEMMA RowKept ==
    ASSUME TypeOK, Keeps, NEW s \in Created
    PROVE  /\ s \in Created' /\ rows[s] \in Row
           /\ rows'[s].asg = rows[s].asg /\ rows'[s].started = rows[s].started
           /\ rows'[s].expires = rows[s].expires
           /\ rows[s].submitted # NoTime => rows'[s] = rows[s]
           /\ rows'[s] = rows[s]
              \/ (rows[s].submitted = NoTime /\ rows[s].cur = 0 /\ rows'[s].submitted = clock /\ clock # NoTime)
           /\ rows[s].cur <= rows'[s].cur
<1>1. rows[s] \in Row /\ clock \in Time /\ clock # NoTime /\ rows[s].cur \in Nat /\ s \in Created'
  BY RowShape DEF TypeOK, Row, Time, Keeps
<1>2. CASE rows'[s] = rows[s]
  BY <1>1, <1>2
<1>3. CASE Open(s) /\ rows'[s] = Submitted(rows[s])
  <2>1. rows[s].submitted = NoTime /\ rows[s].cur = 0
    BY <1>3 DEF Open, TypeOK
  <2>2. QED
    BY <1>1, <1>3, <2>1, SubmittedRow
<1>4. QED
  BY <1>2, <1>3 DEF Keeps

LEMMA BehindKept ==
    ASSUME TypeOK, Keeps, NEW s \in Created, NEW old, Behind(old, s)
    PROVE  Behind(old, s)'
BY RowKept DEF Behind

(* A request that a step does not touch, or ends, still fits. *)
LEMMA UntouchedFits ==
    ASSUME Inv, Next, NEW c \in Callers, call'[c] = call[c] \/ call'[c] = Idle
    PROVE  (RowFits(c) /\ GradeFits(c) /\ FigureFits(c))'
<1>0. TypeOK /\ Keeps /\ TypeOK'
  BY NextKeeps, TypeStep DEF Inv
<1>1. RowFits(c) /\ GradeFits(c) /\ FigureFits(c)
  BY DEF Inv, CallFits
<1>2. CASE call'[c] = Idle
  BY <1>2 DEF Idle, RowFits, GradeFits, FigureFits
<1>3. CASE call'[c] = call[c]
  <2>1. RowFits(c)'
    <3>1. SUFFICES ASSUME call[c].pc \in {"get", "state", "results", "figure"}
                   PROVE  Behind(call[c].row, call[c].s)'
      BY <1>3 DEF RowFits
    <3>2. call[c].s \in Created /\ Behind(call[c].row, call[c].s)
      BY <1>0, <1>1, <3>1, RequestByPc DEF RowFits
    <3>3. Behind(call[c].row, call[c].s)'
      <4> DEFINE s == call[c].s
                 old == call[c].row
      <4>1. s \in Created /\ Behind(old, s)
        BY <3>2
      <4>2. \/ old = rows'[s]
            \/ /\ old.submitted = NoTime /\ old.cur = 0
               /\ rows'[s].submitted # NoTime
               /\ old.started = rows'[s].started /\ old.expires = rows'[s].expires
        <5> HIDE DEF s, old
        <5>1. QED
          BY <1>0, <4>1, RowKept DEF Behind
      <4>3. QED
        BY <1>3, <4>2 DEF Behind
    <3>4. QED
      BY <3>3
  <2>2. GradeFits(c)'
    <3>1. SUFFICES ASSUME call[c].pc \in {"attempts", "snapshots"}
                   PROVE  /\ rows'[call[c].s].submitted # NoTime
                          /\ call[c].pc = "snapshots" => graded'[call[c].s] = call[c].graded
      BY <1>3 DEF GradeFits
    <3>2. call[c].s \in Created /\ rows[call[c].s].submitted # NoTime
      BY <1>0, <1>1, <3>1, RequestByPc DEF GradeFits
    <3>3. rows'[call[c].s] = rows[call[c].s] /\ graded'[call[c].s] = graded[call[c].s]
      BY <1>0, <3>2, RowKept DEF Keeps
    <3>4. QED
      BY <1>1, <3>1, <3>2, <3>3 DEF GradeFits
  <2>3. FigureFits(c)'
    <3>1. SUFFICES ASSUME call[c].pc = "figure"
                   PROVE  /\ call[c].began <= clock'
                          /\ call[c].token.s = call[c].s => call[c].token.key <= call[c].row.cur
                          /\ call[c].row # rows'[call[c].s] => call[c].began <= rows'[call[c].s].submitted
      BY <1>3 DEF FigureFits
    <3>2. call[c].s \in Created /\ call[c].began \in Time
      BY <1>0, <3>1, RequestByPc
    <3>3. call[c].began <= clock'
      BY <1>0, <1>1, <3>1, <3>2 DEF FigureFits, Keeps, Time
    <3>4. ASSUME call[c].row # rows'[call[c].s]
          PROVE  call[c].began <= rows'[call[c].s].submitted
      <4>1. CASE rows'[call[c].s] = rows[call[c].s]
        BY <1>1, <3>1, <3>4, <4>1 DEF FigureFits
      <4>2. CASE rows'[call[c].s].submitted = clock
        BY <1>1, <3>1, <4>2 DEF FigureFits
      <4>3. QED
        BY <1>0, <3>2, <4>1, <4>2, RowKept
    <3>5. QED
      BY <1>1, <3>1, <3>3, <3>4 DEF FigureFits
  <2>4. QED
    BY <2>1, <2>2, <2>3
<1>4. QED
  BY <1>2, <1>3

LEMMA UntouchedPage ==
    ASSUME Inv, Next, page' = page
    PROVE  PageFits'
<1>0. TypeOK /\ Keeps /\ PageFits /\ TypeOK'
  BY NextKeeps, TypeStep DEF Inv
<1>1. ASSUME page.kind = "runtime"
      PROVE  /\ page.token.s \in Created'
             /\ rows'[page.token.s].expires = page.expires
             /\ page.token.key <= rows'[page.token.s].cur
  <2>1. page.token.s \in Created /\ page.token.key \in Nat
    BY <1>0, <1>1 DEF PageFits, TypeOK, Runtime, Results, NoPage, Token
  <2>2. rows[page.token.s].cur \in Nat /\ rows'[page.token.s].cur \in Nat
    <3>1. rows'[page.token.s] \in Row
      BY <1>0, <2>1 DEF Keeps, TypeOK, Created
    <3>2. QED
      BY <1>0, <2>1, <3>1, RowKept DEF Row
  <2>3. QED
    BY <1>0, <1>1, <2>1, <2>2, RowKept DEF PageFits
<1>2. ASSUME page.kind = "results"
      PROVE  /\ page.s \in Created'
             /\ rows'[page.s].submitted # NoTime
             /\ graded'[page.s] = page.grade
  BY <1>0, <1>2, RowKept DEF PageFits, Keeps
<1>3. QED
  BY <1>1, <1>2 DEF PageFits

LEMMA TableStepFits ==
    ASSUME Inv, Next
    PROVE  OneActivePerTest' /\ Started' /\ Past'
<1>0. TypeOK /\ Keeps /\ TypeOK' /\ TableStep
  BY NextKeeps, TypeStep, NextTable DEF Inv
<1>1. \A s \in Created : Open(s)' => Open(s)
  <2>1. SUFFICES ASSUME NEW s \in Created, ~Open(s)
                 PROVE  ~Open(s)'
    OBVIOUS
  <2>2. rows'[s] = rows[s] /\ rows[s].submitted # NoTime
    BY <1>0, <2>1, RowKept DEF Open
  <2>3. QED
    BY <2>2 DEF Open
<1>2. ASSUME NEW s \in Created' \ Created
      PROVE  /\ Active(rows'[s].asg.test) = {} /\ Created' = Created \cup {s}
             /\ rows'[s].started = clock /\ rows'[s].submitted = NoTime
  <2>1. ASSUME NEW c \in Callers, NEW i \in Ids \ Created,
               rows' = [rows EXCEPT ![i] = NewRow(call[c].asg)], Active(call[c].asg.test) = {}
        PROVE  /\ Active(rows'[s].asg.test) = {} /\ Created' = Created \cup {s}
               /\ rows'[s].started = clock /\ rows'[s].submitted = NoTime
    <3>1. NewRow(call[c].asg) # NoRow /\ i = s
      BY <1>0, <1>2, <2>1 DEF TypeOK, Created
    <3>2. rows'[s] = NewRow(call[c].asg) /\ Created' = Created \cup {s}
      BY <1>0, <2>1, <3>1 DEF TypeOK, Created
    <3>3. QED
      BY <2>1, <3>2 DEF NewRow
  <2>2. CASE rows' = rows
    BY <1>2, <2>2 DEF Created
  <2>3. ASSUME NEW i \in Ids, Open(i), rows' = [rows EXCEPT ![i] = Submitted(rows[i])]
        PROVE  FALSE
    BY <1>0, <1>2, <2>3 DEF Created, Open, TypeOK
  <2>4. ASSUME NEW c \in Callers, Open(call[c].s), NEW expires \in Nat,
               rows' = [rows EXCEPT ![call[c].s].started = clock, ![call[c].s].expires = expires]
        PROVE  FALSE
    <3> DEFINE i == call[c].s
               r == [rows[i] EXCEPT !.started = clock, !.expires = expires]
    <3>1. i \in Created /\ i \in Ids
      BY <2>4 DEF Open, Created
    <3>2. rows' = [rows EXCEPT ![i] = r]
      BY <1>0, <2>4, <3>1 DEF TypeOK
    <3> HIDE DEF i, r
    <3>3. QED
      BY <1>0, <1>2, <3>1, <3>2 DEF Created, TypeOK
  <2>5. QED
    BY <1>0, <2>1, <2>2, <2>3, <2>4 DEF TableStep
<1>3. OneActivePerTest'
  <2>1. SUFFICES ASSUME NEW s \in Ids, NEW r \in Ids, Open(s)', Open(r)',
                        rows'[s].asg.test = rows'[r].asg.test
                 PROVE  s = r
    BY DEF OneActivePerTest
  <2>2. s \in Created' /\ r \in Created'
    BY <2>1 DEF Open
  <2>3. CASE s \in Created /\ r \in Created
    <3>1. Open(s) /\ Open(r) /\ rows[s].asg.test = rows[r].asg.test
      BY <1>0, <1>1, <2>1, <2>3, RowKept
    <3>2. QED
      BY <3>1 DEF Inv, OneActivePerTest
  <2>4. CASE s \notin Created /\ r \in Created
    <3>1. Open(r) /\ rows[r].asg.test = rows'[s].asg.test
      BY <1>0, <1>1, <2>1, <2>4, RowKept
    <3>2. r \in Active(rows'[s].asg.test)
      BY <3>1 DEF Active
    <3>3. QED
      BY <1>2, <2>2, <2>4, <3>2
  <2>5. CASE s \in Created /\ r \notin Created
    <3>1. Open(s) /\ rows[s].asg.test = rows'[r].asg.test
      BY <1>0, <1>1, <2>1, <2>5, RowKept
    <3>2. s \in Active(rows'[r].asg.test)
      BY <3>1 DEF Active
    <3>3. QED
      BY <1>2, <2>2, <2>5, <3>2
  <2>6. CASE s \notin Created /\ r \notin Created
    BY <1>2, <2>2, <2>6
  <2>7. QED
    BY <2>3, <2>4, <2>5, <2>6
<1>4. clock # NoTime /\ clock \in Nat /\ clock' \in Nat /\ clock <= clock'
  BY <1>0 DEF Keeps, Time
<1>5. Started'
  <2>1. ASSUME NEW s \in Created'
        PROVE  rows'[s].started # NoTime
    BY <1>0, <1>2, <1>4, RowKept DEF Inv, Started
  <2>2. QED
    BY <2>1 DEF Started
<1>6. Past'
  <2>1. ASSUME NEW s \in Created', rows'[s].submitted # NoTime
        PROVE  rows'[s].submitted <= clock'
    <3>1. s \in Created
      BY <1>2, <2>1
    <3>2. CASE rows'[s] = rows[s]
      <4>1. rows[s].submitted \in Nat /\ rows[s].submitted <= clock
        BY <1>0, <2>1, <3>1, <3>2, RowKept DEF Inv, Past, Row, Time
      <4>2. QED
        BY <1>4, <3>2, <4>1
    <3>3. CASE rows'[s].submitted = clock
      BY <1>4, <3>3
    <3>4. QED
      BY <1>0, <3>1, <3>2, <3>3, RowKept
  <2>2. QED
    BY <2>1 DEF Past
<1>7. QED
  BY <1>3, <1>5, <1>6

(* The steps that begin a request or go on with it. *)
LEMMA StartedFits ==
    ASSUME Inv, Next, NEW c \in Callers, NEW x, Start(c, x),
           x.pc \in {"check", "insert"}
           \/ /\ x.pc \in {"get", "state", "results"}
              /\ Behind(x.row, x.s)'
           \/ /\ x.pc = "attempts" /\ rows'[x.s].submitted # NoTime
           \/ /\ x.pc = "snapshots" /\ rows'[x.s].submitted # NoTime /\ graded'[x.s] = x.graded
           \/ /\ x.pc = "figure" /\ x.row = rows'[x.s] /\ x.began <= clock'
              /\ x.token.s = x.s => x.token.key <= x.row.cur
    PROVE  CallFits'
<1>1. ASSUME NEW d \in Callers
      PROVE  (RowFits(d) /\ GradeFits(d) /\ FigureFits(d))'
  <2>1. CASE d # c
    <3>1. call'[d] = call[d]
      BY <2>1 DEF Start, Inv, TypeOK
    <3>2. QED
      BY <3>1, UntouchedFits
  <2>2. CASE d = c
    <3>1. call'[c] = x
      BY DEF Start, Inv, TypeOK
    <3>2. QED
      BY <2>2, <3>1 DEF RowFits, GradeFits, FigureFits, Behind
  <2>3. QED
    BY <2>1, <2>2
<1>2. QED
  BY <1>1 DEF CallFits

LEMMA EndedFits ==
    ASSUME Inv, Next, NEW c \in Callers, End(c) \/ UNCHANGED call
    PROVE  CallFits'
<1>1. \A d \in Callers : call'[d] = call[d] \/ call'[d] = Idle
  BY DEF End, Inv, TypeOK
<1>2. QED
  BY <1>1, UntouchedFits DEF CallFits

LEMMA InvStep ==
    ASSUME Inv, Next
    PROVE  Inv'
<1>0. TypeOK /\ Keeps /\ TypeOK'
  BY NextKeeps, TypeStep DEF Inv
<1>1. SUFFICES CallFits' /\ PageFits'
  BY <1>0, TableStepFits DEF Inv
<1>2. CASE Tick
  <2>1. UNCHANGED <<call, page>>
    BY <1>2 DEF Tick
  <2>2. CallFits'
    BY <2>1, UntouchedFits DEF CallFits
  <2>3. QED
    BY <2>1, <2>2, UntouchedPage
<1>3. ASSUME NEW c \in Callers, Create(c)
      PROVE  CallFits' /\ PageFits'
  <2>1. page' = page
    BY <1>3 DEF Create, CreateLoad, CreateCheck, CreateInsert
  <2>2. End(c) \/ \E a : Start(c, [pc |-> "check", asg |-> a]) \/ Start(c, [pc |-> "insert", asg |-> a])
    BY <1>3 DEF Create, CreateLoad, CreateCheck, CreateInsert
  <2>3. CallFits'
    BY <2>2, EndedFits, StartedFits
  <2>4. QED
    BY <2>1, <2>3, UntouchedPage
<1>4. ASSUME NEW c \in Callers, Read(c)
      PROVE  CallFits' /\ PageFits'
  <2>1. ASSUME NEW op \in {"get", "state", "results"}, NEW s \in Ids, Load(c, op, s)
        PROVE  CallFits' /\ PageFits'
    <3>1. s \in Created /\ rows' = rows /\ page' = page
      BY <2>1 DEF Load, table
    <3>2. PICK x : x = [pc |-> op, s |-> s, row |-> rows[s]]
      OBVIOUS
    <3>3. x.pc \in {"get", "state", "results"} /\ x.s = s /\ x.row = rows'[s]
      BY <3>1, <3>2
    <3>4. Behind(x.row, x.s)'
      BY <3>1, <3>3 DEF Behind
    <3>5. Start(c, x)
      BY <2>1, <3>2 DEF Load
    <3>6. CallFits'
      BY <3>3, <3>4, <3>5, StartedFits
    <3>7. QED
      BY <3>1, <3>6, UntouchedPage
  <2>2. CASE GetAnswer(c)
    <3>1. /\ call[c] \in [pc : {"get", "state", "results"}, s : Created, row : Row]
          /\ Behind(call[c].row, call[c].s)
      BY <2>2, RequestByPc DEF GetAnswer, Inv, CallFits, RowFits
    <3>2. call[c].s \in Created' /\ rows' = rows
      BY <1>0, <2>2, <3>1 DEF GetAnswer, table, Keeps
    <3>3. rows[call[c].s].expires = call[c].row.expires /\ call[c].row.cur <= rows[call[c].s].cur
      <4>1. call[c].row.cur \in Nat /\ rows[call[c].s].cur \in Nat
        BY <1>0, <3>1, RowShape DEF Row
      <4>2. QED
        BY <3>1, <4>1 DEF Behind
    <3>4. PageFits'
      BY <2>2, <3>2, <3>3 DEF GetAnswer, PageFits
    <3>5. QED
      BY <2>2, <3>4, EndedFits DEF GetAnswer
  <2>3. ASSUME NEW action, StateAnswer(c, action)
        PROVE  CallFits' /\ PageFits'
    BY <2>3, EndedFits, UntouchedPage DEF StateAnswer
  <2>4. CASE ResultsGate(c)
    <3>1. End(c) \/ (Start(c, [pc |-> "attempts", s |-> call[c].s]) /\ call[c].row.submitted # NoTime)
      BY <2>4 DEF ResultsGate
    <3>2. rows' = rows /\ page' = page
      BY <2>4 DEF ResultsGate, table
    <3>3. ASSUME call[c].row.submitted # NoTime
          PROVE  rows'[call[c].s].submitted # NoTime
      BY <2>4, <3>2, <3>3 DEF ResultsGate, Inv, CallFits, RowFits, Behind
    <3>4. CallFits'
      BY <3>1, <3>3, EndedFits, StartedFits
    <3>5. QED
      BY <3>2, <3>4, UntouchedPage
  <2>5. CASE ResultsAttempts(c)
    <3>1. Start(c, [pc |-> "snapshots", s |-> call[c].s, graded |-> graded[call[c].s]])
          /\ rows' = rows /\ graded' = graded /\ page' = page
      BY <2>5 DEF ResultsAttempts, table
    <3>2. rows[call[c].s].submitted # NoTime
      BY <2>5 DEF ResultsAttempts, Inv, CallFits, GradeFits
    <3>3. CallFits'
      BY <3>1, <3>2, StartedFits
    <3>4. QED
      BY <3>1, <3>3, UntouchedPage
  <2>6. CASE ResultsAnswer(c)
    <3>1. call[c] \in [pc : {"snapshots"}, s : Created, graded : Answers \cup {NoAnswer}]
      BY <2>6, RequestByPc DEF ResultsAnswer, Inv
    <3>2. rows[call[c].s].submitted # NoTime /\ graded[call[c].s] = call[c].graded
      BY <2>6 DEF ResultsAnswer, Inv, CallFits, GradeFits
    <3>3. call[c].s \in Created' /\ rows' = rows /\ graded' = graded
      BY <1>0, <2>6, <3>1 DEF ResultsAnswer, table, Keeps
    <3>4. PageFits'
      BY <2>6, <3>2, <3>3 DEF ResultsAnswer, PageFits
    <3>5. QED
      BY <2>6, <3>4, EndedFits DEF ResultsAnswer
  <2>7. ASSUME NEW s \in Ids, FigureLoad(c, s)
        PROVE  CallFits' /\ PageFits'
    <3>1. /\ Start(c, [pc |-> "figure", s |-> s, row |-> rows[s], token |-> page.token, began |-> clock])
          /\ page.kind = "runtime" /\ rows' = rows /\ page' = page /\ clock' = clock
      BY <2>7 DEF FigureLoad, table
    <3>2. clock <= clock'
      BY <1>0 DEF Keeps
    <3>3. page.token.s = s => page.token.key <= rows[s].cur
      BY <3>1 DEF Inv, PageFits
    <3>4. CallFits'
      BY <3>1, <3>2, <3>3, StartedFits
    <3>5. QED
      BY <3>1, <3>4, UntouchedPage
  <2>8. CASE FigureServed(c)
    BY <2>8, EndedFits, UntouchedPage DEF FigureServed
  <2>9. CASE FigureRefused(c)
    BY <2>9, EndedFits, UntouchedPage DEF FigureRefused
  <2>10. QED
    BY <1>4, <2>1, <2>2, <2>3, <2>4, <2>5, <2>6, <2>7, <2>8, <2>9 DEF Read
<1>5. ASSUME NEW s \in Ids, Submit(s) \/ \E a \in Answers : WriteAnswer(s, a)
      PROVE  CallFits' /\ PageFits'
  <2>1. UNCHANGED <<call, page>>
    BY <1>5 DEF Submit, WriteAnswer
  <2>2. CallFits'
    BY <2>1, UntouchedFits DEF CallFits
  <2>3. QED
    BY <2>1, <2>2, UntouchedPage
<1>6. QED
  BY <1>2, <1>3, <1>4, <1>5 DEF Next

LEMMA InvInit == Init => Inv
<1> SUFFICES ASSUME Init
             PROVE  Inv
  OBVIOUS
<1>1. TypeOK
  BY TypeInit
<1>2. Created = {} /\ \A s \in Ids : ~Open(s)
  BY DEF Init, Created, Open
<1>3. OneActivePerTest /\ Started /\ Past
  BY <1>2 DEF OneActivePerTest, Started, Past
<1>4. CallFits
  BY DEF Init, Idle, CallFits, RowFits, GradeFits, FigureFits
<1>5. PageFits
  BY DEF Init, NoPage, PageFits
<1>6. QED
  BY <1>1, <1>3, <1>4, <1>5 DEF Inv

LEMMA InvStutter == ASSUME Inv, UNCHANGED vars PROVE Inv'
<1>1. TypeOK'
  BY TypeStutter DEF Inv
<1>2. OneActivePerTest' /\ Started' /\ Past'
  BY DEF Inv, vars, OneActivePerTest, Started, Past, Open, Created
<1>3. CallFits'
  BY DEF Inv, vars, CallFits, RowFits, GradeFits, FigureFits, Behind
<1>4. PageFits'
  BY DEF Inv, vars, PageFits, Created
<1>5. QED
  BY <1>1, <1>2, <1>3, <1>4 DEF Inv

LEMMA Invariant == Spec => []Inv
BY InvInit, InvStep, InvStutter, PTL DEF Spec

-----------------------------------------------------------------------------
(* What follows *)

(* However many creations race, a test has one open session                *)
(* (test-sessions.service.ts:125-175 and the index uniq_active_session).   *)
THEOREM OneActiveSession == Spec => []OneActivePerTest
<1>1. Inv => OneActivePerTest
  BY DEF Inv
<1>2. QED
  BY Invariant, <1>1, PTL

(* The deadline a runtime page counts down to is the session's: no START   *)
(* moves it once the page has it (test-sessions.service.ts:321-361).       *)
THEOREM DeadlineTheorem == Spec => []DeadlineKept
<1>1. Inv => DeadlineKept
  BY DEF Inv, PageFits, DeadlineKept
<1>2. QED
  BY Invariant, <1>1, PTL

(* A grade on a results page is the session's for good                     *)
(* (test-sessions.service.ts:1034-1140).                                   *)
THEOREM GradeTheorem == Spec => []GradeSeenIsFinal
<1>1. Inv => GradeSeenIsFinal
  BY DEF Inv, PageFits, GradeSeenIsFinal
<1>2. QED
  BY Invariant, <1>1, PTL

LEMMA FigureStep ==
    ASSUME Inv, NEW c \in Callers, call[c].pc = "figure", call[c].token.s = call[c].s
    PROVE  \/ call[c].token.key = rows[call[c].s].cur /\ Verified(c)
           \/ call[c].token.key # rows[call[c].s].cur /\ Verified(c) /\ call[c].began <= GraceEnds(c)
           \/ call[c].token.key # rows[call[c].s].cur /\ ~Verified(c) /\ clock > GraceEnds(c)
<1> DEFINE s == call[c].s
           old == call[c].row
           key == call[c].token.key
           began == call[c].began
<1>1. s \in Created /\ old \in Row /\ key \in Nat /\ began \in Nat
  <2>1. call[c] \in [pc : {"figure"}, s : Created, row : Row, token : Token, began : Time]
    BY RequestByPc DEF Inv
  <2>2. QED
    BY <2>1 DEF Token, Time
<1>2. /\ rows[s] \in Row /\ s \in Ids /\ rows[s] # NoRow
      /\ <<rows[s].prev, rows[s].cur>> = IF Open(s) THEN <<-1, 0>> ELSE <<0, 1>>
  BY <1>1, RowShape DEF Inv, TypeOK
<1>3. /\ Behind(old, s) /\ began <= clock /\ key <= old.cur
      /\ old # rows[s] => began <= rows[s].submitted
  BY DEF Inv, CallFits, RowFits, FigureFits
<1>4. Verified(c) <=> key = old.cur \/ key \in UsablePrevious(old)
  BY DEF Verified
<1>5. clock \in Nat
  BY DEF Inv, TypeOK, Time
<1>6. CASE rows[s].submitted = NoTime
  <2>1. old = rows[s] /\ rows[s].cur = 0
    BY <1>1, <1>2, <1>3, <1>6 DEF Behind, Open
  <2>2. key = rows[s].cur
    BY <1>1, <1>3, <2>1
  <2>3. QED
    BY <1>4, <2>1, <2>2
<1>7. CASE rows[s].submitted # NoTime
  <2>1. rows[s].prev = 0 /\ rows[s].cur = 1 /\ rows[s].submitted \in Nat
    BY <1>2, <1>7 DEF Open, Row, Time
  <2>2. CASE old = rows[s] /\ key = 1
    BY <1>4, <2>1, <2>2
  <2>3. CASE old = rows[s] /\ key = 0
    <3>1. CASE clock - rows[s].submitted > Grace
      <4>1. ~Verified(c)
        BY <1>4, <2>1, <2>3, <3>1, <1>7 DEF UsablePrevious
      <4>2. QED
        BY <1>5, <2>1, <2>3, <3>1, <4>1 DEF GraceEnds
    <3>2. CASE ~(clock - rows[s].submitted > Grace)
      <4>1. Verified(c)
        BY <1>4, <2>1, <2>3, <3>2, <1>7 DEF UsablePrevious
      <4>2. QED
        BY <1>1, <1>3, <1>5, <2>1, <2>3, <3>2, <4>1 DEF GraceEnds
    <3>3. QED
      BY <3>1, <3>2
  <2>4. CASE old # rows[s]
    <3>1. old.cur = 0 /\ key = 0
      BY <1>1, <1>3, <2>4 DEF Behind
    <3>2. Verified(c)
      BY <1>4, <3>1
    <3>3. QED
      BY <1>1, <1>3, <2>1, <2>4, <3>1, <3>2 DEF GraceEnds
  <2>5. QED
    BY <1>1, <1>3, <2>1, <2>2, <2>3, <2>4
<1>8. QED
  BY <1>6, <1>7

(* A figure the student's page asks for is refused only after the grace    *)
(* that follows a submit, and served after it only to a request that began *)
(* before (test-sessions.service.ts:515-569, 1244-1250).                   *)
THEOREM FigureTheorem == Spec => FigureAnswers
<1>1. Inv => \A c \in Callers :
          call[c].pc = "figure" /\ call[c].token.s = call[c].s
          => \/ call[c].token.key = rows[call[c].s].cur /\ Verified(c)
             \/ call[c].token.key # rows[call[c].s].cur /\ Verified(c) /\ call[c].began <= GraceEnds(c)
             \/ call[c].token.key # rows[call[c].s].cur /\ ~Verified(c) /\ clock > GraceEnds(c)
  BY FigureStep
<1>2. Inv =>
        [\A c \in Callers :
          call[c].pc = "figure" /\ call[c].token.s = call[c].s /\ call'[c].pc = "idle"
          => \/ call[c].token.key = rows[call[c].s].cur /\ Verified(c)
             \/ call[c].token.key # rows[call[c].s].cur /\ Verified(c) /\ call[c].began <= GraceEnds(c)
             \/ call[c].token.key # rows[call[c].s].cur /\ ~Verified(c) /\ clock > GraceEnds(c)]_vars
  BY <1>1
<1>3. QED
  BY Invariant, <1>2, PTL DEF FigureAnswers

-----------------------------------------------------------------------------
(* Why a session that is under way can miss its card *)

(* One way to each test.                                                    *)
OneWay == \A a, b \in Assignments : a.test = b.test => a = b

(* What the run claim_dashboard refutes needs two assignments of one test:  *)
(* with one way to each test every open session of a listed test has a card *)
(* that leads back to it.  (DISTINCT ON (test_id) joins only the sessions   *)
(* begun through the earliest assignment)                                   *)
THEOREM ActiveIsShownOneWay ==
    ASSUME OneWay
    PROVE  Spec => []ActiveIsShown
<1>1. TypeOK => ActiveIsShown
  <2> SUFFICES ASSUME TypeOK, NEW s \in Ids, Open(s),
                      NEW k \in Cards, k.asg.test = rows[s].asg.test
               PROVE  \E b \in Begins : b.session = s
    BY DEF ActiveIsShown
  <2>1. PICK a \in {b \in Deduped : b.to + Day > clock} : k \in Card(a)
    BY DEF Cards
  <2>2. k.asg = a /\ a \in Assignments
    BY <2>1 DEF Card, Deduped
  <2>3. s \in Created /\ rows[s].asg \in Assignments
    BY RowShape DEF Open, Row
  <2>4. rows[s].asg = a
    BY <2>2, <2>3 DEF OneWay
  <2>5. s \in Joined(a)
    BY <2>3, <2>4 DEF Joined
  <2>6. Status(a, s) = "IN_PROGRESS"
    BY DEF Status
  <2> DEFINE card == [asg |-> a, session |-> s, status |-> Status(a, s)]
  <2>7. card \in Cards
    BY <2>1, <2>5 DEF Card, Cards
  <2>8. card \in Begins
    BY <2>6, <2>7 DEF Begins
  <2>9. QED
    BY <2>8
<1>2. QED
  BY <1>1, SessionTypes, PTL
=============================================================================
