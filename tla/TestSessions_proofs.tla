------------------------ MODULE TestSessions_proofs ------------------------
(***************************************************************************)
(* What holds of TestSessions for every number of sessions, requests,      *)
(* slots, sequence numbers and answers, every threshold, and whether or    *)
(* not requests die half way.                                              *)
(***************************************************************************)
EXTENDS TestSessions, FiniteSetTheorems, TLAPS

USE SessionsAssumption, SourcesAssumption

-----------------------------------------------------------------------------
(* Type correctness *)

(* A request that is done, or is replaced by a well-formed record, leaves   *)
(* every request well formed.                                               *)
LEMMA RequestReplaced ==
    ASSUME TypeOK, NEW r \in Requests, NEW q \in Request, Ready(q),
           req' = [req EXCEPT ![r] = q]
    PROVE  req' \in [Requests -> Request] /\ \A x \in Requests : Ready(req'[x])
  BY DEF TypeOK

LEMMA IdleTyped == Idle \in Request /\ Ready(Idle)
  BY DEF Idle, Request, Ready, Locations, DrainSteps

LEMMA RequestDone ==
    ASSUME TypeOK, NEW r \in Requests, Done(r)
    PROVE  req' \in [Requests -> Request] /\ \A x \in Requests : Ready(req'[x])
  BY IdleTyped, RequestReplaced DEF Done

(* Ending a transaction frees row locks and takes none.                     *)
LEMMA LockReleased ==
    ASSUME TypeOK, NEW r \in Requests, Release(r)
    PROVE  lock' \in [Sessions -> Requests \cup {None}]
  BY DEF TypeOK, Release

(* A handler that starts writes nothing but its own record.                 *)
LEMMA StartTyped ==
    ASSUME TypeOK, NEW r \in Requests, NEW op, NEW q \in Request, Ready(q), Start(r, op, q)
    PROVE  TypeOK'
  <1>1. req' \in [Requests -> Request] /\ \A x \in Requests : Ready(req'[x])
    BY RequestReplaced DEF Start
  <1> QED BY <1>1 DEF Start, db, history, TypeOK

(* The two upserts keep a row a row.                                        *)
LEMMA UpsertTyped ==
    ASSUME NEW row \in Row \cup {None}, NEW p, p.answer \in Answers \cup {None},
           p.seq \in Nat, p.visited \in BOOLEAN
    PROVE  Upsert(row, p) \in Row
  <1>1. CASE row = None
    <2>1. Upsert(row, p) = [answer |-> p.answer, seq |-> p.seq, visited |-> p.visited,
                            levels |-> <<>>]
      BY <1>1 DEF Upsert
    <2>2. <<>> \in Seq(Nat)
      OBVIOUS
    <2> QED BY <2>1, <2>2 DEF Row
  <1>2. CASE row # None
    <2> DEFINE a == IF p.seq > row.seq THEN p.answer ELSE row.answer
               n == IF p.seq > row.seq THEN p.seq ELSE row.seq
               v == row.visited \/ p.visited
    <2>1. Upsert(row, p) = [row EXCEPT !.answer = a, !.seq = n, !.visited = v]
      BY <1>2 DEF Upsert
    <2>2. row \in Row
      BY <1>2
    <2>3. a \in Answers \cup {None} /\ n \in Nat
      BY <2>2 DEF Row
    <2>4. v \in BOOLEAN
      OBVIOUS
    <2> HIDE DEF a, n, v
    <2> QED BY <2>1, <2>2, <2>3, <2>4 DEF Row
  <1> QED BY <1>1, <1>2

LEMMA UpsertHintTyped ==
    ASSUME NEW row \in Row \cup {None}, NEW level \in Nat
    PROVE  UpsertHint(row, level) \in Row
  <1>1. CASE row = None
    <2>1. <<level>> \in Seq(Nat)
      OBVIOUS
    <2> QED BY <1>1, <2>1 DEF UpsertHint, Row
  <1>2. CASE row # None
    <2>1. row \in Row /\ Append(row.levels, level) \in Seq(Nat)
      BY <1>2 DEF Row
    <2> QED BY <1>2, <2>1 DEF UpsertHint, Row
  <1> QED BY <1>1, <1>2

LEMMA SnapshotWritten ==
    ASSUME TypeOK, NEW s \in Sessions, NEW k \in Slots, NEW row \in Row,
           snapshots' = [snapshots EXCEPT ![s][k] = row]
    PROVE  snapshots' \in [Sessions -> Rows]
  BY DEF TypeOK, Rows

LEMMA LatestRecorded ==
    ASSUME TypeOK, NEW s \in Sessions, NEW p, p.slot \in Slots, p.seq \in Nat,
           p.answer \in Answers \cup {None}, Record(s, p)
    PROVE  latest' \in [Sessions -> [Slots -> [seq : Nat, answers : SUBSET (Answers \cup {None})]]]
  <1> DEFINE L == [seq : Nat, answers : SUBSET (Answers \cup {None})]
             old == latest[s][p.slot]
             new == IF p.seq > old.seq THEN [seq |-> p.seq, answers |-> {p.answer}]
                    ELSE IF p.seq = old.seq THEN [old EXCEPT !.answers = @ \cup {p.answer}]
                    ELSE old
  <1>1. latest \in [Sessions -> [Slots -> L]]
    BY DEF TypeOK
  <1>2. old \in L
    BY <1>1
  <1>3. new \in L
    BY <1>2
  <1>4. latest' = [latest EXCEPT ![s][p.slot] = new]
    BY DEF Record
  <1> HIDE DEF L, new
  <1>5. latest' \in [Sessions -> [Slots -> L]]
    BY <1>1, <1>3, <1>4
  <1> QED BY <1>5 DEF L

(* The rows of a drain: finitely many, each numbered from 1.                *)
LEMMA SlotsFinite == IsFiniteSet(Slots) /\ Slots \subseteq Nat
  BY NumSlotsAssumption, FS_Interval DEF Slots

LEMMA OrderTyped ==
    ASSUME TypeOK, NEW r \in Requests, req[r].pc = "submit_commit",
           NEW k \in Drained(req[r].rows)
    PROVE  Order(r, k) \in Nat \ {0}
  <1> DEFINE s == req[r].s
             peers == {j \in Drained(req[r].rows) : j <= k /\ Code[s][j] = Code[s][k]}
  <1>1. s \in Sessions /\ k \in Slots /\ req[r].prior[Code[s][k]] \in Nat
    BY CodeAssumption DEF TypeOK, Ready, DrainSteps, Drained
  <1>2. k \in peers /\ peers \subseteq Slots
    BY <1>1, SlotsFinite DEF Drained
  <1>3. IsFiniteSet(peers)
    BY <1>2, SlotsFinite, FS_Subset
  <1>4. Cardinality(peers) \in Nat \ {0}
    BY <1>2, <1>3, FS_CardinalityType, FS_EmptySet
  <1>5. Order(r, k) = req[r].prior[Code[s][k]] + Cardinality(peers)
    BY DEF Order
  <1> HIDE DEF peers
  <1> QED BY <1>1, <1>4, <1>5

LEMMA NewAttemptsTyped ==
    ASSUME TypeOK, NEW r \in Requests, req[r].pc = "submit_commit"
    PROVE  NewAttempts(r) \subseteq Attempt /\ IsFiniteSet(NewAttempts(r))
  <1> DEFINE s == req[r].s
             rows == req[r].rows
             New(k) == [s |-> s, slot |-> k, batch |-> session[s].rotations + 1,
                        code |-> Code[s][k], order |-> Order(r, k),
                        answer |-> rows[k].answer, seq |-> rows[k].seq,
                        hints |-> Len(rows[k].levels), source |-> req[r].in.source]
  <1>1. NewAttempts(r) = {New(k) : k \in Drained(rows)}
    BY DEF NewAttempts
  <1>2. s \in Sessions /\ rows \in Rows /\ req[r].in.source \in Sources
    BY DEF TypeOK, Ready, DrainSteps, SubmitBody
  <1>3. session[s].rotations + 1 \in Nat
    BY <1>2 DEF TypeOK, SessionRow
  <1>4. ASSUME NEW k \in Drained(rows)
        PROVE  New(k) \in Attempt
    <2>1. k \in Slots /\ rows[k] \in Row
      BY <1>2 DEF Drained, Rows
    <2>2. rows[k].answer \in Answers \cup {None} /\ rows[k].seq \in Nat
          /\ Len(rows[k].levels) \in Nat
      BY <2>1 DEF Row
    <2>3. Code[s][k] \in Codes
      BY <1>2, <2>1, CodeAssumption
    <2>4. Order(r, k) \in Nat \ {0}
      BY <1>4, OrderTyped
    <2> QED BY <1>2, <1>3, <2>1, <2>2, <2>3, <2>4 DEF Attempt
  <1>5. IsFiniteSet(Drained(rows))
    <2>1. Drained(rows) \subseteq Slots
      BY DEF Drained
    <2> QED BY <2>1, SlotsFinite, FS_Subset
  <1> HIDE DEF New
  <1>6. IsFiniteSet({New(k) : k \in Drained(rows)})
    <2> DEFINE F == [k \in Drained(rows) |-> New(k)]
               T == {New(k) : k \in Drained(rows)}
    <2>1. F \in Surjection(Drained(rows), T)
      BY DEF Surjection
    <2> QED BY <1>5, <2>1, FS_Surjection
  <1> QED BY <1>1, <1>4, <1>6

(* The prior counts are numbers.                                            *)
LEMMA PriorTyped ==
    ASSUME TypeOK
    PROVE  [c \in Codes |-> Cardinality({a \in attempts : a.code = c})] \in [Codes -> Nat]
  <1>1. ASSUME NEW c \in Codes
        PROVE  Cardinality({a \in attempts : a.code = c}) \in Nat
    <2>1. {a \in attempts : a.code = c} \subseteq attempts /\ IsFiniteSet(attempts)
      BY DEF TypeOK
    <2>2. IsFiniteSet({a \in attempts : a.code = c})
      BY <2>1, FS_Subset
    <2> QED BY <2>2, FS_CardinalityType
  <1> QED BY <1>1

LEMMA AttemptIdsTyped ==
    ASSUME TypeOK, NEW s \in Sessions
    PROVE  AttemptIds(s) \in SUBSET AttemptRowIds
  BY DEF TypeOK, AttemptIds, AttemptRowIds, Attempt

LEMMA TypeInit == Init => TypeOK
  <1> SUFFICES ASSUME Init PROVE TypeOK
    OBVIOUS
  <1>1. session \in [Sessions -> SessionRow]
    BY DEF Init, SessionRow
  <1>2. snapshots \in [Sessions -> Rows]
    BY DEF Init, Rows
  <1>3. IsFiniteSet(attempts) /\ attempts \subseteq Attempt
    BY FS_EmptySet DEF Init
  <1>4. \A r \in Requests : req[r] \in Request /\ Ready(req[r])
    BY IdleTyped DEF Init
  <1>5. req \in [Requests -> Request]
    BY IdleTyped DEF Init
  <1> QED BY <1>1, <1>2, <1>3, <1>4, <1>5 DEF Init, TypeOK

(* The handlers that arrive.                                                *)
LEMMA TypeArrive ==
    ASSUME TypeOK, NEW r \in Requests, NEW s \in Sessions, Arrive(r, s)
    PROVE  TypeOK'
  <1>1. ASSUME NEW pc \in {"patch_write", "hint_check", "late_next"}
        PROVE  At(pc, s, None) \in Request /\ Ready(At(pc, s, None))
    BY DEF At, Idle, Request, Ready, Locations, DrainSteps
  <1>2. ASSUME NEW src \in Sources
        PROVE  /\ At("submit_lock", s, [source |-> src]) \in Request
               /\ Ready(At("submit_lock", s, [source |-> src]))
    BY DEF At, Idle, Request, Ready, Locations, DrainSteps, SubmitBody
  <1>3. CASE PatchBegin(r, s)
    BY <1>1, <1>3, StartTyped DEF PatchBegin
  <1>4. CASE HintBegin(r, s)
    BY <1>1, <1>4, StartTyped DEF HintBegin
  <1>5. CASE LateBegin(r, s)
    BY <1>1, <1>5, StartTyped DEF LateBegin
  <1>6. CASE \E src \in ClientSources : SubmitBegin(r, s, src)
    BY <1>2, <1>6, StartTyped DEF SubmitBegin
  <1>7. CASE ViolationBegin(r, s)
    <2> DEFINE q == [At("violation_update", s, [source |-> "VIOLATION_THRESHOLD"])
                        EXCEPT !.count = session[s].violations]
    <2>1. session[s].violations \in Nat
      BY DEF TypeOK, SessionRow
    <2>2. q \in Request /\ Ready(q)
      BY <2>1 DEF At, Idle, Request, Ready, Locations, DrainSteps, SubmitBody, Sources
    <2>3. Start(r, "violation", q)
      BY <1>7 DEF ViolationBegin
    <2> HIDE DEF q
    <2> QED BY <2>2, <2>3, StartTyped
  <1> QED BY <1>3, <1>4, <1>5, <1>6, <1>7 DEF Arrive

(* A request that only moves on.                                            *)
LEMMA MovedOn ==
    ASSUME TypeOK, NEW r \in Requests, NEW q \in Request, Ready(q),
           req' = [req EXCEPT ![r] = q], UNCHANGED <<db, history>>,
           lock' \in [Sessions -> Requests \cup {None}]
    PROVE  TypeOK'
  <1>1. req' \in [Requests -> Request] /\ \A x \in Requests : Ready(req'[x])
    BY RequestReplaced
  <1> QED BY <1>1 DEF db, history, TypeOK

LEMMA TypeHintCheck ==
    ASSUME TypeOK, NEW r \in Requests, NEW h \in HintAsk, HintCheck(r, h)
    PROVE  TypeOK'
  <1> DEFINE q == [req[r] EXCEPT !.pc = "hint_write", !.in = h]
  <1>1. req[r] \in Request /\ req[r].s \in Sessions
    BY DEF TypeOK, Ready, HintCheck
  <1>2. q \in Request /\ Ready(q)
    BY <1>1 DEF Request, Ready, Locations, DrainSteps
  <1>3. req' = [req EXCEPT ![r] = q]
    BY <1>1 DEF HintCheck, TypeOK
  <1> HIDE DEF q
  <1> QED BY <1>2, <1>3, MovedOn DEF HintCheck, TypeOK

LEMMA TypeLateEntry ==
    ASSUME TypeOK, NEW r \in Requests, NEW e \in Entry, LateEntry(r, e)
    PROVE  TypeOK'
  <1> DEFINE q == [req[r] EXCEPT !.pc = "late_write", !.in = e]
  <1>1. req[r] \in Request /\ req[r].s \in Sessions
    BY DEF TypeOK, Ready, LateEntry
  <1>2. q \in Request /\ Ready(q)
    BY <1>1 DEF Request, Ready, Locations, DrainSteps
  <1>3. req' = [req EXCEPT ![r] = q]
    BY <1>1 DEF LateEntry, TypeOK
  <1> HIDE DEF q
  <1> QED BY <1>2, <1>3, MovedOn DEF LateEntry, TypeOK

LEMMA TypeViolationUpdate ==
    ASSUME TypeOK, NEW r \in Requests, ViolationUpdate(r)
    PROVE  TypeOK'
  <1> DEFINE s == req[r].s
             count == IF Submitted(s) THEN req[r].count ELSE session[s].violations + 1
             pc == IF count >= Threshold THEN "submit_lock" ELSE "violation_commit"
             bump == ~Submitted(s)
             q == [req[r] EXCEPT !.bump = bump, !.pc = pc]
  <1>1. req[r] \in Request /\ s \in Sessions /\ req[r].in \in SubmitBody
    BY DEF TypeOK, Ready, ViolationUpdate
  <1>2. pc \in {"submit_lock", "violation_commit"} /\ bump \in BOOLEAN
    OBVIOUS
  <1>3. req' = [req EXCEPT ![r] = q]
    BY <1>1 DEF ViolationUpdate, TypeOK
  <1> HIDE DEF pc, bump
  <1>4. q \in Request
    BY <1>1, <1>2 DEF Request, Locations
  <1>5. Ready(q)
    BY <1>1, <1>2 DEF Request, Ready, DrainSteps
  <1>6. lock' \in [Sessions -> Requests \cup {None}]
    BY DEF TypeOK, ViolationUpdate
  <1> HIDE DEF q
  <1> QED BY <1>3, <1>4, <1>5, <1>6, MovedOn DEF ViolationUpdate

LEMMA TypeSubmitLock ==
    ASSUME TypeOK, NEW r \in Requests, SubmitLock(r)
    PROVE  TypeOK'
  <1> DEFINE q == [req[r] EXCEPT !.pc = "submit_read"]
  <1>1. req[r] \in Request /\ req[r].s \in Sessions /\ req[r].in \in SubmitBody
    BY DEF TypeOK, Ready, SubmitLock
  <1>2. q \in Request /\ Ready(q)
    BY <1>1 DEF Request, Ready, Locations, DrainSteps
  <1>3. req' = [req EXCEPT ![r] = q]
    BY <1>1 DEF SubmitLock, Goto, TypeOK
  <1>4. req' \in [Requests -> Request] /\ \A x \in Requests : Ready(req'[x])
    BY <1>2, <1>3, RequestReplaced
  <1>5. lock' \in [Sessions -> Requests \cup {None}] /\ due' \in [Sessions -> Rows \cup {None}]
    BY <1>1 DEF SubmitLock, TypeOK
  <1> QED BY <1>4, <1>5 DEF SubmitLock, db, TypeOK

LEMMA TypeSubmitRead ==
    ASSUME TypeOK, NEW r \in Requests, SubmitRead(r) \/ SubmitCount(r)
    PROVE  TypeOK'
  <1> DEFINE counts == [c \in Codes |-> Cardinality({a \in attempts : a.code = c})]
             q1 == [req[r] EXCEPT !.pc = "submit_count", !.rows = snapshots[req[r].s]]
             q2 == [req[r] EXCEPT !.pc = "submit_commit", !.prior = counts]
  <1>1. /\ req[r] \in Request /\ req[r].s \in Sessions /\ req[r].in \in SubmitBody
        /\ snapshots[req[r].s] \in Rows /\ counts \in [Codes -> Nat]
        /\ SubmitCount(r) => req[r].rows \in Rows
    BY PriorTyped DEF TypeOK, Ready, SubmitRead, SubmitCount, DrainSteps
  <1> HIDE DEF counts
  <1>2. q1 \in Request /\ Ready(q1)
    BY <1>1 DEF Request, Ready, Locations, DrainSteps
  <1>3. SubmitCount(r) => q2 \in Request /\ Ready(q2)
    BY <1>1 DEF Request, Ready, Locations, DrainSteps
  <1>4. CASE SubmitRead(r)
    <2>1. req' = [req EXCEPT ![r] = q1]
      BY <1>1, <1>4 DEF SubmitRead, TypeOK
    <2> HIDE DEF q1
    <2> QED BY <1>2, <1>4, <2>1, MovedOn DEF SubmitRead, TypeOK
  <1>5. CASE SubmitCount(r)
    <2>1. req' = [req EXCEPT ![r] = q2]
      BY <1>1, <1>5 DEF SubmitCount, TypeOK, counts
    <2> HIDE DEF q2
    <2> QED BY <1>3, <1>5, <2>1, MovedOn DEF SubmitCount, TypeOK
  <1> QED BY <1>4, <1>5

LEMMA TypePatchWrite ==
    ASSUME TypeOK, NEW r \in Requests, NEW p \in Patch, PatchWrite(r, p)
    PROVE  TypeOK'
  <1> DEFINE s == req[r].s
  <1>1. /\ s \in Sessions /\ p.slot \in Slots /\ p.seq \in Nat
        /\ p.answer \in Answers \cup {None} /\ p.visited \in BOOLEAN
        /\ snapshots[s][p.slot] \in Row \cup {None}
    BY BoundsAssumption DEF TypeOK, Ready, PatchWrite, Patch, Rows
  <1>2. Upsert(snapshots[s][p.slot], p) \in Row
    BY <1>1, UpsertTyped
  <1>3. snapshots' \in [Sessions -> Rows]
    BY <1>1, <1>2, SnapshotWritten DEF PatchWrite
  <1>4. latest' \in [Sessions -> [Slots -> [seq : Nat, answers : SUBSET (Answers \cup {None})]]]
    BY <1>1, LatestRecorded DEF PatchWrite
  <1>5. req' \in [Requests -> Request] /\ \A x \in Requests : Ready(req'[x])
    BY RequestDone DEF PatchWrite
  <1> QED BY <1>3, <1>4, <1>5 DEF PatchWrite, TypeOK

LEMMA TypeHintWrite ==
    ASSUME TypeOK, NEW r \in Requests, HintWrite(r)
    PROVE  TypeOK'
  <1> DEFINE s == req[r].s
             h == req[r].in
  <1>1. /\ s \in Sessions /\ h.slot \in Slots /\ h.level \in Nat
        /\ snapshots[s][h.slot] \in Row \cup {None}
    BY BoundsAssumption DEF TypeOK, Ready, HintWrite, HintAsk, Rows
  <1>2. UpsertHint(snapshots[s][h.slot], h.level) \in Row
    BY <1>1, UpsertHintTyped
  <1>3. snapshots' \in [Sessions -> Rows]
    BY <1>1, <1>2, SnapshotWritten DEF HintWrite
  <1>4. delivered' \subseteq [s : Sessions, slot : Slots, level : Nat]
    BY <1>1 DEF HintWrite, TypeOK
  <1>5. req' \in [Requests -> Request] /\ \A x \in Requests : Ready(req'[x])
    BY RequestDone DEF HintWrite
  <1> QED BY <1>3, <1>4, <1>5 DEF HintWrite, TypeOK

LEMMA TypeLateWrite ==
    ASSUME TypeOK, NEW r \in Requests, LateWrite(r)
    PROVE  TypeOK'
  <1> DEFINE s == req[r].s
             e == req[r].in
             p == [slot |-> e.slot, seq |-> e.seq, answer |-> e.answer,
                   visited |-> snapshots[s][e.slot] = None]
             q == [req[r] EXCEPT !.pc = "late_next", !.in = None]
  <1>1. /\ req[r] \in Request /\ s \in Sessions /\ e.slot \in Slots /\ e.seq \in Nat
        /\ e.answer \in Answers \cup {None} /\ snapshots[s][e.slot] \in Row \cup {None}
    BY BoundsAssumption DEF TypeOK, Ready, LateWrite, Entry, Rows
  <1>2. p.slot \in Slots /\ p.seq \in Nat /\ p.answer \in Answers \cup {None}
        /\ p.visited \in BOOLEAN
    BY <1>1
  <1>3. /\ snapshots' = [snapshots EXCEPT ![s][e.slot] = Upsert(snapshots[s][e.slot], p)]
        /\ Record(s, p) /\ req' = [req EXCEPT ![r] = q]
    BY <1>1 DEF LateWrite, TypeOK
  <1>4. p.slot = e.slot
    OBVIOUS
  <1> HIDE DEF p
  <1>5. Upsert(snapshots[s][e.slot], p) \in Row
    BY <1>1, <1>2, UpsertTyped
  <1>6. snapshots' \in [Sessions -> Rows]
    BY <1>1, <1>3, <1>5, SnapshotWritten
  <1>7. latest' \in [Sessions -> [Slots -> [seq : Nat, answers : SUBSET (Answers \cup {None})]]]
    BY <1>1, <1>2, <1>3, LatestRecorded
  <1>8. scored' \subseteq [s : Sessions, slot : Slots, seq : Nat]
    BY <1>1 DEF LateWrite, TypeOK
  <1>9. q \in Request /\ Ready(q)
    BY <1>1 DEF Request, Ready, Locations, DrainSteps
  <1> HIDE DEF q
  <1>10. req' \in [Requests -> Request] /\ \A x \in Requests : Ready(req'[x])
    BY <1>3, <1>9, RequestReplaced
  <1> QED BY <1>6, <1>7, <1>8, <1>10 DEF LateWrite, TypeOK

(* Writing a session's row.                                                 *)
LEMMA SessionWritten ==
    ASSUME TypeOK, NEW s \in Sessions, NEW row \in SessionRow,
           session' = [session EXCEPT ![s] = row]
    PROVE  session' \in [Sessions -> SessionRow]
  BY DEF TypeOK

LEMMA RowNumbers ==
    ASSUME TypeOK, NEW s \in Sessions
    PROVE  session[s].violations \in Nat /\ session[s].rotations \in Nat
  BY DEF TypeOK, SessionRow

LEMMA TypeViolationCommit ==
    ASSUME TypeOK, NEW r \in Requests, ViolationCommit(r)
    PROVE  TypeOK'
  <1>1. req[r].s \in Sessions
    BY DEF TypeOK, Ready, ViolationCommit
  <1>2. session' \in [Sessions -> SessionRow]
    <2> DEFINE s == req[r].s
               n == IF req[r].bump THEN session[s].violations + 1 ELSE session[s].violations
               row == [session[s] EXCEPT !.violations = n]
    <2>1. n \in Nat
      BY <1>1, RowNumbers
    <2>2. session' = [session EXCEPT ![s] = row]
      BY <1>1 DEF ViolationCommit, TypeOK
    <2> HIDE DEF n
    <2>3. session[s] \in SessionRow
      BY <1>1 DEF TypeOK
    <2>4. row \in SessionRow
      BY <1>1, <2>1, <2>3 DEF SessionRow
    <2> HIDE DEF row
    <2> QED BY <1>1, <2>2, <2>4, SessionWritten
  <1>3. lock' \in [Sessions -> Requests \cup {None}]
    BY LockReleased DEF ViolationCommit
  <1>4. req' \in [Requests -> Request] /\ \A x \in Requests : Ready(req'[x])
    BY RequestDone DEF ViolationCommit
  <1> QED BY <1>2, <1>3, <1>4 DEF ViolationCommit, history, TypeOK

LEMMA TypeSubmitCommit ==
    ASSUME TypeOK, NEW r \in Requests, SubmitCommit(r)
    PROVE  TypeOK'
  <1> DEFINE new == NewAttempts(r)
             ids == {[slot |-> a.slot, batch |-> a.batch] : a \in new}
  <1>1. req[r].s \in Sessions /\ req[r].in.source \in Sources
    BY DEF TypeOK, Ready, SubmitCommit, DrainSteps, SubmitBody
  <1>2. session' \in [Sessions -> SessionRow]
    <2> DEFINE s == req[r].s
               n == IF req[r].bump THEN session[s].violations + 1 ELSE session[s].violations
               rot == session[s].rotations + 1
               src == req[r].in.source
               row == [session[s] EXCEPT !.source = src, !.rotations = rot, !.violations = n]
    <2>1. n \in Nat /\ rot \in Nat /\ src \in Sources
      BY <1>1, RowNumbers
    <2>2. session' = [session EXCEPT ![s] = row]
      BY <1>1 DEF SubmitCommit, TypeOK
    <2>3. session[s] \in SessionRow
      BY <1>1 DEF TypeOK
    <2> HIDE DEF n, rot, src
    <2>4. row \in SessionRow
      BY <2>1, <2>3 DEF SessionRow
    <2> HIDE DEF row
    <2> QED BY <1>1, <2>2, <2>4, SessionWritten
  <1>3. new \subseteq Attempt /\ IsFiniteSet(new)
    BY NewAttemptsTyped DEF SubmitCommit
  <1>4. attempts' \subseteq Attempt /\ IsFiniteSet(attempts')
    BY <1>3, FS_Union DEF TypeOK, SubmitCommit
  <1>5. ids \subseteq AttemptRowIds
    BY <1>3 DEF AttemptRowIds, Attempt
  <1>6. answered' = answered \cup {[s |-> req[r].s, source |-> req[r].in.source, ids |-> ids]}
    BY DEF SubmitCommit
  <1> HIDE DEF ids
  <1>7. answered' \subseteq [s : Sessions, source : Sources, ids : SUBSET AttemptRowIds]
    BY <1>1, <1>5, <1>6 DEF TypeOK
  <1>8. lock' \in [Sessions -> Requests \cup {None}]
    BY LockReleased DEF SubmitCommit
  <1>9. req' \in [Requests -> Request] /\ \A x \in Requests : Ready(req'[x])
    BY RequestDone DEF SubmitCommit
  <1> QED BY <1>2, <1>4, <1>7, <1>8, <1>9 DEF SubmitCommit, TypeOK

LEMMA TypeSubmitRepeat ==
    ASSUME TypeOK, NEW r \in Requests, SubmitRepeat(r)
    PROVE  TypeOK'
  <1>1. req[r].s \in Sessions
    BY DEF TypeOK, Ready, SubmitRepeat
  <1>2. session[req[r].s].source \in Sources
    BY <1>1 DEF TypeOK, SessionRow, SubmitRepeat, Submitted
  <1>3. answered' \subseteq [s : Sessions, source : Sources, ids : SUBSET AttemptRowIds]
    BY <1>1, <1>2, AttemptIdsTyped DEF SubmitRepeat, RepeatAnswer, TypeOK
  <1>4. lock' \in [Sessions -> Requests \cup {None}]
    BY LockReleased DEF SubmitRepeat
  <1>5. req' \in [Requests -> Request] /\ \A x \in Requests : Ready(req'[x])
    BY RequestDone DEF SubmitRepeat
  <1> QED BY <1>3, <1>4, <1>5 DEF SubmitRepeat, db, TypeOK

LEMMA TypeEnd ==
    ASSUME TypeOK, NEW r \in Requests, HintRefuse(r) \/ LateEnd(r) \/ Abort(r)
    PROVE  TypeOK'
  <1>1. lock' \in [Sessions -> Requests \cup {None}]
    BY LockReleased DEF HintRefuse, LateEnd, Abort, TypeOK
  <1>2. req' \in [Requests -> Request] /\ \A x \in Requests : Ready(req'[x])
    BY RequestDone DEF HintRefuse, LateEnd, Abort
  <1> QED BY <1>1, <1>2 DEF HintRefuse, LateEnd, Abort, db, history, TypeOK

LEMMA TypeExpire ==
    ASSUME TypeOK, NEW s \in Sessions, Expire(s)
    PROVE  TypeOK'
  <1>1. session' \in [Sessions -> SessionRow]
    <2> DEFINE row == [session[s] EXCEPT !.expired = TRUE]
    <2>1. session' = [session EXCEPT ![s] = row]
      BY DEF Expire, TypeOK
    <2>2. session[s] \in SessionRow
      BY DEF TypeOK
    <2>3. row \in SessionRow
      BY <2>2 DEF SessionRow
    <2> QED BY <2>1, <2>3, SessionWritten
  <1> QED BY <1>1 DEF Expire, history, TypeOK

LEMMA TypeStep == TypeOK /\ [Next]_vars => TypeOK'
  <1> SUFFICES ASSUME TypeOK, [Next]_vars PROVE TypeOK'
    OBVIOUS
  <1>1. ASSUME NEW r \in Requests, NEW s \in Sessions, Arrive(r, s) PROVE TypeOK'
    BY <1>1, TypeArrive
  <1>2. ASSUME NEW r \in Requests, Proceed(r) PROVE TypeOK'
    BY <1>2, TypeHintCheck, TypeEnd, TypeViolationCommit, TypeSubmitRead, TypeSubmitCommit
    DEF Proceed
  <1>3. ASSUME NEW r \in Requests, Acquire(r) PROVE TypeOK'
    BY <1>3, TypePatchWrite, TypeHintWrite, TypeLateWrite, TypeViolationUpdate,
       TypeSubmitLock, TypeSubmitRepeat
    DEF Acquire
  <1>4. ASSUME NEW r \in Requests, NEW e \in Entry, LateEntry(r, e) PROVE TypeOK'
    BY <1>4, TypeLateEntry
  <1>5. ASSUME NEW r \in Requests, LateEnd(r) \/ Abort(r) PROVE TypeOK'
    BY <1>5, TypeEnd
  <1>6. ASSUME NEW s \in Sessions, Expire(s) PROVE TypeOK'
    BY <1>6, TypeExpire
  <1>7. CASE UNCHANGED vars
    BY <1>7 DEF vars, db, history, TypeOK
  <1> QED BY <1>1, <1>2, <1>3, <1>4, <1>5, <1>6, <1>7 DEF Next

(* Every reachable state is well typed: in particular every attempts row    *)
(* has a positive attempt_order and belongs to a slot of its session, and   *)
(* a handler never uses what it has not read.                               *)
THEOREM TypeCorrect == Spec => []TypeOK
  <1> QED BY TypeInit, TypeStep, PTL DEF Spec

-----------------------------------------------------------------------------
(* One drain per session *)

(* r is inside a transaction that has written or locked its session's row.  *)
Holding(r) == req[r].pc \in DrainSteps \/ req[r].bump

(* The row lock and the requests' places in their transactions agree, and a *)
(* transaction past the submitted_at check runs on a session still open.    *)
Locking ==
    /\ \A r \in Requests, s \in Sessions : lock[s] = r <=> req[r].s = s /\ Holding(r)
    /\ \A r \in Requests : Holding(r) => ~Submitted(req[r].s)

(* An uncommitted increment of violations_count stays below the threshold   *)
(* or is on its way to the auto-submit that commits it.                     *)
Counting ==
    \A r \in Requests :
       /\ req[r].pc = "violation_update" => /\ req[r].in.source = "VIOLATION_THRESHOLD"
                                            /\ ~req[r].bump
       /\ req[r].bump =>
             \/ /\ req[r].pc = "violation_commit"
                /\ session[req[r].s].violations + 1 < Threshold
             \/ /\ req[r].pc \in {"submit_lock"} \cup DrainSteps
                /\ req[r].in.source = "VIOLATION_THRESHOLD"

IInv == TypeOK /\ Locking /\ Counting /\ DrainedOnce /\ AnswersAgree /\ ThresholdSubmits

(* Parts of the invariant that depend only on the committed rows.           *)
Outcome == DrainedOnce /\ AnswersAgree /\ ThresholdSubmits

LEMMA InvInit == Init => IInv
  <1> SUFFICES ASSUME Init PROVE IInv
    OBVIOUS
  <1>1. TypeOK
    BY TypeInit
  <1>2. Locking /\ Counting
    BY DEF Init, Locking, Counting, Holding, Idle, DrainSteps
  <1>3. DrainedOnce /\ AnswersAgree
    BY DEF Init, DrainedOnce, AnswersAgree, Submitted
  <1>4. ThresholdSubmits
    BY ThresholdAssumption DEF Init, ThresholdSubmits
  <1> QED BY <1>1, <1>2, <1>3, <1>4 DEF IInv

(* A step that touches neither the session rows, the attempts nor the       *)
(* answers leaves the outcomes as they are.                                 *)
LEMMA OutcomeKept ==
    ASSUME Outcome, UNCHANGED <<session, attempts, answered>>
    PROVE  Outcome'
  BY DEF Outcome, DrainedOnce, AnswersAgree, ThresholdSubmits, Submitted, AttemptIds

(* A request outside any transaction may move anywhere outside one.         *)
LEMMA QuietStep ==
    ASSUME IInv, NEW r \in Requests, NEW q,
           ~Holding(r), req' = [req EXCEPT ![r] = q], ~q.bump, q.pc \notin DrainSteps,
           q.pc = "violation_update" => q.in.source = "VIOLATION_THRESHOLD",
           UNCHANGED <<session, lock>>
    PROVE  Locking' /\ Counting'
  <1>1. req'[r] = q /\ \A x \in Requests : x # r => req'[x] = req[x]
    BY DEF IInv, TypeOK
  <1>2. Locking'
    <2>1. \A x \in Requests : Holding(x)' <=> x # r /\ Holding(x)
      BY <1>1 DEF Holding
    <2>2. \A s \in Sessions : lock[s] # r
      BY DEF IInv, Locking
    <2> QED BY <1>1, <2>1, <2>2 DEF IInv, Locking, Submitted
  <1>3. Counting'
    BY <1>1 DEF IInv, Counting
  <1> QED BY <1>2, <1>3

LEMMA NotHolding ==
    ASSUME IInv, NEW r \in Requests,
           req[r].pc \in {"idle", "patch_write", "hint_check", "hint_write", "late_next",
                          "late_write", "violation_update"}
    PROVE  ~Holding(r)
  BY DEF IInv, Counting, Holding, DrainSteps

LEMMA InvArrive ==
    ASSUME IInv, NEW r \in Requests, NEW s \in Sessions, Arrive(r, s)
    PROVE  Locking' /\ Counting' /\ Outcome'
  <1>1. ASSUME NEW op, NEW q, Start(r, op, q), ~q.bump, q.pc \notin DrainSteps,
               q.pc = "violation_update" => q.in.source = "VIOLATION_THRESHOLD"
        PROVE  Locking' /\ Counting' /\ Outcome'
    <2>1. ~Holding(r)
      BY <1>1, NotHolding DEF Start
    <2>2. Locking' /\ Counting'
      BY <1>1, <2>1, QuietStep DEF Start, db
    <2>3. Outcome'
      BY <1>1, OutcomeKept DEF Start, db, history, IInv, Outcome
    <2> QED BY <2>2, <2>3
  <1>2. ASSUME NEW pc \in {"patch_write", "hint_check", "late_next", "submit_lock"}, NEW in
        PROVE  ~At(pc, s, in).bump /\ At(pc, s, in).pc \notin DrainSteps
               /\ At(pc, s, in).pc # "violation_update"
    BY DEF At, Idle, DrainSteps
  <1>3. CASE PatchBegin(r, s) \/ HintBegin(r, s) \/ LateBegin(r, s)
    BY <1>1, <1>2, <1>3 DEF PatchBegin, HintBegin, LateBegin
  <1>4. CASE \E src \in ClientSources : SubmitBegin(r, s, src)
    BY <1>1, <1>2, <1>4 DEF SubmitBegin
  <1>5. CASE ViolationBegin(r, s)
    <2> DEFINE q == [At("violation_update", s, [source |-> "VIOLATION_THRESHOLD"])
                        EXCEPT !.count = session[s].violations]
    <2>1. ~q.bump /\ q.pc \notin DrainSteps /\ q.in.source = "VIOLATION_THRESHOLD"
      BY DEF At, Idle, DrainSteps
    <2>2. Start(r, "violation", q)
      BY <1>5 DEF ViolationBegin
    <2> HIDE DEF q
    <2> QED BY <1>1, <2>1, <2>2
  <1> QED BY <1>3, <1>4, <1>5 DEF Arrive

(* patchSnapshot, getHint and lateSnapshots between two of their steps.     *)
LEMMA InvSnapshotStep ==
    ASSUME IInv, NEW r \in Requests,
           \/ \E h \in HintAsk : HintCheck(r, h)
           \/ \E p \in Patch : PatchWrite(r, p)
           \/ \E e \in Entry : LateEntry(r, e)
           \/ HintWrite(r) \/ HintRefuse(r) \/ LateWrite(r) \/ LateEnd(r)
    PROVE  Locking' /\ Counting' /\ Outcome'
  <1> DEFINE Moved(pc, in) == [req[r] EXCEPT !.pc = pc, !.in = in]
  <1>1. ~Holding(r)
    BY NotHolding DEF HintCheck, PatchWrite, LateEntry, HintWrite, HintRefuse, LateWrite, LateEnd
  <1>2. UNCHANGED <<session, attempts, lock, answered>>
    BY DEF HintCheck, PatchWrite, LateEntry, HintWrite, HintRefuse, LateWrite, LateEnd,
           db, history
  <1>3. \/ req' = [req EXCEPT ![r] = Idle]
        \/ \E pc \in {"hint_write", "late_next", "late_write"}, in \in HintAsk \cup Entry \cup {None} :
              req' = [req EXCEPT ![r] = Moved(pc, in)]
    BY DEF HintCheck, PatchWrite, LateEntry, HintWrite, HintRefuse, LateWrite, LateEnd,
           Done, IInv, TypeOK
  <1>4. ~Idle.bump /\ Idle.pc \notin DrainSteps /\ Idle.pc # "violation_update"
    BY DEF Idle, DrainSteps
  <1>5. ASSUME NEW pc \in {"hint_write", "late_next", "late_write"}, NEW in
        PROVE  ~Moved(pc, in).bump /\ Moved(pc, in).pc = pc
    BY <1>1 DEF Holding, IInv, TypeOK, Request
  <1> HIDE DEF Moved
  <1>6. Locking' /\ Counting'
    BY <1>1, <1>2, <1>3, <1>4, <1>5, QuietStep DEF DrainSteps
  <1>7. Outcome'
    BY <1>2, OutcomeKept DEF IInv, Outcome
  <1> QED BY <1>6, <1>7

LEMMA InvViolationUpdate ==
    ASSUME IInv, NEW r \in Requests, ViolationUpdate(r)
    PROVE  Locking' /\ Counting' /\ Outcome'
  <1> DEFINE s == req[r].s
             count == IF Submitted(s) THEN req[r].count ELSE session[s].violations + 1
             pc == IF count >= Threshold THEN "submit_lock" ELSE "violation_commit"
             q == [req[r] EXCEPT !.bump = ~Submitted(s), !.pc = pc]
  <1>1. s \in Sessions /\ req[r] \in Request /\ req[r].in.source = "VIOLATION_THRESHOLD"
    BY DEF IInv, TypeOK, Ready, Counting, ViolationUpdate
  <1>2. req' = [req EXCEPT ![r] = q] /\ UNCHANGED <<session, attempts, answered>>
    BY <1>1 DEF ViolationUpdate, IInv, TypeOK, db, history
  <1>3. ~Holding(r) /\ lock[s] = None /\ req[r].pc = "violation_update"
    BY NotHolding DEF ViolationUpdate
  <1>4. /\ q.s = s /\ q.in = req[r].in /\ q.pc = pc /\ q.bump = ~Submitted(s)
        /\ pc \in {"submit_lock", "violation_commit"}
        /\ ~Submitted(s) /\ pc = "violation_commit" => session[s].violations + 1 < Threshold
    <2>1. ~Submitted(s) /\ pc = "violation_commit" => session[s].violations + 1 < Threshold
      BY <1>1, RowNumbers, ThresholdAssumption DEF IInv
    <2>2. pc \in {"submit_lock", "violation_commit"}
      OBVIOUS
    <2> HIDE DEF pc
    <2> QED BY <1>1, <2>1, <2>2 DEF Request
  <1>5. Outcome'
    BY <1>2, OutcomeKept DEF IInv, Outcome
  <1> HIDE DEF q, pc
  <1>6. CASE Submitted(s)
    <2>1. lock' = lock
      BY <1>1, <1>3, <1>6 DEF ViolationUpdate, IInv, TypeOK
    <2>2. Locking' /\ Counting'
      BY <1>2, <1>3, <1>4, <1>6, <2>1, QuietStep DEF DrainSteps
    <2> QED BY <1>5, <2>2
  <1>7. CASE ~Submitted(s)
    <2>1. lock' = [lock EXCEPT ![s] = r]
      BY <1>7 DEF ViolationUpdate
    <2>2. req'[r] = q /\ \A x \in Requests : x # r => req'[x] = req[x]
      BY <1>2 DEF IInv, TypeOK
    <2>3. \A x \in Requests : Holding(x)' <=> x = r \/ Holding(x)
      BY <1>4, <1>7, <2>2 DEF Holding
    <2>4. Locking'
      <3>1. ASSUME NEW x \in Requests, NEW t \in Sessions
            PROVE  lock'[t] = x <=> req'[x].s = t /\ Holding(x)'
        BY <1>1, <1>3, <1>4, <2>1, <2>2, <2>3 DEF IInv, TypeOK, Locking
      <3>2. \A x \in Requests : Holding(x)' => ~Submitted(req'[x].s)
        BY <1>4, <1>7, <2>2, <2>3 DEF IInv, Locking
      <3>3. \A x \in Requests : Holding(x)' => ~Submitted(req[x].s)'
        BY <1>2, <3>2 DEF Submitted
      <3> QED BY <3>1, <3>3 DEF Locking
    <2>5. Counting'
      BY <1>1, <1>2, <1>4, <1>7, <2>2 DEF IInv, Counting
    <2> QED BY <1>5, <2>4, <2>5
  <1> QED BY <1>6, <1>7

LEMMA InvSubmitLock ==
    ASSUME IInv, NEW r \in Requests, SubmitLock(r)
    PROVE  Locking' /\ Counting' /\ Outcome'
  <1> DEFINE s == req[r].s
             q == [req[r] EXCEPT !.pc = "submit_read"]
  <1>1. s \in Sessions /\ req[r] \in Request /\ lock[s] \in {None, r} /\ ~Submitted(s)
    BY DEF IInv, TypeOK, Ready, SubmitLock
  <1>2. /\ req' = [req EXCEPT ![r] = q] /\ lock' = [lock EXCEPT ![s] = r]
        /\ UNCHANGED <<session, attempts, answered>>
    BY <1>1 DEF SubmitLock, Goto, IInv, TypeOK, db
  <1>3. q.pc = "submit_read" /\ q.s = s /\ q.bump = req[r].bump /\ q.in = req[r].in
    BY <1>1 DEF Request
  <1>4. req'[r] = q /\ \A x \in Requests : x # r => req'[x] = req[x]
    BY <1>2 DEF IInv, TypeOK
  <1> HIDE DEF q
  <1>5. \A x \in Requests : Holding(x)' <=> x = r \/ Holding(x)
    BY <1>3, <1>4 DEF Holding, DrainSteps
  <1>6. Locking'
    <2>1. ASSUME NEW x \in Requests, NEW t \in Sessions
          PROVE  lock'[t] = x <=> req'[x].s = t /\ Holding(x)'
      <3>1. CASE t = s
        BY <1>1, <1>2, <1>3, <1>4, <1>5, <3>1 DEF IInv, TypeOK, Locking
      <3>2. CASE t # s
        BY <1>1, <1>2, <1>3, <1>4, <1>5, <3>2 DEF IInv, TypeOK, Locking
      <3> QED BY <3>1, <3>2
    <2>2. \A x \in Requests : Holding(x)' => ~Submitted(req[x].s)'
      BY <1>1, <1>2, <1>3, <1>4, <1>5 DEF IInv, Locking, Submitted
    <2> QED BY <2>1, <2>2 DEF Locking
  <1>7. Counting'
    BY <1>2, <1>3, <1>4 DEF IInv, Counting, DrainSteps, SubmitLock
  <1>8. Outcome'
    BY <1>2, OutcomeKept DEF IInv, Outcome
  <1> QED BY <1>6, <1>7, <1>8

LEMMA InvSubmitRead ==
    ASSUME IInv, NEW r \in Requests, SubmitRead(r) \/ SubmitCount(r)
    PROVE  Locking' /\ Counting' /\ Outcome'
  <1>1. /\ req[r] \in Request /\ req[r].pc \in DrainSteps
        /\ UNCHANGED <<session, attempts, answered, lock>>
    BY DEF IInv, TypeOK, SubmitRead, SubmitCount, DrainSteps, db, history
  <1>2. /\ req'[r].pc \in {"submit_count", "submit_commit"}
        /\ req'[r].s = req[r].s /\ req'[r].bump = req[r].bump /\ req'[r].in = req[r].in
        /\ \A x \in Requests : x # r => req'[x] = req[x]
    BY <1>1 DEF IInv, TypeOK, Request, SubmitRead, SubmitCount
  <1>3. \A x \in Requests : Holding(x)' <=> Holding(x)
    BY <1>1, <1>2 DEF Holding, DrainSteps
  <1>4. \A x \in Requests : req'[x].s = req[x].s
    BY <1>2
  <1>5. Locking'
    BY <1>1, <1>3, <1>4 DEF IInv, Locking, Submitted
  <1>6. Counting'
    BY <1>1, <1>2 DEF IInv, Counting, DrainSteps
  <1>7. Outcome'
    BY <1>1, OutcomeKept DEF IInv, Outcome
  <1> QED BY <1>5, <1>6, <1>7

(* The end of a request: commit or rollback.  It may write the row of the   *)
(* session it holds, and no other.                                          *)
LEMMA EndStep ==
    ASSUME IInv, NEW r \in Requests, Release(r), Done(r),
           \A x \in Requests \ {r} : Holding(x) => session'[req[x].s] = session[req[x].s]
    PROVE  Locking' /\ Counting'
  <1>1. req'[r] = Idle /\ \A x \in Requests : x # r => req'[x] = req[x]
    BY DEF IInv, TypeOK, Done
  <1>2. ~Idle.bump /\ Idle.pc = "idle"
    BY DEF Idle
  <1>3. \A x \in Requests : Holding(x)' <=> x # r /\ Holding(x)
    BY <1>1, <1>2 DEF Holding, DrainSteps
  <1>4. ASSUME NEW x \in Requests, NEW t \in Sessions
        PROVE  lock'[t] = x <=> req'[x].s = t /\ Holding(x)'
    <2>1. lock'[t] = IF lock[t] = r THEN None ELSE lock[t]
      BY DEF Release
    <2> QED BY <1>1, <1>3, <2>1 DEF IInv, Locking
  <1>5. \A x \in Requests : Holding(x)' => ~Submitted(req[x].s)'
    BY <1>1, <1>3 DEF IInv, Locking, Submitted
  <1>6. Locking'
    BY <1>4, <1>5 DEF Locking
  <1>7. Counting'
    BY <1>1, <1>2 DEF IInv, Counting, Holding
  <1> QED BY <1>6, <1>7

(* Only one request at a time is in a transaction on a session's row.       *)
LEMMA OneHolder ==
    ASSUME IInv, NEW r \in Requests, NEW x \in Requests, Holding(r), Holding(x),
           req[r].s = req[x].s
    PROVE  r = x
  BY DEF IInv, TypeOK, Locking, Ready, Holding, Counting, DrainSteps

LEMMA InvAbort ==
    ASSUME IInv, NEW r \in Requests, Abort(r)
    PROVE  Locking' /\ Counting' /\ Outcome'
  <1>1. Locking' /\ Counting'
    BY EndStep DEF Abort, db
  <1>2. Outcome'
    BY OutcomeKept DEF Abort, db, history, IInv, Outcome
  <1> QED BY <1>1, <1>2

(* A repeated submit returns what is there.                                 *)
LEMMA InvSubmitRepeat ==
    ASSUME IInv, NEW r \in Requests, SubmitRepeat(r)
    PROVE  Locking' /\ Counting' /\ Outcome'
  <1>1. Locking' /\ Counting'
    BY EndStep DEF SubmitRepeat, db
  <1>2. UNCHANGED <<session, attempts>>
    BY DEF SubmitRepeat, db
  <1>3. DrainedOnce' /\ ThresholdSubmits'
    BY <1>2 DEF IInv, DrainedOnce, ThresholdSubmits, Submitted
  <1>4. AnswersAgree'
    <2>1. answered' = answered \cup {RepeatAnswer(r)} /\ Submitted(req[r].s)
      BY DEF SubmitRepeat
    <2> QED BY <1>2, <2>1 DEF IInv, AnswersAgree, RepeatAnswer, Submitted, AttemptIds
  <1> QED BY <1>1, <1>3, <1>4 DEF Outcome

LEMMA InvViolationCommit ==
    ASSUME IInv, NEW r \in Requests, ViolationCommit(r)
    PROVE  Locking' /\ Counting' /\ Outcome'
  <1> DEFINE s == req[r].s
             n == IF req[r].bump THEN session[s].violations + 1 ELSE session[s].violations
  <1>1. s \in Sessions /\ session[s] \in SessionRow
    BY DEF IInv, TypeOK, Ready, ViolationCommit
  <1>2. session' = [session EXCEPT ![s].violations = n]
    BY <1>1 DEF ViolationCommit
  <1>3. /\ \A t \in Sessions : t # s => session'[t] = session[t]
        /\ session'[s].violations = n /\ session'[s].source = session[s].source
        /\ session'[s].rotations = session[s].rotations
        /\ ~req[r].bump => session' = session
    <2> HIDE DEF n
    <2>1. /\ \A t \in Sessions : t # s => session'[t] = session[t]
          /\ session'[s].violations = n /\ session'[s].source = session[s].source
          /\ session'[s].rotations = session[s].rotations
      BY <1>1, <1>2 DEF IInv, TypeOK, SessionRow
    <2>2. ~req[r].bump => session' = session
      BY <1>1, <1>2 DEF n, IInv, TypeOK, SessionRow
    <2> QED BY <2>1, <2>2
  <1> HIDE DEF n
  <1>4. Locking' /\ Counting'
    <2>1. ASSUME NEW x \in Requests \ {r}, Holding(x)
          PROVE  session'[req[x].s] = session[req[x].s]
      <3>1. req[x].s \in Sessions
        BY <2>1 DEF IInv, TypeOK, Ready, Holding, Counting, DrainSteps
      <3>2. CASE req[r].bump
        BY <1>3, <2>1, <3>1, <3>2, OneHolder DEF Holding
      <3>3. CASE ~req[r].bump
        BY <1>3, <3>3
      <3> QED BY <3>2, <3>3
    <2> QED BY <2>1, EndStep DEF ViolationCommit
  <1>5. UNCHANGED <<attempts, answered>> /\ \A t \in Sessions : Submitted(t)' <=> Submitted(t)
    BY <1>3 DEF ViolationCommit, history, Submitted
  <1>6. \A t \in Sessions : /\ session'[t].source = session[t].source
                            /\ session'[t].rotations = session[t].rotations
    BY <1>3
  <1>7. DrainedOnce'
    BY <1>5, <1>6 DEF IInv, TypeOK, Attempt, DrainedOnce
  <1>8. AnswersAgree'
    BY <1>5, <1>6 DEF IInv, TypeOK, AnswersAgree, AttemptIds
  <1>9. ThresholdSubmits'
    <2>1. req[r].bump => session[s].violations + 1 < Threshold
      BY DEF IInv, Counting, ViolationCommit, DrainSteps
    <2>2. CASE req[r].bump
      <3>1. n = session[s].violations + 1 /\ session[s].violations \in Nat
        BY <1>1, <2>2, RowNumbers DEF n, IInv
      <3> QED BY <1>1, <1>3, <2>1, <2>2, <3>1, ThresholdAssumption DEF IInv, ThresholdSubmits
    <2>3. CASE ~req[r].bump
      BY <1>3, <2>3 DEF IInv, ThresholdSubmits
    <2> QED BY <2>2, <2>3
  <1> QED BY <1>4, <1>7, <1>8, <1>9 DEF Outcome

(* The commit of a drain: what it writes to the session's row.              *)
LEMMA CommitWrites ==
    ASSUME IInv, NEW r \in Requests, SubmitCommit(r)
    PROVE  LET s == req[r].s IN
           /\ s \in Sessions /\ ~Submitted(s) /\ Holding(r)
           /\ req[r].in.source \in Sources
           /\ session'[s].source = req[r].in.source
           /\ session[s].rotations = 0 /\ session'[s].rotations = 1
           /\ session'[s].violations = IF req[r].bump THEN session[s].violations + 1
                                                      ELSE session[s].violations
           /\ \A t \in Sessions : t # s => session'[t] = session[t]
  <1> DEFINE s == req[r].s
             n == IF req[r].bump THEN session[s].violations + 1 ELSE session[s].violations
  <1>1. s \in Sessions /\ req[r].in.source \in Sources /\ Holding(r)
    BY DEF IInv, TypeOK, Ready, SubmitBody, SubmitCommit, Holding, DrainSteps
  <1>2. ~Submitted(s)
    BY <1>1 DEF IInv, Locking
  <1>3. session[s] \in SessionRow /\ session[s].rotations = 0
    BY <1>1, <1>2 DEF IInv, TypeOK, DrainedOnce
  <1>4. session' = [session EXCEPT ![s].source = req[r].in.source, ![s].rotations = 0 + 1,
                                   ![s].violations = n]
    BY <1>1, <1>3 DEF SubmitCommit, IInv, TypeOK, SessionRow
  <1> HIDE DEF n
  <1>5. /\ session'[s].source = req[r].in.source /\ session'[s].rotations = 1
        /\ session'[s].violations = n /\ \A t \in Sessions : t # s => session'[t] = session[t]
    BY <1>1, <1>3, <1>4 DEF IInv, TypeOK, SessionRow
  <1> QED BY <1>1, <1>2, <1>3, <1>5 DEF n

(* The attempts a drain adds, and that its session had none before.         *)
LEMMA CommitAdds ==
    ASSUME IInv, NEW r \in Requests, SubmitCommit(r)
    PROVE  /\ attempts' = attempts \cup NewAttempts(r)
           /\ \A a \in NewAttempts(r) : a.s = req[r].s /\ a.batch = 1
                                        /\ a.source = req[r].in.source
           /\ \A a \in attempts : a.s # req[r].s
           /\ NewAttempts(r) \subseteq Attempt
  <1>1. session[req[r].s].rotations = 0 /\ ~Submitted(req[r].s)
    BY CommitWrites
  <1>2. attempts' = attempts \cup NewAttempts(r) /\ NewAttempts(r) \subseteq Attempt
    BY NewAttemptsTyped DEF SubmitCommit, IInv
  <1>3. \A a \in NewAttempts(r) : a.s = req[r].s /\ a.batch = 1 /\ a.source = req[r].in.source
    BY <1>1 DEF NewAttempts
  <1>4. \A a \in attempts : a.s # req[r].s
    BY <1>1 DEF IInv, TypeOK, Attempt, DrainedOnce, Submitted
  <1> QED BY <1>2, <1>3, <1>4

LEMMA InvSubmitCommit ==
    ASSUME IInv, NEW r \in Requests, SubmitCommit(r)
    PROVE  Locking' /\ Counting' /\ Outcome'
  <1> DEFINE s == req[r].s
             src == req[r].in.source
             new == NewAttempts(r)
             ids == {[slot |-> a.slot, batch |-> a.batch] : a \in new}
  <1>1. /\ s \in Sessions /\ ~Submitted(s) /\ Holding(r) /\ src \in Sources
        /\ session'[s].source = src /\ session'[s].rotations = 1
        /\ session'[s].violations = IF req[r].bump THEN session[s].violations + 1
                                                   ELSE session[s].violations
        /\ \A t \in Sessions : t # s => session'[t] = session[t]
    BY CommitWrites
  <1>2. /\ attempts' = attempts \cup new /\ new \subseteq Attempt
        /\ \A a \in new : a.s = s /\ a.batch = 1 /\ a.source = src
        /\ \A a \in attempts : a.s # s
    BY CommitAdds
  <1>3. answered' = answered \cup {[s |-> s, source |-> src, ids |-> ids]}
    BY DEF SubmitCommit
  <1> HIDE DEF new, ids
  <1>4. Locking' /\ Counting'
    <2>1. ASSUME NEW x \in Requests \ {r}, Holding(x)
          PROVE  session'[req[x].s] = session[req[x].s]
      <3>1. req[x].s \in Sessions
        BY <2>1 DEF IInv, TypeOK, Ready, Holding, Counting, DrainSteps
      <3> QED BY <1>1, <2>1, <3>1, OneHolder
    <2> QED BY <2>1, EndStep DEF SubmitCommit
  <1>5. \A t \in Sessions : Submitted(t)' <=> t = s \/ Submitted(t)
    <2>1. src # None
      BY <1>1
    <2> QED BY <1>1, <2>1 DEF Submitted
  <1>6. DrainedOnce'
    <2>1. \A t \in Sessions : session'[t].rotations = IF Submitted(t)' THEN 1 ELSE 0
      <3>1. ASSUME NEW t \in Sessions
            PROVE  session'[t].rotations = IF Submitted(t)' THEN 1 ELSE 0
        BY <1>1, <1>5 DEF IInv, DrainedOnce
      <3> QED BY <3>1
    <2>2. \A a \in attempts' : a.batch = 1 /\ a.source = session'[a.s].source
      BY <1>1, <1>2 DEF IInv, TypeOK, Attempt, DrainedOnce
    <2> QED BY <2>1, <2>2 DEF DrainedOnce
  <1>7. AnswersAgree'
    <2>1. \A t \in Sessions : t # s => AttemptIds(t)' = AttemptIds(t)
      BY <1>2 DEF AttemptIds
    <2>2. \A t \in Sessions : t = s => AttemptIds(t)' = ids
      <3>1. \A t \in Sessions : t = s => {b \in attempts' : b.s = t} = new
        BY <1>2
      <3> QED BY <3>1 DEF AttemptIds, ids
    <2>3. \A k \in answered : k.s \in Sessions /\ k.s # s
      BY <1>1 DEF IInv, TypeOK, AnswersAgree
    <2>4. ASSUME NEW k \in answered'
          PROVE  Submitted(k.s)' /\ k.source = session'[k.s].source /\ k.ids = AttemptIds(k.s)'
      <3>1. CASE k \in answered
        BY <1>1, <1>5, <2>1, <2>3, <3>1 DEF IInv, AnswersAgree
      <3>2. CASE k = [s |-> s, source |-> src, ids |-> ids]
        <4>1. k.s = s /\ k.source = src /\ k.ids = ids
          BY <3>2
        <4> HIDE DEF s, src
        <4> QED BY <1>1, <1>5, <2>2, <4>1
      <3> QED BY <1>3, <2>4, <3>1, <3>2
    <2> QED BY <2>4 DEF AnswersAgree
  <1>8. ThresholdSubmits'
    <2>1. session[s].violations \in Nat /\ session[s].violations < Threshold
      BY <1>1, RowNumbers, ThresholdAssumption DEF IInv, ThresholdSubmits, Submitted, Sources
    <2>2. req[r].bump => src = "VIOLATION_THRESHOLD"
      BY DEF IInv, Counting, SubmitCommit
    <2>3. CASE req[r].bump
      BY <1>1, <2>1, <2>2, <2>3, ThresholdAssumption DEF IInv, ThresholdSubmits
    <2>4. CASE ~req[r].bump
      BY <1>1, <2>1, <2>4, ThresholdAssumption DEF IInv, ThresholdSubmits
    <2> QED BY <2>3, <2>4
  <1> QED BY <1>4, <1>6, <1>7, <1>8 DEF Outcome

LEMMA InvExpire ==
    ASSUME IInv, NEW s \in Sessions, Expire(s)
    PROVE  Locking' /\ Counting' /\ Outcome'
  <1>1. session' = [session EXCEPT ![s].expired = TRUE]
    BY DEF Expire
  <1>2. \A t \in Sessions : /\ session'[t].source = session[t].source
                            /\ session'[t].rotations = session[t].rotations
                            /\ session'[t].violations = session[t].violations
    <2>1. session \in [Sessions -> SessionRow]
      BY DEF IInv, TypeOK
    <2> QED BY <1>1, <2>1 DEF SessionRow
  <1>3. UNCHANGED <<attempts, lock, req, answered>>
    BY DEF Expire, history
  <1>4. \A x \in Requests : Holding(x) => req[x].s \in Sessions
    BY DEF IInv, TypeOK, Ready, Holding, Counting, DrainSteps
  <1>5. Locking'
    BY <1>2, <1>3, <1>4 DEF IInv, Locking, Holding, Submitted
  <1>6. Counting'
    BY <1>2, <1>3, <1>4 DEF IInv, Counting, Holding
  <1>7. DrainedOnce'
    BY <1>2, <1>3 DEF IInv, TypeOK, Attempt, DrainedOnce, Submitted
  <1>8. AnswersAgree'
    BY <1>2, <1>3 DEF IInv, TypeOK, AnswersAgree, AttemptIds, Submitted
  <1>9. ThresholdSubmits'
    BY <1>2 DEF IInv, ThresholdSubmits
  <1> QED BY <1>5, <1>6, <1>7, <1>8, <1>9 DEF Outcome

LEMMA InvStep == IInv /\ [Next]_vars => IInv'
  <1> SUFFICES ASSUME IInv, [Next]_vars PROVE IInv'
    OBVIOUS
  <1>1. TypeOK'
    BY TypeStep DEF IInv
  <1>2. Locking' /\ Counting' /\ Outcome'
    <2>1. ASSUME NEW r \in Requests, NEW s \in Sessions, Arrive(r, s)
          PROVE  Locking' /\ Counting' /\ Outcome'
      BY <2>1, InvArrive
    <2>2. ASSUME NEW r \in Requests, Proceed(r)
          PROVE  Locking' /\ Counting' /\ Outcome'
      BY <2>2, InvSnapshotStep, InvViolationCommit, InvSubmitRead, InvSubmitCommit DEF Proceed
    <2>3. ASSUME NEW r \in Requests, Acquire(r)
          PROVE  Locking' /\ Counting' /\ Outcome'
      BY <2>3, InvSnapshotStep, InvViolationUpdate, InvSubmitLock, InvSubmitRepeat DEF Acquire
    <2>4. ASSUME NEW r \in Requests, (\E e \in Entry : LateEntry(r, e)) \/ LateEnd(r)
          PROVE  Locking' /\ Counting' /\ Outcome'
      BY <2>4, InvSnapshotStep
    <2>5. ASSUME NEW r \in Requests, Abort(r) PROVE Locking' /\ Counting' /\ Outcome'
      BY <2>5, InvAbort
    <2>6. ASSUME NEW s \in Sessions, Expire(s) PROVE Locking' /\ Counting' /\ Outcome'
      BY <2>6, InvExpire
    <2>7. CASE UNCHANGED vars
      <3>1. Outcome'
        BY <2>7, OutcomeKept DEF vars, db, history, IInv, Outcome
      <3>2. Locking' /\ Counting'
        BY <2>7 DEF vars, db, IInv, Locking, Counting, Holding, Submitted
      <3> QED BY <3>1, <3>2
    <2> QED BY <2>1, <2>2, <2>3, <2>4, <2>5, <2>6, <2>7 DEF Next
  <1> QED BY <1>1, <1>2 DEF IInv, Outcome

THEOREM Invariant == Spec => []IInv
  <1> QED BY InvInit, InvStep, PTL DEF Spec

(* A session is drained into attempts at most once, however many submits    *)
(* and violations race and whichever of them die.                           *)
THEOREM DrainedOnceHolds == Spec => []DrainedOnce
  <1>1. IInv => DrainedOnce
    BY DEF IInv
  <1> QED BY <1>1, Invariant, PTL

(* Every answer to a submit reports the one outcome of its session.         *)
THEOREM AnswersAgreeHolds == Spec => []AnswersAgree
  <1>1. IInv => AnswersAgree
    BY DEF IInv
  <1> QED BY <1>1, Invariant, PTL

(* No interleaving leaves a session at the violation threshold and open, or *)
(* submitted for another reason.                                            *)
THEOREM ThresholdSubmitsHolds == Spec => []ThresholdSubmits
  <1>1. IInv => ThresholdSubmits
    BY DEF IInv
  <1> QED BY <1>1, Invariant, PTL

-----------------------------------------------------------------------------
(* Attempts are final *)

(* Only the commit of a drain writes attempts.                              *)
LEMMA AttemptsKept ==
    ASSUME [Next]_vars, \A r \in Requests : ~SubmitCommit(r)
    PROVE  UNCHANGED attempts
  <1>1. ASSUME NEW r \in Requests, NEW s \in Sessions, Arrive(r, s) PROVE UNCHANGED attempts
    BY <1>1 DEF Arrive, PatchBegin, HintBegin, ViolationBegin, SubmitBegin, LateBegin, Start, db
  <1>2. ASSUME NEW r \in Requests, Proceed(r) PROVE UNCHANGED attempts
    BY <1>2 DEF Proceed, HintCheck, HintRefuse, ViolationCommit, SubmitRead, SubmitCount, db
  <1>3. ASSUME NEW r \in Requests, Acquire(r) PROVE UNCHANGED attempts
    BY <1>3 DEF Acquire, PatchWrite, HintWrite, LateWrite, ViolationUpdate, SubmitLock,
                SubmitRepeat, db
  <1>4. ASSUME NEW r \in Requests, NEW e \in Entry, LateEntry(r, e) PROVE UNCHANGED attempts
    BY <1>4 DEF LateEntry, db
  <1>5. ASSUME NEW r \in Requests, LateEnd(r) \/ Abort(r) PROVE UNCHANGED attempts
    BY <1>5 DEF LateEnd, Abort, db
  <1>6. ASSUME NEW s \in Sessions, Expire(s) PROVE UNCHANGED attempts
    BY <1>6 DEF Expire
  <1>7. CASE UNCHANGED vars
    BY <1>7 DEF vars, db
  <1> QED BY <1>1, <1>2, <1>3, <1>4, <1>5, <1>6, <1>7 DEF Next

(* After its submit a session's attempts never change and none is added.    *)
THEOREM AttemptsFrozenHolds == Spec => AttemptsFrozen
  <1> DEFINE Frozen == /\ attempts \subseteq attempts'
                       /\ \A a \in attempts' \ attempts : ~Submitted(a.s)
  <1>1. IInv /\ [Next]_vars => [Frozen]_vars
    <2> SUFFICES ASSUME IInv, [Next]_vars PROVE Frozen
      OBVIOUS
    <2>1. CASE \E r \in Requests : SubmitCommit(r)
      <3>1. PICK r \in Requests : SubmitCommit(r)
        BY <2>1
      <3>2. ~Submitted(req[r].s)
        BY <3>1, CommitWrites
      <3> QED BY <3>1, <3>2, CommitAdds
    <2>2. CASE \A r \in Requests : ~SubmitCommit(r)
      BY <2>2, AttemptsKept
    <2> QED BY <2>1, <2>2
  <1> QED BY <1>1, Invariant, PTL DEF Spec, AttemptsFrozen

-----------------------------------------------------------------------------
(* The handlers implement SubmitOnce *)

(* The outcomes are made of the rows' sources and of the attempts.          *)
LEMMA PromiseKept ==
    ASSUME UNCHANGED <<attempts, answered>>,
           \A s \in Sessions : session'[s].source = session[s].source
    PROVE  UNCHANGED Promise!vars
  BY DEF Promise!vars, Submitted, AttemptIds

LEMMA PromiseDecided ==
    ASSUME IInv, NEW r \in Requests, SubmitCommit(r)
    PROVE  Promise!Next
  <1> DEFINE src == req[r].in.source
             new == NewAttempts(r)
             ids == {[slot |-> a.slot, batch |-> a.batch] : a \in new}
             Out(s) == IF Submitted(s) THEN [source |-> session[s].source, ids |-> AttemptIds(s)]
                                       ELSE None
             out == [s \in Sessions |-> Out(s)]
  <1>1. PICK s \in Sessions : s = req[r].s
    BY CommitWrites
  <1>2. /\ ~Submitted(s) /\ src \in Sources /\ session'[s].source = src
        /\ \A t \in Sessions : t # s => session'[t] = session[t]
    BY <1>1, CommitWrites
  <1>3. /\ attempts' = attempts \cup new /\ new \subseteq Attempt
        /\ \A a \in new : a.s = s
        /\ \A a \in attempts : a.s # s
    BY <1>1, CommitAdds
  <1>4. answered' = answered \cup {[s |-> s, source |-> src, ids |-> ids]}
    BY <1>1 DEF SubmitCommit
  <1>5. ids \in SUBSET AttemptRowIds
    BY <1>3 DEF Attempt, AttemptRowIds
  <1>6. AttemptIds(s)' = ids
    <2>1. {b \in attempts' : b.s = s} = new
      BY <1>3
    <2> QED BY <2>1 DEF AttemptIds
  <1> HIDE DEF new, ids, src
  <1>7. Out(s)' = [source |-> src, ids |-> ids] /\ Out(s) = None
    BY <1>2, <1>6 DEF Submitted
  <1>8. ASSUME NEW t \in Sessions, t # s
        PROVE  Out(t)' = Out(t)
    <2>1. AttemptIds(t)' = AttemptIds(t)
      BY <1>3, <1>8 DEF AttemptIds
    <2> QED BY <1>2, <1>8, <2>1 DEF Submitted
  <1> HIDE DEF Out
  <1>9. out' = [out EXCEPT ![s] = out'[s]]
    BY <1>8
  <1>10. out[s] = None /\ out'[s] = [source |-> src, ids |-> ids]
    BY <1>7
  <1>11. out'[s] \in [source : Sources, ids : SUBSET AttemptRowIds]
    BY <1>2, <1>5, <1>10
  <1>12. answered' = answered \cup {[s |-> s, source |-> out'[s].source, ids |-> out'[s].ids]}
    BY <1>4, <1>10
  <1>13. Promise!Decide(s)
    BY <1>9, <1>10, <1>11, <1>12 DEF Promise!Decide, Promise!Outcomes, Promise!Answer, out, Out
  <1> QED BY <1>13 DEF Promise!Next

LEMMA PromiseRepeated ==
    ASSUME IInv, NEW r \in Requests, SubmitRepeat(r)
    PROVE  Promise!Next
  <1>1. PICK s \in Sessions : s = req[r].s
    BY DEF IInv, TypeOK, Ready, SubmitRepeat
  <1>2. /\ Submitted(s) /\ UNCHANGED <<session, attempts>>
        /\ answered' = answered \cup
              {[s |-> s, source |-> session[s].source, ids |-> AttemptIds(s)]}
    BY <1>1 DEF SubmitRepeat, RepeatAnswer, db
  <1>3. [source |-> session[s].source, ids |-> AttemptIds(s)] # None
    BY <1>2, AttemptIdsTyped, OutcomeAssumption DEF IInv, TypeOK, SessionRow, Submitted
  <1>4. AttemptIds(s)' = AttemptIds(s)
    BY <1>2 DEF AttemptIds
  <1>5. Promise!Repeat(s)
    BY <1>2, <1>3, <1>4 DEF Promise!Repeat, Promise!Answer, Submitted, AttemptIds
  <1> QED BY <1>5 DEF Promise!Next

(* Steps that answer nobody.                                                *)
LEMMA PromiseStutters ==
    ASSUME IInv, [Next]_vars, \A r \in Requests : ~SubmitCommit(r) /\ ~SubmitRepeat(r)
    PROVE  UNCHANGED Promise!vars
  <1>1. UNCHANGED attempts
    BY AttemptsKept
  <1>2. /\ UNCHANGED answered
        /\ \/ UNCHANGED session
           \/ \E s \in Sessions : Expire(s)
           \/ \E r \in Requests : ViolationCommit(r)
    <2>1. ASSUME NEW r \in Requests, NEW s \in Sessions, Arrive(r, s)
          PROVE  UNCHANGED <<answered, session>>
      BY <2>1 DEF Arrive, PatchBegin, HintBegin, ViolationBegin, SubmitBegin, LateBegin, Start,
                  db, history
    <2>2. ASSUME NEW r \in Requests, Proceed(r)
          PROVE  UNCHANGED answered /\ (UNCHANGED session \/ ViolationCommit(r))
      BY <2>2 DEF Proceed, HintCheck, HintRefuse, ViolationCommit, SubmitRead, SubmitCount,
                  db, history
    <2>3. ASSUME NEW r \in Requests, Acquire(r) PROVE UNCHANGED <<answered, session>>
      BY <2>3 DEF Acquire, PatchWrite, HintWrite, LateWrite, ViolationUpdate, SubmitLock,
                  db, history
    <2>4. ASSUME NEW r \in Requests, NEW e \in Entry, LateEntry(r, e)
          PROVE  UNCHANGED <<answered, session>>
      BY <2>4 DEF LateEntry, db, history
    <2>5. ASSUME NEW r \in Requests, LateEnd(r) \/ Abort(r) PROVE UNCHANGED <<answered, session>>
      BY <2>5 DEF LateEnd, Abort, db, history
    <2>6. ASSUME NEW s \in Sessions, Expire(s) PROVE UNCHANGED answered
      BY <2>6 DEF Expire, history
    <2>7. CASE UNCHANGED vars
      BY <2>7 DEF vars, db, history
    <2> QED BY <2>1, <2>2, <2>3, <2>4, <2>5, <2>6, <2>7 DEF Next
  <1>3. session \in [Sessions -> SessionRow]
    BY DEF IInv, TypeOK
  <1>4. ASSUME NEW t \in Sessions PROVE session'[t].source = session[t].source
    <2>1. CASE \E s \in Sessions : Expire(s)
      BY <1>3, <2>1 DEF Expire, SessionRow
    <2>2. CASE \E r \in Requests : ViolationCommit(r)
      <3>1. PICK r \in Requests : ViolationCommit(r)
        BY <2>2
      <3> DEFINE n == IF req[r].bump THEN session[req[r].s].violations + 1
                                     ELSE session[req[r].s].violations
      <3>2. session' = [session EXCEPT ![req[r].s].violations = n] /\ req[r].s \in Sessions
        BY <3>1 DEF ViolationCommit, IInv, TypeOK, Ready, SessionRow
      <3> HIDE DEF n
      <3> QED BY <1>3, <3>2 DEF SessionRow
    <2> QED BY <1>2, <2>1, <2>2
  <1> QED BY <1>1, <1>2, <1>4, PromiseKept

(* The handlers of the service implement the promise of POST /submit: an    *)
(* outcome decided once, and reported to every submit from then on.         *)
THEOREM Implementation == Spec => ImplementsSubmitOnce
  <1>1. Init => Promise!Init
    BY DEF Init, Promise!Init, Submitted
  <1>2. IInv /\ [Next]_vars => [Promise!Next]_(Promise!vars)
    <2> SUFFICES ASSUME IInv, [Next]_vars PROVE Promise!Next \/ UNCHANGED Promise!vars
      OBVIOUS
    <2>1. CASE \E r \in Requests : SubmitCommit(r)
      BY <2>1, PromiseDecided
    <2>2. CASE \E r \in Requests : SubmitRepeat(r)
      BY <2>2, PromiseRepeated
    <2>3. CASE \A r \in Requests : ~SubmitCommit(r) /\ ~SubmitRepeat(r)
      BY <2>3, PromiseStutters
    <2> QED BY <2>1, <2>2, <2>3
  <1> QED BY <1>1, <1>2, Invariant, PTL DEF Spec, ImplementsSubmitOnce, Promise!Spec
=============================================================================
