----------------------- MODULE SessionSnapshots_proofs -----------------------
(***************************************************************************)
(* More about TestSessions, from the invariant of TestSessions_proofs: the *)
(* snapshots of a session are the latest answers and the hints paid for,   *)
(* and a drain grades them, each under a number of its own.                *)
(* Between sessions the numbers differ unless two drains overlap.          *)
(***************************************************************************)
EXTENDS TestSessions_proofs

USE SessionsAssumption, SourcesAssumption, RowAssumption

-----------------------------------------------------------------------------
(* The statements that write a snapshot *)

Payload == [slot : Slots, seq : Nat \ {0}, answer : Answers \cup {None}, visited : BOOLEAN]

(* The upsert of patchSnapshot and lateSnapshots. *)
Upserted(s, p) ==
    /\ snapshots' = [snapshots EXCEPT ![s][p.slot] = Upsert(snapshots[s][p.slot], p)]
    /\ Record(s, p)
    /\ UNCHANGED delivered

(* The upsert of getHint. *)
Hinted(s, h) ==
    /\ snapshots' = [snapshots EXCEPT ![s][h.slot] = UpsertHint(snapshots[s][h.slot], h.level)]
    /\ delivered' = delivered \cup {[s |-> s, slot |-> h.slot, level |-> h.level]}
    /\ UNCHANGED latest

WritesSnapshot ==
    \/ \E s \in Sessions, p \in Payload : Upserted(s, p)
    \/ \E s \in Sessions, h \in HintAsk : Hinted(s, h)

LEMMA SnapshotsWritten ==
    ASSUME TypeOK, [Next]_vars
    PROVE  WritesSnapshot \/ UNCHANGED <<snapshots, latest, delivered>>
  <1>1. ASSUME NEW r \in Requests, NEW s \in Sessions, Arrive(r, s)
        PROVE  UNCHANGED <<snapshots, latest, delivered>>
    BY <1>1 DEF Arrive, PatchBegin, HintBegin, ViolationBegin, SubmitBegin, LateBegin, Start,
                db, history
  <1>2. ASSUME NEW r \in Requests, Proceed(r)
        PROVE  UNCHANGED <<snapshots, latest, delivered>>
    BY <1>2 DEF Proceed, HintCheck, HintRefuse, ViolationCommit, SubmitRead, SubmitCount,
                SubmitCommit, db, history
  <1>3. ASSUME NEW r \in Requests, NEW p \in Patch, PatchWrite(r, p)
        PROVE  WritesSnapshot
    <2>1. p \in Payload /\ req[r].s \in Sessions
      BY <1>3, BoundsAssumption DEF Patch, Payload, TypeOK, Ready, PatchWrite
    <2>2. Upserted(req[r].s, p)
      BY <1>3 DEF PatchWrite, Upserted
    <2> QED BY <2>1, <2>2 DEF WritesSnapshot
  <1>4. ASSUME NEW r \in Requests, HintWrite(r)
        PROVE  WritesSnapshot
    <2>1. req[r].in \in HintAsk /\ req[r].s \in Sessions
      BY <1>4 DEF TypeOK, Ready, HintWrite
    <2>2. Hinted(req[r].s, req[r].in)
      BY <1>4 DEF HintWrite, Hinted
    <2> QED BY <2>1, <2>2 DEF WritesSnapshot
  <1>5. ASSUME NEW r \in Requests, LateWrite(r)
        PROVE  WritesSnapshot
    <2> DEFINE s == req[r].s
               e == req[r].in
               p == [slot |-> e.slot, seq |-> e.seq, answer |-> e.answer,
                     visited |-> snapshots[s][e.slot] = None]
    <2>1. s \in Sessions /\ e \in Entry
      BY <1>5 DEF TypeOK, Ready, LateWrite
    <2>2. p \in Payload
      BY <2>1, BoundsAssumption DEF Entry, Payload
    <2>3. Upserted(s, p)
      BY <1>5 DEF LateWrite, Upserted
    <2> HIDE DEF p
    <2> QED BY <2>1, <2>2, <2>3 DEF WritesSnapshot
  <1>6. ASSUME NEW r \in Requests, ViolationUpdate(r) \/ SubmitLock(r) \/ SubmitRepeat(r)
        PROVE  UNCHANGED <<snapshots, latest, delivered>>
    BY <1>6 DEF ViolationUpdate, SubmitLock, SubmitRepeat, db, history
  <1>7. ASSUME NEW r \in Requests, (\E e \in Entry : LateEntry(r, e)) \/ LateEnd(r) \/ Abort(r)
        PROVE  UNCHANGED <<snapshots, latest, delivered>>
    BY <1>7 DEF LateEntry, LateEnd, Abort, db, history
  <1>8. ASSUME NEW s \in Sessions, Expire(s)
        PROVE  UNCHANGED <<snapshots, latest, delivered>>
    BY <1>8 DEF Expire, history
  <1>9. CASE UNCHANGED vars
    BY <1>9 DEF vars, db, history
  <1> QED BY <1>1, <1>2, <1>3, <1>4, <1>5, <1>6, <1>7, <1>8, <1>9 DEF Next, Acquire

(* What the two upserts make of a row. *)
LEMMA UpsertMakes ==
    ASSUME NEW row \in Row \cup {None}, NEW p \in Payload
    PROVE  LET new == Upsert(row, p)
           IN  /\ new \in Row
               /\ row = None => new.seq = p.seq /\ new.answer = p.answer /\ new.levels = <<>>
               /\ row # None =>
                     /\ new.levels = row.levels
                     /\ row.visited => new.visited
                     /\ p.seq > row.seq => new.seq = p.seq /\ new.answer = p.answer
                     /\ ~(p.seq > row.seq) => new.seq = row.seq /\ new.answer = row.answer
  <1>1. Upsert(row, p) \in Row
    BY UpsertTyped DEF Payload
  <1>2. CASE row = None
    BY <1>1, <1>2 DEF Upsert
  <1>3. CASE row # None
    <2> DEFINE a == IF p.seq > row.seq THEN p.answer ELSE row.answer
               n == IF p.seq > row.seq THEN p.seq ELSE row.seq
               v == row.visited \/ p.visited
    <2>1. Upsert(row, p) = [row EXCEPT !.answer = a, !.seq = n, !.visited = v]
      BY <1>3 DEF Upsert
    <2>2. row \in Row
      BY <1>3
    <2>3. v \in BOOLEAN /\ (row.visited => v)
      OBVIOUS
    <2> HIDE DEF v
    <2>4. /\ Upsert(row, p).answer = a /\ Upsert(row, p).seq = n
          /\ Upsert(row, p).visited = v /\ Upsert(row, p).levels = row.levels
      <3> HIDE DEF a, n
      <3> QED BY <2>1, <2>2 DEF Row
    <2> QED BY <1>1, <1>3, <2>3, <2>4
  <1> QED BY <1>2, <1>3

LEMMA UpsertHintMakes ==
    ASSUME NEW row \in Row \cup {None}, NEW level \in Nat
    PROVE  LET new == UpsertHint(row, level)
           IN  /\ new \in Row
               /\ new.levels = Append(LevelsOf(row), level)
               /\ row = None => new.seq = 0
               /\ row # None => /\ new.seq = row.seq /\ new.answer = row.answer
                                /\ new.visited = row.visited
  <1>1. UpsertHint(row, level) \in Row
    BY UpsertHintTyped
  <1>2. CASE row = None
    <2>1. Append(<<>>, level) = <<level>>
      OBVIOUS
    <2> QED BY <1>1, <1>2, <2>1 DEF UpsertHint, LevelsOf
  <1>3. CASE row # None
    <2>1. UpsertHint(row, level) = [row EXCEPT !.levels = Append(row.levels, level)] /\ row \in Row
      BY <1>3 DEF UpsertHint
    <2> QED BY <1>1, <1>3, <2>1 DEF LevelsOf, Row
  <1> QED BY <1>2, <1>3

-----------------------------------------------------------------------------
(* The latest answer *)

(* A row's action_seq is the highest one executed: 0 while only hints have  *)
(* been opened, and then with no answer on record.                          *)
LatestKept ==
    \A s \in Sessions, k \in Slots :
       /\ snapshots[s][k] = None => latest[s][k].seq = 0
       /\ snapshots[s][k] # None =>
             /\ snapshots[s][k].seq = latest[s][k].seq
             /\ latest[s][k].seq > 0 => snapshots[s][k].answer \in latest[s][k].answers

LEMMA LatestStep ==
    ASSUME TypeOK, LatestKept, [Next]_vars
    PROVE  LatestKept'
  <1>1. CASE UNCHANGED <<snapshots, latest, delivered>>
    BY <1>1 DEF LatestKept
  <1>2. ASSUME NEW s \in Sessions, NEW h \in HintAsk, Hinted(s, h)
        PROVE  LatestKept'
    <2> DEFINE row == snapshots[s][h.slot]
               new == UpsertHint(row, h.level)
    <2>1. h.slot \in Slots /\ h.level \in Nat /\ row \in Row \cup {None}
      BY BoundsAssumption DEF HintAsk, TypeOK, Rows
    <2>2. /\ row = None => new.seq = 0
          /\ row # None => new.seq = row.seq /\ new.answer = row.answer
      BY <2>1, UpsertHintMakes
    <2> HIDE DEF new
    <2>3. /\ snapshots'[s][h.slot] = new
          /\ \A t \in Sessions, k \in Slots :
                t # s \/ k # h.slot => snapshots'[t][k] = snapshots[t][k]
      BY <1>2, <2>1 DEF Hinted, TypeOK, Rows, new
    <2>4. latest' = latest
      BY <1>2 DEF Hinted
    <2>5. new # None
      BY <2>1, UpsertHintMakes DEF new
    <2>6. ASSUME NEW t \in Sessions, NEW k \in Slots
          PROVE  /\ snapshots'[t][k] = None => latest'[t][k].seq = 0
                 /\ snapshots'[t][k] # None =>
                       /\ snapshots'[t][k].seq = latest'[t][k].seq
                       /\ latest'[t][k].seq > 0 => snapshots'[t][k].answer \in latest'[t][k].answers
      <3>1. CASE t = s /\ k = h.slot
        BY <2>1, <2>2, <2>3, <2>4, <2>5, <3>1 DEF LatestKept
      <3>2. CASE t # s \/ k # h.slot
        BY <2>3, <2>4, <3>2 DEF LatestKept
      <3> QED BY <3>1, <3>2
    <2> QED BY <2>6 DEF LatestKept
  <1>3. ASSUME NEW s \in Sessions, NEW p \in Payload, Upserted(s, p)
        PROVE  LatestKept'
    <2> DEFINE row == snapshots[s][p.slot]
               new == Upsert(row, p)
               old == latest[s][p.slot]
               rec == IF p.seq > old.seq THEN [seq |-> p.seq, answers |-> {p.answer}]
                      ELSE IF p.seq = old.seq THEN [old EXCEPT !.answers = @ \cup {p.answer}]
                      ELSE old
    <2>1. /\ p.slot \in Slots /\ p.seq \in Nat /\ p.seq > 0 /\ row \in Row \cup {None}
          /\ old \in [seq : Nat, answers : SUBSET (Answers \cup {None})]
      BY DEF Payload, TypeOK, Rows
    <2>2. /\ new \in Row
          /\ row = None => new.seq = p.seq /\ new.answer = p.answer
          /\ row # None => /\ p.seq > row.seq => new.seq = p.seq /\ new.answer = p.answer
                           /\ ~(p.seq > row.seq) => new.seq = row.seq /\ new.answer = row.answer
      BY <2>1, UpsertMakes
    <2>3. /\ p.seq > old.seq => rec.seq = p.seq /\ rec.answers = {p.answer}
          /\ ~(p.seq > old.seq) => rec.seq = old.seq /\ old.answers \subseteq rec.answers
      BY <2>1
    <2>4. latest' = [latest EXCEPT ![s][p.slot] = rec]
      BY <1>3 DEF Upserted, Record
    <2>5. snapshots' = [snapshots EXCEPT ![s][p.slot] = new]
      BY <1>3 DEF Upserted
    <2> HIDE DEF new, rec
    <2>6. /\ snapshots'[s][p.slot] = new /\ latest'[s][p.slot] = rec
          /\ \A t \in Sessions, k \in Slots :
                t # s \/ k # p.slot => /\ snapshots'[t][k] = snapshots[t][k]
                                       /\ latest'[t][k] = latest[t][k]
      BY <2>1, <2>4, <2>5 DEF TypeOK, Rows
    <2>7. /\ row = None => old.seq = 0
          /\ row # None => row.seq = old.seq /\ (old.seq > 0 => row.answer \in old.answers)
      BY <2>1 DEF LatestKept
    <2>8. new # None /\ new.seq = rec.seq /\ (rec.seq > 0 => new.answer \in rec.answers)
      <3>1. CASE row = None
        BY <2>1, <2>2, <2>3, <2>7, <3>1
      <3>2. CASE row # None /\ p.seq > old.seq
        BY <2>1, <2>2, <2>3, <2>7, <3>2
      <3>3. CASE row # None /\ ~(p.seq > old.seq)
        BY <2>1, <2>2, <2>3, <2>7, <3>3
      <3> QED BY <3>1, <3>2, <3>3
    <2>9. ASSUME NEW t \in Sessions, NEW k \in Slots
          PROVE  /\ snapshots'[t][k] = None => latest'[t][k].seq = 0
                 /\ snapshots'[t][k] # None =>
                       /\ snapshots'[t][k].seq = latest'[t][k].seq
                       /\ latest'[t][k].seq > 0 => snapshots'[t][k].answer \in latest'[t][k].answers
      <3>1. CASE t = s /\ k = p.slot
        BY <2>6, <2>8, <3>1
      <3>2. CASE t # s \/ k # p.slot
        BY <2>6, <3>2 DEF LatestKept
      <3> QED BY <3>1, <3>2
    <2> QED BY <2>9 DEF LatestKept
  <1> QED BY <1>1, <1>2, <1>3, SnapshotsWritten DEF WritesSnapshot

(* Patches and late snapshots may arrive in any order, resent or delayed: a *)
(* slot holds the answer of the highest action_seq that was executed.       *)
THEOREM LatestAnswerWinsHolds == Spec => []LatestAnswerWins
  <1>1. Init => TypeOK /\ LatestKept
    BY TypeInit DEF Init, LatestKept
  <1>2. (TypeOK /\ LatestKept) /\ [Next]_vars => (TypeOK /\ LatestKept)'
    BY TypeStep, LatestStep
  <1>3. TypeOK /\ LatestKept => LatestAnswerWins
    BY DEF LatestKept, LatestAnswerWins
  <1> QED BY <1>1, <1>2, <1>3, PTL DEF Spec

-----------------------------------------------------------------------------
(* The hints *)

LEMMA HintsStep ==
    ASSUME TypeOK, HintsCharged, [Next]_vars
    PROVE  HintsCharged'
  <1> DEFINE Charged(d, row) == \E i \in DOMAIN LevelsOf(row) : row.levels[i] = d.level
  <1>1. CASE UNCHANGED <<snapshots, latest, delivered>>
    BY <1>1 DEF HintsCharged
  <1>2. ASSUME NEW s \in Sessions, NEW h \in HintAsk, Hinted(s, h)
        PROVE  HintsCharged'
    <2> DEFINE row == snapshots[s][h.slot]
               new == UpsertHint(row, h.level)
    <2>1. h.slot \in Slots /\ h.level \in Nat /\ row \in Row \cup {None}
      BY BoundsAssumption DEF HintAsk, TypeOK, Rows
    <2>2. new \in Row /\ new.levels = Append(LevelsOf(row), h.level) /\ LevelsOf(row) \in Seq(Nat)
      <3>1. LevelsOf(row) \in Seq(Nat)
        BY <2>1 DEF LevelsOf, Row
      <3> QED BY <2>1, <3>1, UpsertHintMakes
    <2>3. snapshots' = [snapshots EXCEPT ![s][h.slot] = new]
      BY <1>2 DEF Hinted
    <2> HIDE DEF new
    <2>4. /\ snapshots'[s][h.slot] = new
          /\ \A t \in Sessions, k \in Slots :
                t # s \/ k # h.slot => snapshots'[t][k] = snapshots[t][k]
      BY <2>1, <2>3 DEF TypeOK, Rows
    <2>5. LevelsOf(new) = new.levels /\ DOMAIN new.levels = 1..(Len(LevelsOf(row)) + 1)
          /\ new.levels[Len(LevelsOf(row)) + 1] = h.level
          /\ \A i \in 1..Len(LevelsOf(row)) : new.levels[i] = LevelsOf(row)[i]
      <3>1. LevelsOf(new) = new.levels
        BY <2>2 DEF LevelsOf
      <3>2. ASSUME NEW L \in Seq(Nat)
            PROVE  /\ DOMAIN Append(L, h.level) = 1..(Len(L) + 1)
                   /\ Append(L, h.level)[Len(L) + 1] = h.level
                   /\ \A i \in 1..Len(L) : Append(L, h.level)[i] = L[i]
        BY <2>1
      <3> QED BY <2>2, <3>1, <3>2
    <2>6. \A d : d.level = h.level => Charged(d, new)
      BY <2>2, <2>5
    <2>7. \A d : Charged(d, row) => Charged(d, new)
      <3>1. ASSUME NEW d, Charged(d, row)
            PROVE  Charged(d, new)
        <4>1. PICK i \in DOMAIN LevelsOf(row) : row.levels[i] = d.level
          BY <3>1
        <4>2. row # None /\ LevelsOf(row) = row.levels
          BY <4>1 DEF LevelsOf
        <4>3. i \in 1..Len(LevelsOf(row)) /\ i \in 1..(Len(LevelsOf(row)) + 1)
          BY <2>2, <4>1
        <4> QED BY <2>5, <4>1, <4>2, <4>3
      <3> QED BY <3>1
    <2>8. ASSUME NEW d \in delivered'
          PROVE  Charged(d, snapshots'[d.s][d.slot])
      <3>1. CASE d \in delivered
        <4>1. d.s \in Sessions /\ d.slot \in Slots /\ Charged(d, snapshots[d.s][d.slot])
          BY <3>1 DEF TypeOK, HintsCharged
        <4>2. CASE d.s = s /\ d.slot = h.slot
          BY <2>4, <2>7, <4>1, <4>2
        <4>3. CASE d.s # s \/ d.slot # h.slot
          BY <2>4, <4>1, <4>3
        <4> QED BY <4>2, <4>3
      <3>2. CASE d = [s |-> s, slot |-> h.slot, level |-> h.level]
        BY <2>4, <2>6, <3>2
      <3> QED BY <1>2, <2>8, <3>1, <3>2 DEF Hinted
    <2> QED BY <2>8 DEF HintsCharged
  <1>3. ASSUME NEW s \in Sessions, NEW p \in Payload, Upserted(s, p)
        PROVE  HintsCharged'
    <2> DEFINE row == snapshots[s][p.slot]
               new == Upsert(row, p)
    <2>1. p.slot \in Slots /\ row \in Row \cup {None}
      BY DEF Payload, TypeOK, Rows
    <2>2. new \in Row /\ (row # None => new.levels = row.levels)
      BY <2>1, UpsertMakes
    <2>3. snapshots' = [snapshots EXCEPT ![s][p.slot] = new]
      BY <1>3 DEF Upserted
    <2> HIDE DEF new
    <2>4. /\ snapshots'[s][p.slot] = new
          /\ \A t \in Sessions, k \in Slots :
                t # s \/ k # p.slot => snapshots'[t][k] = snapshots[t][k]
      BY <2>1, <2>3 DEF TypeOK, Rows
    <2>5. \A d : Charged(d, row) => Charged(d, new)
      BY <2>1, <2>2 DEF LevelsOf
    <2>6. ASSUME NEW d \in delivered
          PROVE  Charged(d, snapshots'[d.s][d.slot])
      <3>1. d.s \in Sessions /\ d.slot \in Slots /\ Charged(d, snapshots[d.s][d.slot])
        BY DEF TypeOK, HintsCharged
      <3>2. CASE d.s = s /\ d.slot = p.slot
        BY <2>4, <2>5, <3>1, <3>2
      <3>3. CASE d.s # s \/ d.slot # p.slot
        BY <2>4, <3>1, <3>3
      <3> QED BY <3>2, <3>3
    <2>7. delivered' = delivered
      BY <1>3 DEF Upserted
    <2> QED BY <2>6, <2>7 DEF HintsCharged
  <1> QED BY <1>1, <1>2, <1>3, SnapshotsWritten DEF WritesSnapshot

(* No patch or late snapshot, however it overlaps with getHint, takes away  *)
(* the charge for a hint whose text was returned.                           *)
THEOREM HintsChargedHolds == Spec => []HintsCharged
  <1>1. Init => TypeOK /\ HintsCharged
    BY TypeInit DEF Init, HintsCharged
  <1>2. (TypeOK /\ HintsCharged) /\ [Next]_vars => (TypeOK /\ HintsCharged)'
    BY TypeStep, HintsStep
  <1> QED BY <1>1, <1>2, PTL DEF Spec

-----------------------------------------------------------------------------
(* What was there when the drain began is graded *)

(* Row b is row a or what later writes made of it. *)
Covers(b, a) ==
    a # None => /\ b # None
                /\ b.seq >= a.seq
                /\ a.visited => b.visited
                /\ Len(b.levels) >= Len(a.levels)

LEMMA CoversItself ==
    ASSUME NEW a \in Row \cup {None}
    PROVE  Covers(a, a)
  BY DEF Covers, Row

LEMMA CoversTransitive ==
    ASSUME NEW a \in Row \cup {None}, NEW b \in Row \cup {None}, NEW c \in Row \cup {None},
           Covers(b, a), Covers(c, b)
    PROVE  Covers(c, a)
  <1>1. CASE a = None
    BY <1>1 DEF Covers
  <1>2. CASE a # None
    <2>1. a \in Row /\ b \in Row /\ c \in Row /\ b # None
      BY <1>2 DEF Covers
    <2>2. /\ a.seq \in Nat /\ b.seq \in Nat /\ c.seq \in Nat
          /\ Len(a.levels) \in Nat /\ Len(b.levels) \in Nat /\ Len(c.levels) \in Nat
      BY <2>1 DEF Row
    <2> QED BY <1>2, <2>1, <2>2 DEF Covers
  <1> QED BY <1>1, <1>2

(* No step takes anything back that a snapshot shows. *)
LEMMA SnapshotsGrow ==
    ASSUME TypeOK, [Next]_vars, NEW t \in Sessions, NEW k \in Slots
    PROVE  Covers(snapshots'[t][k], snapshots[t][k])
  <1>0. snapshots[t][k] \in Row \cup {None}
    BY DEF TypeOK, Rows
  <1>1. CASE UNCHANGED <<snapshots, latest, delivered>>
    BY <1>0, <1>1, CoversItself
  <1>2. ASSUME NEW s \in Sessions, NEW h \in HintAsk, Hinted(s, h)
        PROVE  Covers(snapshots'[t][k], snapshots[t][k])
    <2> DEFINE row == snapshots[s][h.slot]
               new == UpsertHint(row, h.level)
    <2>1. h.slot \in Slots /\ h.level \in Nat /\ row \in Row \cup {None}
      BY BoundsAssumption DEF HintAsk, TypeOK, Rows
    <2>2. /\ new \in Row /\ new.levels = Append(LevelsOf(row), h.level)
          /\ row # None => new.seq = row.seq /\ new.visited = row.visited
      BY <2>1, UpsertHintMakes
    <2>3. snapshots' = [snapshots EXCEPT ![s][h.slot] = new]
      BY <1>2 DEF Hinted
    <2> HIDE DEF new
    <2>4. Covers(new, row)
      <3>1. SUFFICES ASSUME row # None
                     PROVE  Covers(new, row)
        BY DEF Covers
      <3>2. row.seq \in Nat /\ row.levels \in Seq(Nat) /\ LevelsOf(row) = row.levels
        BY <2>1, <3>1 DEF Row, LevelsOf
      <3>3. \A L \in Seq(Nat) : Len(Append(L, h.level)) >= Len(L)
        BY <2>1
      <3>4. new # None /\ new.seq >= row.seq /\ (row.visited => new.visited)
        BY <2>2, <3>1, <3>2
      <3>5. Len(new.levels) >= Len(row.levels)
        BY <2>2, <3>2, <3>3
      <3> QED BY <3>4, <3>5 DEF Covers
    <2>5. CASE t = s /\ k = h.slot
      BY <2>1, <2>3, <2>4, <2>5 DEF TypeOK, Rows
    <2>6. CASE t # s \/ k # h.slot
      <3>1. snapshots'[t][k] = snapshots[t][k]
        BY <2>1, <2>3, <2>6 DEF TypeOK, Rows
      <3> QED BY <1>0, <3>1, CoversItself
    <2> QED BY <2>5, <2>6
  <1>3. ASSUME NEW s \in Sessions, NEW p \in Payload, Upserted(s, p)
        PROVE  Covers(snapshots'[t][k], snapshots[t][k])
    <2> DEFINE row == snapshots[s][p.slot]
               new == Upsert(row, p)
    <2>1. p.slot \in Slots /\ p.seq \in Nat /\ row \in Row \cup {None}
      BY DEF Payload, TypeOK, Rows
    <2>2. /\ new \in Row
          /\ row # None => /\ new.levels = row.levels
                           /\ row.visited => new.visited
                           /\ p.seq > row.seq => new.seq = p.seq
                           /\ ~(p.seq > row.seq) => new.seq = row.seq
      BY <2>1, UpsertMakes
    <2>3. snapshots' = [snapshots EXCEPT ![s][p.slot] = new]
      BY <1>3 DEF Upserted
    <2> HIDE DEF new
    <2>4. Covers(new, row)
      <3>1. SUFFICES ASSUME row # None
                     PROVE  Covers(new, row)
        BY DEF Covers
      <3>2. row.seq \in Nat /\ Len(row.levels) \in Nat
        BY <2>1, <3>1 DEF Row
      <3>3. new.seq >= row.seq
        BY <2>1, <2>2, <3>1, <3>2
      <3>4. Len(new.levels) >= Len(row.levels)
        BY <2>2, <3>1, <3>2
      <3>5. new # None /\ (row.visited => new.visited)
        BY <2>2, <3>1
      <3> QED BY <3>3, <3>4, <3>5 DEF Covers
    <2>5. CASE t = s /\ k = p.slot
      BY <2>1, <2>3, <2>4, <2>5 DEF TypeOK, Rows
    <2>6. CASE t # s \/ k # p.slot
      <3>1. snapshots'[t][k] = snapshots[t][k]
        BY <2>1, <2>3, <2>6 DEF TypeOK, Rows
      <3> QED BY <1>0, <3>1, CoversItself
    <2> QED BY <2>5, <2>6
  <1> QED BY <1>1, <1>2, <1>3, SnapshotsWritten DEF WritesSnapshot

(* A drain works on what it found when it locked the session, or more.      *)
DrainCovers ==
    \A r \in Requests :
       LET s == req[r].s
       IN  /\ req[r].pc \in DrainSteps => due[s] \in Rows
           /\ req[r].pc = "submit_read" =>
                 \A k \in Slots : Covers(snapshots[s][k], due[s][k])
           /\ req[r].pc \in {"submit_count", "submit_commit"} =>
                 \A k \in Slots : Covers(req[r].rows[k], due[s][k])

(* What the steps do to a drain under way. *)
DrainStep ==
    \A r \in Requests : req'[r].pc \in DrainSteps =>
       LET s == req[r].s
       IN  /\ req'[r].s = s
           /\ \/ /\ req'[r].pc = "submit_read" /\ req[r].pc = "submit_lock"
                 /\ due'[s] = snapshots[s] /\ snapshots'[s] = snapshots[s]
              \/ /\ req[r].pc \in DrainSteps /\ req'[r] = req[r] /\ due'[s] = due[s]
              \/ /\ req[r].pc = "submit_read" /\ req'[r].pc = "submit_count"
                 /\ req'[r].rows = snapshots[s] /\ due'[s] = due[s]
              \/ /\ req[r].pc = "submit_count" /\ req'[r].pc = "submit_commit"
                 /\ req'[r].rows = req[r].rows /\ due'[s] = due[s]

LEMMA DrainsProceed ==
    ASSUME IInv, [Next]_vars
    PROVE  DrainStep
  <1>1. ASSUME UNCHANGED due,
               NEW x, \A r \in Requests : r # x => req'[r] = req[r],
               x \in Requests => req'[x].pc \notin DrainSteps
        PROVE  DrainStep
    BY <1>1 DEF DrainStep
  <1>2. req \in [Requests -> Request]
    BY DEF IInv, TypeOK
  <1>3. ASSUME NEW x \in Requests, NEW s \in Sessions, Arrive(x, s)
        PROVE  DrainStep
    <2>1. ASSUME NEW pc \in {"patch_write", "hint_check", "late_next", "submit_lock", "violation_update"},
                 NEW in
          PROVE  At(pc, s, in).pc = pc
      BY DEF At, Idle
    <2> DEFINE v == [At("violation_update", s, [source |-> "VIOLATION_THRESHOLD"])
                        EXCEPT !.count = session[s].violations]
    <2>2. v.pc = "violation_update"
      BY DEF At, Idle
    <2> HIDE DEF v
    <2>3. UNCHANGED due /\ \E q : req' = [req EXCEPT ![x] = q] /\ q.pc \notin DrainSteps
      <3>1. CASE PatchBegin(x, s) \/ HintBegin(x, s) \/ LateBegin(x, s)
        <4>1. PICK pc \in {"patch_write", "hint_check", "late_next"}, op \in Ops :
                 Start(x, op, At(pc, s, None))
          BY <3>1 DEF PatchBegin, HintBegin, LateBegin, Start
        <4>2. At(pc, s, None).pc \notin DrainSteps
          BY <2>1 DEF DrainSteps
        <4> QED BY <4>1, <4>2 DEF Start, history
      <3>2. CASE \E src \in ClientSources : SubmitBegin(x, s, src)
        <4>1. PICK src \in ClientSources : Start(x, "submit", At("submit_lock", s, [source |-> src]))
          BY <3>2 DEF SubmitBegin
        <4>2. At("submit_lock", s, [source |-> src]).pc \notin DrainSteps
          BY <2>1 DEF DrainSteps
        <4> QED BY <4>1, <4>2 DEF Start, history
      <3>3. CASE ViolationBegin(x, s)
        <4>1. Start(x, "violation", v)
          BY <3>3 DEF ViolationBegin, v
        <4> QED BY <2>2, <4>1 DEF Start, history, DrainSteps
      <3> QED BY <1>3, <3>1, <3>2, <3>3 DEF Arrive
    <2> QED BY <1>1, <1>2, <2>3
  <1>4. ASSUME NEW x \in Requests, UNCHANGED due,
               \/ Done(x)
               \/ \E pc \in {"hint_write", "late_next", "late_write"} : \E in :
                     req' = [req EXCEPT ![x].pc = pc, ![x].in = in]
               \/ \E pc \in {"submit_lock", "violation_commit"} : \E bump :
                     req' = [req EXCEPT ![x].bump = bump, ![x].pc = pc]
        PROVE  DrainStep
    <2>1. Idle.pc \notin DrainSteps
      BY DEF Idle, DrainSteps
    <2>2. req'[x].pc \notin DrainSteps /\ \A r \in Requests : r # x => req'[r] = req[r]
      BY <1>2, <1>4, <2>1 DEF Done, Request, DrainSteps
    <2> QED BY <1>1, <1>4, <2>2
  <1>5. ASSUME NEW x \in Requests,
               \/ HintRefuse(x) \/ ViolationCommit(x) \/ SubmitCommit(x) \/ SubmitRepeat(x)
               \/ LateEnd(x) \/ Abort(x) \/ HintWrite(x) \/ (\E p \in Patch : PatchWrite(x, p))
        PROVE  DrainStep
    <2>1. UNCHANGED due /\ Done(x)
      BY <1>5 DEF HintRefuse, ViolationCommit, SubmitCommit, SubmitRepeat, LateEnd, Abort,
                  HintWrite, PatchWrite, history
    <2> QED BY <1>4, <2>1
  <1>6. ASSUME NEW x \in Requests,
               \/ \E h \in HintAsk : HintCheck(x, h)
               \/ \E e \in Entry : LateEntry(x, e)
               \/ LateWrite(x)
        PROVE  DrainStep
    <2>1. UNCHANGED due /\ \E pc \in {"hint_write", "late_next", "late_write"} : \E in :
                              req' = [req EXCEPT ![x].pc = pc, ![x].in = in]
      BY <1>6 DEF HintCheck, LateEntry, LateWrite, history
    <2> QED BY <1>4, <2>1
  <1>7. ASSUME NEW x \in Requests, ViolationUpdate(x)
        PROVE  DrainStep
    <2>1. UNCHANGED due /\ \E pc \in {"submit_lock", "violation_commit"} : \E bump :
                              req' = [req EXCEPT ![x].bump = bump, ![x].pc = pc]
      BY <1>7 DEF ViolationUpdate, history
    <2> QED BY <1>4, <2>1
  <1>8. ASSUME NEW x \in Requests, SubmitLock(x)
        PROVE  DrainStep
    <2> DEFINE s == req[x].s
    <2>1. /\ req[x].pc = "submit_lock" /\ s \in Sessions /\ lock[s] \in {None, x}
          /\ due' = [due EXCEPT ![s] = snapshots[s]] /\ snapshots' = snapshots
          /\ req' = [req EXCEPT ![x].pc = "submit_read"]
      BY <1>8 DEF SubmitLock, Goto, db, IInv, TypeOK, Ready
    <2>2. /\ req'[x].pc = "submit_read" /\ req'[x].s = s
          /\ \A r \in Requests : r # x => req'[r] = req[r]
      BY <1>2, <2>1 DEF Request
    <2>3. due'[s] = snapshots[s] /\ \A t \in Sessions : t # s => due'[t] = due[t]
      BY <2>1 DEF IInv, TypeOK
    <2>4. ASSUME NEW r \in Requests, r # x, req[r].pc \in DrainSteps
          PROVE  req[r].s \in Sessions /\ req[r].s # s
      <3>1. req[r].s \in Sessions /\ lock[req[r].s] = r
        BY <2>4 DEF IInv, TypeOK, Ready, Locking, Holding, DrainSteps
      <3>2. lock[s] # r
        BY <2>1, <2>4
      <3> QED BY <3>1, <3>2
    <2> QED BY <2>1, <2>2, <2>3, <2>4 DEF DrainStep
  <1>9. ASSUME NEW x \in Requests, SubmitRead(x)
        PROVE  DrainStep
    <2>1. /\ req[x].pc = "submit_read" /\ due' = due
          /\ req'[x].pc = "submit_count" /\ req'[x].s = req[x].s
          /\ req'[x].rows = snapshots[req[x].s]
          /\ \A r \in Requests : r # x => req'[r] = req[r]
      BY <1>2, <1>9 DEF SubmitRead, Request, history
    <2> QED BY <2>1 DEF DrainStep
  <1>10. ASSUME NEW x \in Requests, SubmitCount(x)
         PROVE  DrainStep
    <2>1. /\ req[x].pc = "submit_count" /\ due' = due
          /\ req'[x].pc = "submit_commit" /\ req'[x].s = req[x].s
          /\ req'[x].rows = req[x].rows
          /\ \A r \in Requests : r # x => req'[r] = req[r]
      BY <1>2, <1>10 DEF SubmitCount, Request, history
    <2> QED BY <2>1 DEF DrainStep
  <1>11. ASSUME UNCHANGED <<req, due>>
         PROVE  DrainStep
    BY <1>11 DEF DrainStep
  <1>12. ASSUME NEW s \in Sessions, Expire(s)
         PROVE  DrainStep
    BY <1>11, <1>12 DEF Expire, history
  <1>13. CASE UNCHANGED vars
    BY <1>11, <1>13 DEF vars, history
  <1> QED BY <1>3, <1>5, <1>6, <1>7, <1>8, <1>9, <1>10, <1>12, <1>13 DEF Next, Proceed, Acquire

LEMMA DrainCoversStep ==
    ASSUME IInv, DrainCovers, [Next]_vars
    PROVE  DrainCovers'
  <1>1. TypeOK /\ DrainStep
    BY DrainsProceed DEF IInv
  <1>2. ASSUME NEW r \in Requests, req'[r].pc \in DrainSteps
        PROVE  LET s == req'[r].s
               IN  /\ due'[s] \in Rows
                   /\ req'[r].pc = "submit_read" =>
                         \A k \in Slots : Covers(snapshots'[s][k], due'[s][k])
                   /\ req'[r].pc \in {"submit_count", "submit_commit"} =>
                         \A k \in Slots : Covers(req'[r].rows[k], due'[s][k])
    <2> DEFINE s == req[r].s
    <2>1. req'[r].s = s
      BY <1>1, <1>2 DEF DrainStep
    <2>2. req[r].pc \in DrainSteps \cup {"submit_lock"} /\ s \in Sessions
      BY <1>1, <1>2 DEF DrainStep, DrainSteps, TypeOK, Ready
    <2>3. snapshots[s] \in Rows /\ \A k \in Slots : snapshots[s][k] \in Row \cup {None}
      BY <1>1, <2>2 DEF TypeOK, Rows
    <2>4. \A k \in Slots : snapshots'[s][k] \in Row \cup {None}
      BY <1>1, <2>2, TypeStep DEF TypeOK, Rows
    <2>5. req[r].pc \in DrainSteps => \A k \in Slots : due[s][k] \in Row \cup {None}
      BY DEF DrainCovers, Rows
    <2>6. CASE /\ req'[r].pc = "submit_read" /\ req[r].pc = "submit_lock"
               /\ due'[s] = snapshots[s] /\ snapshots'[s] = snapshots[s]
      BY <2>1, <2>3, <2>6, CoversItself
    <2>7. CASE req[r].pc \in DrainSteps /\ req'[r] = req[r] /\ due'[s] = due[s]
      <3>1. CASE req[r].pc = "submit_read"
        <4>1. ASSUME NEW k \in Slots
              PROVE  Covers(snapshots'[s][k], due[s][k])
          <5>1. Covers(snapshots[s][k], due[s][k])
            BY <3>1 DEF DrainCovers
          <5>2. Covers(snapshots'[s][k], snapshots[s][k])
            BY <1>1, <2>2, SnapshotsGrow
          <5> QED BY <2>3, <2>4, <2>5, <2>7, <5>1, <5>2, CoversTransitive
        <4> QED BY <2>1, <2>7, <3>1, <4>1 DEF DrainCovers
      <3>2. CASE req[r].pc \in {"submit_count", "submit_commit"}
        BY <2>1, <2>7, <3>2 DEF DrainCovers
      <3> QED BY <2>7, <3>1, <3>2 DEF DrainSteps
    <2>8. CASE /\ req[r].pc = "submit_read" /\ req'[r].pc = "submit_count"
               /\ req'[r].rows = snapshots[s] /\ due'[s] = due[s]
      BY <2>1, <2>8 DEF DrainCovers, DrainSteps
    <2>9. CASE /\ req[r].pc = "submit_count" /\ req'[r].pc = "submit_commit"
               /\ req'[r].rows = req[r].rows /\ due'[s] = due[s]
      BY <2>1, <2>9 DEF DrainCovers, DrainSteps
    <2> QED BY <1>1, <1>2, <2>6, <2>7, <2>8, <2>9 DEF DrainStep
  <1> QED BY <1>2 DEF DrainCovers, DrainSteps

-----------------------------------------------------------------------------
(* What a commit grades *)

(* Only a commit submits a session, and a session's due snapshots are taken *)
(* only while it is open.                                                   *)
LEMMA OutsideCommit ==
    ASSUME TypeOK, [Next]_vars, \A r \in Requests : ~SubmitCommit(r), NEW t \in Sessions
    PROVE  /\ session'[t].source = session[t].source
           /\ Submitted(t) => due'[t] = due[t]
  <1>1. CASE UNCHANGED <<session, due>>
    BY <1>1
  <1>2. ASSUME NEW r \in Requests, ViolationCommit(r)
        PROVE  session'[t].source = session[t].source /\ due' = due
    <2>1. req[r].s \in Sessions
      BY <1>2 DEF ViolationCommit, TypeOK, Ready
    <2>2. session[t] \in SessionRow
      BY DEF TypeOK
    <2> QED BY <1>2, <2>1, <2>2 DEF ViolationCommit, TypeOK, SessionRow, history
  <1>3. ASSUME NEW r \in Requests, SubmitLock(r)
        PROVE  session' = session /\ (Submitted(t) => due'[t] = due[t])
    BY <1>3 DEF SubmitLock, db, TypeOK
  <1>4. ASSUME NEW s \in Sessions, Expire(s)
        PROVE  session'[t].source = session[t].source /\ due' = due
    <2>1. session[t] \in SessionRow
      BY DEF TypeOK
    <2> QED BY <1>4, <2>1 DEF Expire, TypeOK, SessionRow, history
  <1>5. ASSUME NEW r \in Requests, NEW s \in Sessions, Arrive(r, s)
        PROVE  UNCHANGED <<session, due>>
    BY <1>5 DEF Arrive, PatchBegin, HintBegin, ViolationBegin, SubmitBegin, LateBegin, Start,
                db, history
  <1>6. ASSUME NEW r \in Requests, Proceed(r), ~ViolationCommit(r)
        PROVE  UNCHANGED <<session, due>>
    BY <1>6 DEF Proceed, HintCheck, HintRefuse, SubmitRead, SubmitCount, db, history
  <1>7. ASSUME NEW r \in Requests, Acquire(r), ~SubmitLock(r)
        PROVE  UNCHANGED <<session, due>>
    BY <1>7 DEF Acquire, PatchWrite, HintWrite, LateWrite, ViolationUpdate, SubmitRepeat,
                db, history
  <1>8. ASSUME NEW r \in Requests,
               (\E e \in Entry : LateEntry(r, e)) \/ LateEnd(r) \/ Abort(r)
        PROVE  UNCHANGED <<session, due>>
    BY <1>8 DEF LateEntry, LateEnd, Abort, db, history
  <1>9. CASE UNCHANGED vars
    BY <1>1, <1>9 DEF vars, db, history
  <1> QED BY <1>1, <1>2, <1>3, <1>4, <1>5, <1>6, <1>7, <1>8, <1>9 DEF Next

LEMMA CommitGrades ==
    ASSUME IInv, DrainCovers, NEW r \in Requests, SubmitCommit(r), NEW k \in Slots,
           due[req[r].s][k] # None,
           due[req[r].s][k].visited \/ due[req[r].s][k].levels # <<>>
    PROVE  \E a \in attempts' : /\ a.s = req[r].s /\ a.slot = k
                                /\ a.seq >= due[req[r].s][k].seq
                                /\ a.hints >= Len(due[req[r].s][k].levels)
  <1> DEFINE s == req[r].s
             rows == req[r].rows
             a == [s |-> s, slot |-> k, batch |-> session[s].rotations + 1, code |-> Code[s][k],
                   order |-> Order(r, k), answer |-> rows[k].answer, seq |-> rows[k].seq,
                   hints |-> Len(rows[k].levels), source |-> req[r].in.source]
  <1>1. /\ req[r].pc = "submit_commit" /\ s \in Sessions /\ rows \in Rows /\ due[s] \in Rows
        /\ Covers(rows[k], due[s][k])
    BY DEF IInv, TypeOK, Ready, SubmitCommit, DrainSteps, DrainCovers
  <1>2. rows[k] \in Row /\ due[s][k] \in Row
    BY <1>1 DEF Rows, Covers
  <1>3. /\ rows[k].seq >= due[s][k].seq
        /\ due[s][k].visited => rows[k].visited
        /\ Len(rows[k].levels) >= Len(due[s][k].levels)
    BY <1>1 DEF Covers
  <1>4. ~Untouched(rows[k])
    <2>1. CASE due[s][k].visited
      BY <1>3, <2>1 DEF Untouched
    <2>2. CASE due[s][k].levels # <<>>
      <3>1. due[s][k].levels \in Seq(Nat)
        BY <1>2 DEF Row
      <3>2. Len(due[s][k].levels) \in Nat \ {0}
        <4>1. \A L \in Seq(Nat) : L # <<>> => Len(L) \in Nat \ {0}
          OBVIOUS
        <4> QED BY <2>2, <3>1, <4>1
      <3>3. Len(rows[k].levels) # 0
        <4>1. Len(rows[k].levels) \in Nat
          BY <1>2 DEF Row
        <4> QED BY <1>3, <3>2, <4>1
      <3>4. Len(<<>>) = 0
        OBVIOUS
      <3>5. rows[k].levels # <<>>
        BY <3>3, <3>4
      <3> QED BY <3>5 DEF Untouched
    <2> QED BY <2>1, <2>2
  <1>5. k \in Drained(rows)
    BY <1>2, <1>4 DEF Drained
  <1>6. a \in NewAttempts(r)
    BY <1>5 DEF NewAttempts
  <1>7. a \in attempts'
    BY <1>6 DEF SubmitCommit
  <1>8. a.s = s /\ a.slot = k /\ a.seq = rows[k].seq /\ a.hints = Len(rows[k].levels)
    OBVIOUS
  <1> HIDE DEF a
  <1> QED BY <1>3, <1>7, <1>8

LEMMA GradedStep ==
    ASSUME IInv, DrainCovers, SeenBeforeSubmitIsGraded, [Next]_vars
    PROVE  SeenBeforeSubmitIsGraded'
  <1> DEFINE Graded(s, k, d, A) ==
                d # None /\ (d.visited \/ d.levels # <<>>) =>
                   \E a \in A : /\ a.s = s /\ a.slot = k
                                /\ a.seq >= d.seq
                                /\ a.hints >= Len(d.levels)
  <1>1. SUFFICES ASSUME NEW t \in Sessions, NEW k \in Slots, Submitted(t)'
                 PROVE  Graded(t, k, due'[t][k], attempts')
    BY DEF SeenBeforeSubmitIsGraded
  <1>2. Submitted(t) => Graded(t, k, due[t][k], attempts)
    BY DEF SeenBeforeSubmitIsGraded
  <1>3. ASSUME NEW r \in Requests, SubmitCommit(r)
        PROVE  Graded(t, k, due'[t][k], attempts')
    <2>1. due' = due /\ attempts \subseteq attempts'
      BY <1>3 DEF SubmitCommit
    <2>2. CASE t = req[r].s
      BY <1>3, <2>1, <2>2, CommitGrades
    <2>3. CASE t # req[r].s
      <3>1. Submitted(t)
        BY <1>1, <1>3, <2>3, CommitWrites DEF Submitted
      <3> QED BY <1>2, <2>1, <3>1
    <2> QED BY <2>2, <2>3
  <1>4. CASE \A r \in Requests : ~SubmitCommit(r)
    <2>1. session'[t].source = session[t].source /\ (Submitted(t) => due'[t] = due[t])
      BY <1>4, OutsideCommit DEF IInv
    <2>2. Submitted(t)
      BY <1>1, <2>1 DEF Submitted
    <2>3. attempts' = attempts
      BY <1>4, AttemptsKept
    <2> QED BY <1>2, <2>1, <2>2, <2>3
  <1> QED BY <1>3, <1>4

(* What a slot showed when the winning submit locked its session is graded, *)
(* on that answer or a later one and with at least those hints, although    *)
(* patches and hints go on while the drain runs.                            *)
THEOREM SeenBeforeSubmitIsGradedHolds == Spec => []SeenBeforeSubmitIsGraded
  <1>1. Init => DrainCovers /\ SeenBeforeSubmitIsGraded
    BY DEF Init, DrainCovers, SeenBeforeSubmitIsGraded, Submitted, Idle, DrainSteps
  <1>2. IInv /\ DrainCovers /\ SeenBeforeSubmitIsGraded /\ [Next]_vars
        => DrainCovers' /\ SeenBeforeSubmitIsGraded'
    BY DrainCoversStep, GradedStep
  <1> QED BY <1>1, <1>2, InvInit, InvStep, PTL DEF Spec

-----------------------------------------------------------------------------
(* The numbers of one batch *)

LEMMA OrdersApart ==
    ASSUME TypeOK, NEW r \in Requests, req[r].pc = "submit_commit",
           NEW k \in Drained(req[r].rows), NEW m \in Drained(req[r].rows),
           k < m, Code[req[r].s][k] = Code[req[r].s][m]
    PROVE  Order(r, k) # Order(r, m)
  <1> DEFINE s == req[r].s
             P(n) == {j \in Drained(req[r].rows) : j <= n /\ Code[s][j] = Code[s][n]}
  <1>1. k \in Nat /\ m \in Nat /\ Drained(req[r].rows) \subseteq Nat
    BY SlotsFinite DEF Drained
  <1>2. IsFiniteSet(P(k)) /\ IsFiniteSet(P(m))
    <2>1. P(k) \subseteq Slots /\ P(m) \subseteq Slots
      BY DEF Drained
    <2> QED BY <2>1, SlotsFinite, FS_Subset
  <1>3. P(k) \subseteq P(m) /\ m \in P(m) /\ m \notin P(k)
    BY <1>1
  <1>4. Cardinality(P(k)) < Cardinality(P(m))
    <2> HIDE DEF P
    <2>1. P(k) # P(m)
      BY <1>3
    <2> QED BY <1>2, <1>3, <2>1, FS_Subset, FS_CardinalityType
  <1>5. /\ Order(r, k) = req[r].prior[Code[s][k]] + Cardinality(P(k))
        /\ Order(r, m) = req[r].prior[Code[s][k]] + Cardinality(P(m))
    BY DEF Order
  <1>6. req[r].prior[Code[s][k]] \in Nat
    BY CodeAssumption DEF TypeOK, Ready, DrainSteps, Drained
  <1>7. Cardinality(P(k)) \in Nat /\ Cardinality(P(m)) \in Nat
    BY <1>2, FS_CardinalityType
  <1> HIDE DEF P
  <1> QED BY <1>4, <1>5, <1>6, <1>7

(* The row a drained slot becomes. *)
GradedRow(r, k) ==
    LET s == req[r].s
        rows == req[r].rows IN
    [s |-> s, slot |-> k, batch |-> session[s].rotations + 1, code |-> Code[s][k],
     order |-> Order(r, k), answer |-> rows[k].answer, seq |-> rows[k].seq,
     hints |-> Len(rows[k].levels), source |-> req[r].in.source]

LEMMA NewAttemptsGraded ==
    ASSUME NEW r \in Requests
    PROVE  /\ NewAttempts(r) = {GradedRow(r, k) : k \in Drained(req[r].rows)}
           /\ \A k : GradedRow(r, k).slot = k /\ GradedRow(r, k).code = Code[req[r].s][k]
                     /\ GradedRow(r, k).order = Order(r, k)
  BY DEF NewAttempts, GradedRow

LEMMA NewAttemptsApart ==
    ASSUME TypeOK, NEW r \in Requests, req[r].pc = "submit_commit",
           NEW a \in NewAttempts(r), NEW b \in NewAttempts(r),
           a.code = b.code, a.order = b.order
    PROVE  a = b
  <1>1. PICK k \in Drained(req[r].rows) : a = GradedRow(r, k)
    BY NewAttemptsGraded
  <1>2. PICK m \in Drained(req[r].rows) : b = GradedRow(r, m)
    BY NewAttemptsGraded
  <1>3. Code[req[r].s][k] = Code[req[r].s][m] /\ Order(r, k) = Order(r, m)
    BY <1>1, <1>2, NewAttemptsGraded
  <1>4. k \in Nat /\ m \in Nat
    BY SlotsFinite DEF Drained
  <1>5. ~(k < m) /\ ~(m < k)
    BY <1>3, OrdersApart
  <1>6. k = m
    BY <1>4, <1>5
  <1> QED BY <1>1, <1>2, <1>6

LEMMA OrdersStep ==
    ASSUME IInv, OrdersDistinctInSession, [Next]_vars
    PROVE  OrdersDistinctInSession'
  <1>1. ASSUME NEW r \in Requests, SubmitCommit(r)
        PROVE  OrdersDistinctInSession'
    <2>1. /\ attempts' = attempts \cup NewAttempts(r)
          /\ \A a \in NewAttempts(r) : a.s = req[r].s
          /\ \A a \in attempts : a.s # req[r].s
      BY <1>1, CommitAdds
    <2>2. TypeOK /\ req[r].pc = "submit_commit"
      BY <1>1 DEF IInv, SubmitCommit
    <2>3. \A a, b \in NewAttempts(r) : a.code = b.code /\ a.order = b.order => a = b
      BY <2>2, NewAttemptsApart
    <2> QED BY <2>1, <2>3 DEF OrdersDistinctInSession
  <1>2. CASE \A r \in Requests : ~SubmitCommit(r)
    BY <1>2, AttemptsKept DEF OrdersDistinctInSession
  <1> QED BY <1>1, <1>2

(* No two rows of a session share a number for one question code, also when *)
(* the code fills several slots.                                            *)
THEOREM OrdersDistinctHolds == Spec => []OrdersDistinctInSession
  <1>1. Init => OrdersDistinctInSession
    BY DEF Init, OrdersDistinctInSession
  <1>2. IInv /\ OrdersDistinctInSession /\ [Next]_vars => OrdersDistinctInSession'
    BY OrdersStep
  <1> QED BY <1>1, <1>2, InvInit, InvStep, PTL DEF Spec

-----------------------------------------------------------------------------
(* The numbers of one student *)

OfCode(c, A) == {a \in A : a.code = c}

(* No attempt at a drain's codes is committed between its count and its rows. *)
CountsCurrent ==
    \A r \in Requests, k \in Slots :
       LET c == Code[req[r].s][k] IN
       SubmitCommit(r) => req[r].prior[c] = Cardinality(OfCode(c, attempts))

(* A number is at most the count of the attempts at its code.               *)
OrdersCounted ==
    \A a \in attempts : a.order <= Cardinality(OfCode(a.code, attempts))

(* The rows of a batch with one code are as many as the slots.              *)
LEMMA BatchCounted ==
    ASSUME TypeOK, NEW r \in Requests, req[r].pc = "submit_commit", NEW c
    PROVE  LET D == {k \in Drained(req[r].rows) : Code[req[r].s][k] = c}
           IN  /\ IsFiniteSet(D) /\ Cardinality(D) \in Nat
               /\ IsFiniteSet(OfCode(c, NewAttempts(r)))
               /\ Cardinality(D) <= Cardinality(OfCode(c, NewAttempts(r)))
  <1> DEFINE D == {k \in Drained(req[r].rows) : Code[req[r].s][k] = c}
             N == OfCode(c, NewAttempts(r))
             f == [k \in D |-> GradedRow(r, k)]
  <1>1. IsFiniteSet(N)
    BY NewAttemptsTyped, FS_Subset DEF OfCode
  <1>2. IsFiniteSet(D) /\ Cardinality(D) \in Nat
    <2>1. D \subseteq Slots
      BY DEF Drained
    <2> QED BY <2>1, SlotsFinite, FS_Subset, FS_CardinalityType
  <1>3. f \in Injection(D, N)
    <2>1. \A k \in D : GradedRow(r, k) \in N /\ GradedRow(r, k).slot = k
      BY NewAttemptsGraded DEF OfCode
    <2> QED BY <2>1 DEF Injection, IsInjective
  <1> HIDE DEF f, D, N
  <1>4. Cardinality(D) <= Cardinality(N)
    BY <1>1, <1>3, FS_Injection
  <1> QED BY <1>1, <1>2, <1>4 DEF D, N

(* A batch numbers on from the prior count.                                 *)
LEMMA OrderBetween ==
    ASSUME TypeOK, NEW r \in Requests, req[r].pc = "submit_commit",
           NEW k \in Drained(req[r].rows)
    PROVE  LET c == Code[req[r].s][k]
               D == {j \in Drained(req[r].rows) : Code[req[r].s][j] = c}
           IN  /\ req[r].prior[c] \in Nat /\ Order(r, k) \in Nat
               /\ Order(r, k) > req[r].prior[c]
               /\ Order(r, k) <= req[r].prior[c] + Cardinality(D)
  <1> DEFINE c == Code[req[r].s][k]
             D == {j \in Drained(req[r].rows) : Code[req[r].s][j] = c}
             P == {j \in Drained(req[r].rows) : j <= k /\ Code[req[r].s][j] = c}
  <1>1. k \in Slots /\ k \in Nat /\ D \subseteq Slots /\ P \subseteq D /\ k \in P
    BY SlotsFinite DEF Drained
  <1>2. req[r].prior[c] \in Nat
    BY CodeAssumption DEF TypeOK, Ready, DrainSteps, Drained
  <1>3. Order(r, k) = req[r].prior[c] + Cardinality(P)
    BY DEF Order
  <1> HIDE DEF P, D
  <1>4. IsFiniteSet(D) /\ IsFiniteSet(P) /\ Cardinality(P) <= Cardinality(D)
    BY <1>1, SlotsFinite, FS_Subset
  <1>5. Cardinality(P) \in Nat \ {0} /\ Cardinality(D) \in Nat
    BY <1>1, <1>4, FS_CardinalityType, FS_EmptySet
  <1> HIDE DEF c
  <1>6. /\ Order(r, k) \in Nat /\ Order(r, k) > req[r].prior[c]
        /\ Order(r, k) <= req[r].prior[c] + Cardinality(D)
    BY <1>2, <1>3, <1>4, <1>5
  <1> QED BY <1>2, <1>6 DEF c, D

LEMMA CountsAdd ==
    ASSUME IInv, NEW r \in Requests, SubmitCommit(r), NEW c
    PROVE  /\ Cardinality(OfCode(c, attempts)) \in Nat
           /\ Cardinality(OfCode(c, NewAttempts(r))) \in Nat
           /\ Cardinality(OfCode(c, attempts')) =
                 Cardinality(OfCode(c, attempts)) + Cardinality(OfCode(c, NewAttempts(r)))
  <1> DEFINE O == OfCode(c, attempts)
             N == OfCode(c, NewAttempts(r))
  <1>1. TypeOK /\ req[r].pc = "submit_commit" /\ IsFiniteSet(attempts)
    BY DEF IInv, TypeOK, SubmitCommit
  <1>2. IsFiniteSet(O) /\ IsFiniteSet(N)
    <2>1. IsFiniteSet(NewAttempts(r))
      BY <1>1, NewAttemptsTyped
    <2> QED BY <1>1, <2>1, FS_Subset DEF OfCode
  <1>3. OfCode(c, attempts') = O \cup N /\ O \cap N = {}
    BY CommitAdds DEF OfCode
  <1> HIDE DEF O, N
  <1>4. /\ Cardinality(O) \in Nat /\ Cardinality(N) \in Nat
        /\ Cardinality(O \cup N) = Cardinality(O) + Cardinality(N)
    <2>1. Cardinality(O) \in Nat /\ Cardinality(N) \in Nat
      BY <1>2, FS_CardinalityType
    <2>2. Cardinality(O \cup N) = Cardinality(O) + Cardinality(N) - Cardinality(O \cap N)
      BY <1>2, FS_Union
    <2>3. Cardinality(O \cap N) = 0
      BY <1>3, FS_EmptySet
    <2> QED BY <2>1, <2>2, <2>3
  <1> QED BY <1>3, <1>4 DEF O, N

LEMMA NumbersStep ==
    ASSUME IInv, OrdersCounted, AttemptOrderUnique, [Next]_vars, [CountsCurrent]_vars
    PROVE  OrdersCounted' /\ AttemptOrderUnique'
  <1>1. ASSUME NEW r \in Requests, SubmitCommit(r)
        PROVE  OrdersCounted' /\ AttemptOrderUnique'
    <2> DEFINE Prior(c) == Cardinality(OfCode(c, attempts))
    <2>1. /\ attempts' = attempts \cup NewAttempts(r)
          /\ attempts \subseteq Attempt /\ NewAttempts(r) \subseteq Attempt
          /\ TypeOK /\ req[r].pc = "submit_commit"
      BY <1>1, CommitAdds DEF IInv, TypeOK, SubmitCommit
    <2>2. \A k \in Slots : req[r].prior[Code[req[r].s][k]] = Prior(Code[req[r].s][k])
      <3>1. session' # session
        <4>1. req[r].s \in Sessions /\ session[req[r].s].source = None
              /\ session'[req[r].s].source # None
          BY <1>1, CommitWrites DEF Submitted
        <4> QED BY <4>1
      <3> QED BY <1>1, <3>1 DEF CountsCurrent, vars, db
    <2>3. ASSUME NEW a \in NewAttempts(r)
          PROVE  /\ a.order \in Nat /\ a.code \in Codes
                 /\ a.order > Prior(a.code)
                 /\ a.order <= Cardinality(OfCode(a.code, attempts'))
      <3>1. PICK k \in Drained(req[r].rows) : a = GradedRow(r, k)
        BY NewAttemptsGraded
      <3> DEFINE c == a.code
                 D == {j \in Drained(req[r].rows) : Code[req[r].s][j] = c}
                 N == OfCode(c, NewAttempts(r))
      <3>2. c = Code[req[r].s][k] /\ a.order = Order(r, k) /\ c \in Codes
        BY <2>1, <3>1, NewAttemptsGraded DEF Attempt
      <3>3. req[r].prior[c] = Prior(c)
        BY <2>2, <3>2 DEF Drained
      <3>4. /\ a.order \in Nat /\ a.order > Prior(c) /\ a.order <= Prior(c) + Cardinality(D)
        <4> HIDE DEF Prior
        <4> QED BY <2>1, <3>2, <3>3, OrderBetween
      <3>5. Cardinality(D) \in Nat /\ Cardinality(D) <= Cardinality(N)
        BY <2>1, BatchCounted
      <3>6. /\ Prior(c) \in Nat /\ Cardinality(N) \in Nat
            /\ Cardinality(OfCode(c, attempts')) = Prior(c) + Cardinality(N)
        BY <1>1, CountsAdd
      <3> HIDE DEF Prior, D, N, c
      <3>7. a.order <= Cardinality(OfCode(c, attempts'))
        BY <3>4, <3>5, <3>6
      <3> QED BY <3>2, <3>4, <3>7 DEF c
    <2>4. ASSUME NEW a \in attempts
          PROVE  /\ a.order \in Nat /\ a.order <= Prior(a.code) /\ Prior(a.code) \in Nat
                 /\ a.order <= Cardinality(OfCode(a.code, attempts'))
      <3>1. a.order \in Nat /\ a.order <= Prior(a.code)
        BY <2>1 DEF Attempt, OrdersCounted
      <3>2. /\ Prior(a.code) \in Nat /\ Cardinality(OfCode(a.code, NewAttempts(r))) \in Nat
            /\ Cardinality(OfCode(a.code, attempts'))
                   = Prior(a.code) + Cardinality(OfCode(a.code, NewAttempts(r)))
        BY <1>1, CountsAdd
      <3> HIDE DEF Prior
      <3> QED BY <3>1, <3>2
    <2>5. OrdersCounted'
      BY <2>1, <2>3, <2>4 DEF OrdersCounted
    <2>6. ASSUME NEW a \in attempts', NEW b \in attempts', a.code = b.code, a.order = b.order
          PROVE  a = b
      <3>1. CASE a \in attempts /\ b \in attempts
        BY <2>6, <3>1 DEF AttemptOrderUnique
      <3>2. CASE a \in NewAttempts(r) /\ b \in NewAttempts(r)
        BY <2>1, <2>6, <3>2, NewAttemptsApart
      <3>3. ASSUME NEW o \in attempts, NEW n \in NewAttempts(r), o.code = n.code, o.order = n.order
            PROVE  FALSE
        <4> HIDE DEF Prior
        <4> QED BY <2>3, <2>4, <3>3
      <3> QED BY <2>1, <2>6, <3>1, <3>2, <3>3
    <2> QED BY <2>5, <2>6 DEF AttemptOrderUnique
  <1>2. CASE \A r \in Requests : ~SubmitCommit(r)
    BY <1>2, AttemptsKept DEF OrdersCounted, AttemptOrderUnique
  <1> QED BY <1>1, <1>2

(* "attempt_order is unique within the (student x question_code) tuple"     *)
(* fails for one reason only: attempts at a question of the session are    *)
(* committed by another one between a drain's prior count and its commit.  *)
(* While that does not happen no two attempts of any sessions share a      *)
(* number, however requests race, die and repeat.  (the prior counts are   *)
(* batched and read without a lock)                                        *)
THEOREM AttemptOrderUniqueIfCurrent ==
    Spec /\ [][CountsCurrent]_vars => []AttemptOrderUnique
  <1>1. Init => OrdersCounted /\ AttemptOrderUnique
    BY DEF Init, OrdersCounted, AttemptOrderUnique
  <1>2. IInv /\ OrdersCounted /\ AttemptOrderUnique /\ [Next]_vars /\ [CountsCurrent]_vars
        => OrdersCounted' /\ AttemptOrderUnique'
    BY NumbersStep
  <1> QED BY <1>1, <1>2, InvInit, InvStep, PTL DEF Spec
=============================================================================
