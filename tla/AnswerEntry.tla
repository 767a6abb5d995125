----------------------------- MODULE AnswerEntry -----------------------------
(***************************************************************************)
(* Entering answers on the runtime page: the controls of AnswerEntry, the  *)
(* numeric filter (numeric-input.ts), the palette, saveSnapshot of         *)
(* RuntimeProvider.tsx and the submit dialog; and what the entries come    *)
(* to, statusFor on the page and gradeAnswer with normalizeNumDec on the   *)
(* server.                                                                 *)
(*                                                                         *)
(* A step is a render's event handler, up to its await: saveSnapshot shows *)
(* its snapshot and puts it in the queue in one step, and writes the same  *)
(* snapshot back when IndexedDB has answered, in the order of the saves.   *)
(* TelemetryQueue has the way to the server, RuntimeClient the automatic   *)
(* submits and the authentication.                                         *)
(*                                                                         *)
(* A numeric text is a record: a minus, the digits before and after the    *)
(* point, and whether there is a point.                                    *)
(***************************************************************************)
EXTENDS Integers, SequencesExt

CONSTANTS
    Tests,     \* question papers, each a sequence of questions
    Digits,    \* the digits typed
    Pastes,    \* texts pasted, as sequences of characters
    MaxSaves,  \* BOUND: saves in one behaviour
    MaxMoves,  \* BOUND: jumps
    None       \* null

(* The question types of answer_type, each with what its answer_spec holds *)
(* and the authored answer.                                                *)
Numeric(q) == q.type \in {"NUM-INT", "NUM-DEC"}

(* The characters of a numeric text, and the other keys, next to 0..9.     *)
Minus == 10
Point == 11
Letter == 12
Erase == 13
Clear == 14

Num == [neg : BOOLEAN, int : Seq(0..9), dot : BOOLEAN, frac : Seq(0..9)]

Questions ==
    [type : {"MCQ-SC", "MCQ-MC"}, options : Nat]
      \cup [type : {"MAT-COL"}, rows : Nat, picks : Nat]
      \cup [type : {"NUM-INT"}, min : Int, max : Int, answer : Num]
      \cup [type : {"NUM-DEC"}, precision : Nat, answer : Num]

ASSUME TestsAssumption == Tests \subseteq Seq(Questions) \ {<<>>}
ASSUME KeysAssumption == Digits \subseteq 0..9 /\ Pastes \subseteq Seq(0..Letter)
ASSUME AnswerBounds == MaxSaves \in Nat /\ MaxMoves \in Nat

VARIABLES
    test,       \* the paper
    snapshots,  \* per slot the snapshot in the page's state, or None
    visited,    \* visitedSetRef
    current,    \* currentSlotIndex
    saving,     \* the saves whose enqueueSnapshot has not come back
    queued,     \* per slot the body last put in the queue, or None
    dialog,     \* the submit dialog: whether it is open, its step
    submit,     \* IDLE, AUTO_SUBMITTING or SUBMITTED, as set by manualSubmit
    used        \* saves and jumps so far

vars == <<test, snapshots, visited, current, saving, queued, dialog, submit, used>>

Slots == DOMAIN test

Question == test[current]

-----------------------------------------------------------------------------
(* Numeric texts *)

Empty == [neg |-> FALSE, int |-> <<>>, dot |-> FALSE, frac |-> <<>>]

(* 10^n *)
Ten[n \in Nat] == IF n = 0 THEN 1 ELSE 10 * Ten[n - 1]

(* The number a sequence of digits stands for. *)
Digital(s) ==
    LET n[i \in 0..Len(s)] == IF i = 0 THEN 0 ELSE 10 * n[i - 1] + s[i]
    IN  n[Len(s)]

Signed(neg, n) == IF neg THEN -n ELSE n

(* Number(value) of a NUM-INT text that has digits. *)
Integer(v) == Signed(v.neg, Digital(v.int))

WithinIntRange(v, q) == v.int = <<>> \/ Integer(v) \in q.min..q.max

Backspace(v) ==
    CASE v.frac # <<>> -> [v EXCEPT !.frac = Front(@)]
      [] v.frac = <<>> /\ v.dot -> [v EXCEPT !.dot = FALSE]
      [] ~v.dot /\ v.int # <<>> -> [v EXCEPT !.int = Front(@)]
      [] OTHER -> Empty

Keys == Digits \cup {Minus, Point, Erase, Clear}

(* Whether applyKey rejects a key for the text v of question q. *)
Refused(v, key, q) ==
    CASE key = Minus -> v # Empty
      [] key = Point -> q.type = "NUM-INT" \/ q.precision = 0 \/ v.dot \/ v.int = <<>>
      [] key \in Digits ->
            \/ v.dot /\ Len(v.frac) >= q.precision
            \/ q.type = "NUM-INT" /\ ~WithinIntRange([v EXCEPT !.int = Append(@, key)], q)
      [] OTHER -> FALSE

ApplyKey(v, key) ==
    CASE key = Erase -> Backspace(v)
      [] key = Clear -> Empty
      [] key = Minus -> [v EXCEPT !.neg = TRUE]
      [] key = Point -> [v EXCEPT !.dot = TRUE]
      [] OTHER -> IF v.dot THEN [v EXCEPT !.frac = Append(@, key)]
                           ELSE [v EXCEPT !.int = Append(@, key)]

(* The characters of a text that are in a set, in order. *)
Only(text, chars) ==
    LET kept[i \in 0..Len(text)] ==
            IF i = 0 THEN <<>>
            ELSE IF text[i] \in chars THEN Append(kept[i - 1], text[i]) ELSE kept[i - 1]
    IN  kept[Len(text)]

(* The pasted text without foreign characters: a minus counts at the       *)
(* start, a point the first time.                                          *)
Stripped(text) ==
    LET raw  == Only(text, 0..9 \cup {Minus, Point})
        body == Only(raw, 0..9 \cup {Point})
        dots == {i \in DOMAIN body : body[i] = Point}
        at   == IF dots = {} THEN Len(body) + 1 ELSE Min(dots)
    IN  [neg |-> raw # <<>> /\ Head(raw) = Minus, int |-> SubSeq(body, 1, at - 1),
         dot |-> dots # {}, frac |-> Only(SubSeq(body, at, Len(body)), 0..9)]

(* Mutant: no truncation. *)
ApplyPasteWhole(text, q) ==
    LET v == Stripped(text)
        t == IF q.type = "NUM-INT" THEN [v EXCEPT !.dot = FALSE, !.frac = <<>>] ELSE v
    IN  IF q.type = "NUM-INT" /\ ~WithinIntRange(t, q) THEN Empty ELSE t

ApplyPaste(text, q) ==
    LET v == Stripped(text)
        t == IF q.type = "NUM-INT" \/ q.precision = 0
             THEN [v EXCEPT !.dot = FALSE, !.frac = <<>>]
             ELSE [v EXCEPT !.frac = SubSeq(@, 1, Min({Len(@), q.precision}))]
    IN  IF q.type = "NUM-INT" /\ ~WithinIntRange(t, q) THEN Empty ELSE t

-----------------------------------------------------------------------------
(* Rounding: the same in the frontend's numeric.ts and the backend's *)

(* Half to even, on the digits: 10^k units make one of the result. *)
HalfEven(n, k) ==
    LET unit == Ten[k]
        down == n \div unit
        rest == 2 * (n % unit)
    IN  IF rest > unit \/ (rest = unit /\ down % 2 = 1) THEN down + 1 ELSE down

Readable(v) == v.int # <<>> \/ v.frac # <<>>

(* The magnitude in units of 10^-p. *)
Rounded(v, p) ==
    LET n == Digital(v.int \o v.frac)
        k == Len(v.frac)
    IN  IF k <= p THEN n * Ten[p - k] ELSE HalfEven(n, k - p)

(* Mutant: the sign of a zero is kept. *)
NormalizedSigned(v, p) == [neg |-> v.neg, digits |-> Rounded(v, p)]

(* toFixed(p), and no minus before a zero: two texts of this form are      *)
(* byte-equal exactly if they are the same record.                         *)
Normalized(v, p) ==
    LET r == Rounded(v, p) IN [neg |-> v.neg /\ r # 0, digits |-> r]

(* gradeAnswer: the numeric comparisons, and the set comparison of the     *)
(* choices.  The page's choices are option indices under selected_option   *)
(* and selected_options, the authored ones letters; pairs are not graded.  *)
Graded(q, payload) ==
    /\ payload # None
    /\ CASE q.type = "NUM-INT" ->
              payload.value.int # <<>> /\ Integer(payload.value) = Integer(q.answer)
         [] q.type = "NUM-DEC" ->
              /\ Readable(payload.value)
              /\ Normalized(payload.value, q.precision) = Normalized(q.answer, q.precision)
         [] OTHER -> FALSE

-----------------------------------------------------------------------------
(* Payloads, snapshots and what the palette says of them *)

(* emptyPayloadFor *)
EmptyPayload(q) ==
    CASE q.type = "MCQ-SC" -> [option |-> None]
      [] q.type = "MCQ-MC" -> [options |-> {}]
      [] Numeric(q) -> [value |-> Empty]
      [] q.type = "MAT-COL" -> [pairs |-> [r \in {} |-> None]]

(* What the controls show for no payload at all is the same. *)
Shown(q, snap) == IF snap = None \/ snap.payload = None THEN EmptyPayload(q) ELSE snap.payload

IsAnswered(q, payload) ==
    /\ payload # None
    /\ CASE q.type = "MCQ-SC" -> payload.option # None
         [] q.type = "MCQ-MC" -> payload.options # {}
         [] Numeric(q) -> payload.value # Empty
         [] q.type = "MAT-COL" ->
              /\ DOMAIN payload.pairs # {}
              /\ \A r \in DOMAIN payload.pairs : payload.pairs[r] # None

Status(i, snap) ==
    IF snap = None \/ (snap.visits = 0 /\ i # current) THEN "NOT_VISITED"
    ELSE LET answered == IsAnswered(test[i], snap.payload)
         IN  CASE snap.marked /\ answered -> "ANSWERED_AND_MARKED"
               [] snap.marked /\ ~answered -> "MARKED_FOR_REVIEW"
               [] ~snap.marked /\ answered -> "ANSWERED"
               [] OTHER -> "VISITED_NOT_ANSWERED"

(* The counts of the dialog and of the line under the question. *)
Counts(snaps) ==
    [s \in {"ANSWERED", "ANSWERED_AND_MARKED", "MARKED_FOR_REVIEW",
            "VISITED_NOT_ANSWERED", "NOT_VISITED"} |->
        {i \in Slots : Status(i, snaps[i]) = s}]

Blank == [payload |-> None, marked |-> FALSE, visits |-> 0]

Prev(i) == IF snapshots[i] = None THEN Blank ELSE snapshots[i]

-----------------------------------------------------------------------------
(* saveSnapshot *)

InputsDisabled == submit # "IDLE"

(* The page under the dialog cannot be clicked. *)
Page == ~dialog.open /\ UNCHANGED <<test, dialog, submit>>

(* Up to the await: snap is what the mutator makes of the snapshot.        *)
(* advance is a closure over the slot that was current.                    *)
Save(i, snap, advance) ==
    LET first == i \notin visited
        next  == [snap EXCEPT !.visits = Max({1, IF first THEN @ + 1 ELSE @})]
    IN  /\ used.saves < MaxSaves
        /\ used' = [used EXCEPT !.saves = @ + 1]
        /\ visited' = visited \cup {i}
        /\ snapshots' = [snapshots EXCEPT ![i] = next]
        /\ queued' = [queued EXCEPT ![i] = next]
        /\ saving' = Append(saving, [slot |-> i, snap |-> next, advance |-> advance, from |-> current])

Arrive(i, snaps) ==
    /\ visited' = visited \cup {i}
    /\ snapshots' = IF i \in visited /\ snaps[i] = None THEN snaps
                    ELSE [snaps EXCEPT ![i] =
                            LET prev == IF snaps[i] = None THEN Blank ELSE snaps[i]
                            IN  [prev EXCEPT !.visits = @ + 1]]
    /\ current' = i

(* Mutant: the writes come back in any order. *)
SavedInAnyOrder ==
    /\ \E n \in DOMAIN saving :
          LET save  == saving[n]
              snaps == [snapshots EXCEPT ![save.slot] = save.snap]
          IN  /\ saving' = RemoveAt(saving, n)
              /\ IF save.advance /\ save.from < Len(test)
                 THEN Arrive(save.from + 1, snaps)
                 ELSE snapshots' = snaps /\ UNCHANGED <<visited, current>>
    /\ UNCHANGED <<test, queued, dialog, submit, used>>

(* After the await: the snapshot of that time goes back into the state.    *)
Saved ==
    /\ saving # <<>>
    /\ LET save  == Head(saving)
           snaps == [snapshots EXCEPT ![save.slot] = save.snap]
       IN  IF save.advance /\ save.from < Len(test)
           THEN Arrive(save.from + 1, snaps)
           ELSE snapshots' = snaps /\ UNCHANGED <<visited, current>>
    /\ saving' = Tail(saving)
    /\ UNCHANGED <<test, queued, dialog, submit, used>>

-----------------------------------------------------------------------------
(* The controls of the current question: onAnswerChange and onClear *)

Change(payload) ==
    /\ Page
    /\ ~InputsDisabled
    /\ Save(current, [Prev(current) EXCEPT !.payload = payload], FALSE)
    /\ UNCHANGED current

Value == Shown(Question, snapshots[current])

(* NumericInputBase.press *)
Press(key) ==
    /\ Numeric(Question)
    /\ ~Refused(Value.value, key, Question)
    /\ Change([value |-> ApplyKey(Value.value, key)])

Paste(text) ==
    /\ Numeric(Question)
    /\ Change([value |-> ApplyPaste(text, Question)])

(* MCQSingleChoice: a radio button that is set does not change. *)
Choose(o) ==
    /\ Question.type = "MCQ-SC"
    /\ Value.option # o
    /\ Change([option |-> o])

(* MCQMultiChoice.toggle *)
Toggle(o) ==
    /\ Question.type = "MCQ-MC"
    /\ Change([options |-> (Value.options \cup {o}) \ (Value.options \cap {o})])

(* MatColumnEntry.choose: the row's entry, which stays when it is reset. *)
Match(row, pick) ==
    /\ Question.type = "MAT-COL"
    /\ Change([pairs |-> [r \in DOMAIN Value.pairs \cup {row} |->
                             IF r = row THEN pick ELSE Value.pairs[r]]])

Answering ==
    \/ \E key \in Keys : Press(key)
    \/ \E text \in Pastes : Paste(text)
    \/ \E o \in 0..4 : /\ Question.type \in {"MCQ-SC", "MCQ-MC"} /\ o < Question.options
                       /\ Choose(o) \/ Toggle(o)
    \/ /\ Question.type = "MAT-COL"
       /\ \E row \in 0..Question.rows - 1, pick \in 0..Question.picks - 1 \cup {None} : Match(row, pick)
    \/ Change(EmptyPayload(Question))

(* The buttons of the action row: Save & Next, Save & Mark & Next, Mark. *)
SaveAndNext(mark) ==
    /\ Page
    /\ ~InputsDisabled
    /\ Save(current, [Prev(current) EXCEPT !.marked = @ \/ mark], TRUE)
    /\ UNCHANGED current

ToggleMark ==
    /\ Page
    /\ ~InputsDisabled
    /\ Save(current, [Prev(current) EXCEPT !.marked = ~@], FALSE)
    /\ UNCHANGED current

(* The palette: a click jumps, a shift-click moves there and toggles the mark. *)
Jump(i) ==
    /\ Page
    /\ used.moves < MaxMoves
    /\ used' = [used EXCEPT !.moves = @ + 1]
    /\ Arrive(i, snapshots)
    /\ UNCHANGED <<saving, queued>>

PaletteMark(i) ==
    /\ Page
    /\ Save(i, [Prev(i) EXCEPT !.marked = ~@], FALSE)
    /\ current' = i

-----------------------------------------------------------------------------
(* SubmitConfirm and manualSubmit *)

Entries == <<test, snapshots, visited, current, saving, queued, used>>

OpenDialog ==
    /\ ~dialog.open /\ ~InputsDisabled
    /\ dialog' = [dialog EXCEPT !.open = TRUE]
    /\ UNCHANGED <<Entries, submit>>

SubmitNow ==
    /\ dialog = [open |-> TRUE, step |-> 1] /\ ~InputsDisabled
    /\ dialog' = [dialog EXCEPT !.step = 2]
    /\ UNCHANGED <<Entries, submit>>

(* Continue test, and Cancel. *)
Cancel ==
    /\ dialog.open /\ ~InputsDisabled
    /\ dialog' = [open |-> FALSE, step |-> 1]
    /\ UNCHANGED <<Entries, submit>>

Chip(i) ==
    /\ dialog = [open |-> TRUE, step |-> 1] /\ ~InputsDisabled
    /\ used.moves < MaxMoves
    /\ used' = [used EXCEPT !.moves = @ + 1]
    /\ Arrive(i, snapshots)
    /\ dialog' = [open |-> FALSE, step |-> 1]
    /\ UNCHANGED <<test, saving, queued, submit>>

Confirm ==
    /\ dialog = [open |-> TRUE, step |-> 2] /\ submit = "IDLE"
    /\ submit' = "AUTO_SUBMITTING"
    /\ UNCHANGED <<Entries, dialog>>

(* The dialog is left as it is, on success and on failure. *)
SubmitEnds ==
    /\ submit = "AUTO_SUBMITTING"
    /\ submit' \in {"SUBMITTED", "IDLE"}
    /\ UNCHANGED <<Entries, dialog>>

-----------------------------------------------------------------------------
(* The page opens on the snapshots of the session: none, or a hint's row.  *)
Init ==
    /\ test \in Tests
    /\ snapshots \in [Slots -> {None, Blank}]
    /\ visited = {} /\ current = 1
    /\ saving = <<>>
    /\ queued = [i \in Slots |-> None]
    /\ dialog = [open |-> FALSE, step |-> 1]
    /\ submit = "IDLE"
    /\ used = [saves |-> 0, moves |-> 0]

Next ==
    \/ Answering \/ ToggleMark \/ Saved
    \/ \E mark \in BOOLEAN : SaveAndNext(mark)
    \/ \E i \in Slots : Jump(i) \/ PaletteMark(i) \/ Chip(i)
    \/ OpenDialog \/ SubmitNow \/ Cancel \/ Confirm \/ SubmitEnds

Spec == Init /\ [][Next]_vars

-----------------------------------------------------------------------------
(* Properties *)

(* The numeric texts an answer of q may have.  Backspace does not look at  *)
(* the range, so that only a range with zero in it is kept.                *)
Within(v, q) ==
    /\ ~v.dot => v.frac = <<>>
    /\ q.type = "NUM-INT" => ~v.dot /\ (0 \in q.min..q.max => WithinIntRange(v, q))
    /\ q.type = "NUM-DEC" => Len(v.frac) <= q.precision

(* What may be on the page as the answer of a question. *)
Payload(q) ==
    CASE q.type = "MCQ-SC" -> [option : 0..q.options - 1 \cup {None}]
      [] q.type = "MCQ-MC" -> [options : SUBSET (0..q.options - 1)]
      [] Numeric(q) -> [value : {v \in Num : Within(v, q)}]
      [] q.type = "MAT-COL" ->
            [pairs : UNION {[rows -> 0..q.picks - 1 \cup {None}] : rows \in SUBSET (0..q.rows - 1)}]

Snapshot(q) == [payload : Payload(q) \cup {None}, marked : BOOLEAN, visits : Nat]

ASSUME NoneAssumption == \A t \in Tests : \A i \in DOMAIN t : None \notin Snapshot(t[i])

(* The payload of a slot belongs to its question; a numeric answer never   *)
(* has more decimals than the question asks for, nor an integer answer a   *)
(* value out of a range that has zero in it, whether typed, pasted or      *)
(* edited (numeric-input.ts, AnswerEntry/).                                *)
TypeOK ==
    /\ test \in Tests /\ current \in Slots /\ visited \subseteq Slots
    /\ DOMAIN snapshots = Slots /\ DOMAIN queued = Slots
    /\ \A i \in Slots : {snapshots[i], queued[i]} \subseteq Snapshot(test[i]) \cup {None}
    /\ \A n \in DOMAIN saving :
          /\ saving[n].slot \in Slots /\ saving[n].from \in Slots /\ saving[n].advance \in BOOLEAN
          /\ saving[n].snap \in Snapshot(test[saving[n].slot])
    /\ dialog \in [open : BOOLEAN, step : 1..2]
    /\ submit \in {"IDLE", "AUTO_SUBMITTING", "SUBMITTED"}
    /\ used \in [saves : Nat, moves : Nat]

(* m units of 10^-p are the value of v rounded to p decimals, ties to even. *)
Rounds(m, v, p) ==
    LET n    == Signed(v.neg, Digital(v.int \o v.frac)) * Ten[p]
        unit == Ten[Len(v.frac)]
        off  == 2 * (IF n < m * unit THEN m * unit - n ELSE n - m * unit)
    IN  off < unit \/ (off = unit /\ m % 2 = 0)

(* A decimal answer is graded correct exactly if it has a value and rounds *)
(* to the same number as the authored answer, whatever its leading zeros,  *)
(* its trailing point or the sign of its zero, although the code compares  *)
(* two texts (numeric.ts:105, gradeAnswer).                                *)
GradedByValue ==
    \A i \in Slots : test[i].type = "NUM-DEC" /\ queued[i] # None /\ queued[i].payload # None =>
        LET q == test[i]
            v == queued[i].payload.value
            n == Rounded(q.answer, q.precision) + 1
        IN  Graded(q, queued[i].payload)
            <=> Readable(v) /\ \E m \in -n..n : Rounds(m, v, q.precision) /\ Rounds(m, q.answer, q.precision)

(* Once the saves have come back, the page shows for every question the    *)
(* answer and the mark that it last queued for the server, and the counts  *)
(* which the student confirms a submit on are the counts of what is queued *)
(* (saveSnapshot's two updates around the await, RuntimeProvider.tsx:494   *)
(* and 504).                                                               *)
ShownIsQueued ==
    saving = <<>> =>
        LET sent == [i \in Slots |-> IF queued[i] = None THEN snapshots[i] ELSE queued[i]]
        IN  /\ \A i \in Slots : queued[i] # None =>
                  snapshots[i].payload = sent[i].payload /\ snapshots[i].marked = sent[i].marked
            /\ Counts(snapshots) = Counts(sent)
=============================================================================
