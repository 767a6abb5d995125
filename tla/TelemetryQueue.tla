--------------------------- MODULE TelemetryQueue ---------------------------
(***************************************************************************)
(* The browser's telemetry queue, frontend/src/lib/telemetry-queue.ts: the *)
(* student's edits and the anti-cheat violations wait in memory, mirrored  *)
(* in IndexedDB, until a drain loop has posted them one by one.            *)
(*                                                                         *)
(* JavaScript runs one callback at a time, so a step here is what the code *)
(* does between two awaits.  The three things awaited are the IndexedDB    *)
(* read of hydrate, the IndexedDB writes (they complete in the order they  *)
(* were asked for, and saves holds those that have not), and the post.     *)
(* The page may be reloaded between any two steps.                         *)
(* The network and the server are the environment: a post may be lost, or  *)
(* executed with its response lost, or executed long after the client gave *)
(* up on it.  The server keeps, per slot, the highest action_seq.          *)
(***************************************************************************)
EXTENDS Naturals, Sequences, FiniteSets

CONSTANTS
    Slots,        \* question slots
    None,         \* no value; as a slot: a violation
    MaxEvents,    \* BOUND: edits and violations in one behaviour
    MaxReloads,   \* BOUND: page reloads
    MaxTries,     \* BOUND: failed posts
    Accepted,     \* the kinds of body the server's validation lets through
    Early         \* whether events may arrive before hydrate has finished

ASSUME SlotsAssumption == None \notin Slots
ASSUME QueueBounds == MaxEvents \in Nat /\ MaxReloads \in Nat /\ MaxTries \in Nat
ASSUME AcceptedAssumption == Accepted \subseteq {"snapshot", "violation"} /\ Early \in BOOLEAN

VARIABLES
    state,         \* the pending actions and the tries of each
    localCounter,  \* the last action_seq given out by this page
    hydrated,      \* whether hydrate has installed what IndexedDB held
    drain,         \* the drain loop: where it is, its action, its tries, its post
    timer,         \* whether scheduleDrain's timer is set
    dormant,       \* whether a 401 has stopped the queue
    saves,         \* IndexedDB writes asked for and not yet done
    disk,          \* what IndexedDB holds under runtime-q::{session_id}
    submit,        \* the submit that waits for the queue
    stray,         \* posts the client gave up on and the server may still run
    server,        \* per slot the stored action_seq and edit; submitted
    events,        \* history: events and reloads so far; the events before this
                   \* page (start); the last edit of each slot; whether this page
                   \* enqueued before it was hydrated (early); whether some page did,
                   \* or an edit overtook a post, or a reload lost a write or
                   \* restarted the numbering (disturbed)
    failures       \* failed posts so far

memory == <<state, localCounter, hydrated, drain, timer, dormant, saves, submit>>
vars == <<memory, disk, stray, server, events, failures>>

(* An edit of a slot, or a violation (slot None); event numbers the events. *)
Action == [slot : Slots \cup {None}, seq : Nat, event : Nat]
QueueState == [pending : Seq(Action), attempts : Seq(Nat)]

Kind(a) == IF a.slot = None THEN "violation" ELSE "snapshot"

NoPost == [pc |-> "idle", action |-> None, tries |-> 0, executed |-> FALSE]
Empty == [pending |-> <<>>, attempts |-> <<>>]

-----------------------------------------------------------------------------
(* Helpers *)

(* Mutation: the whole history of a slot is kept. *)
KeepAll(pending) == pending

(* Keep the last snapshot of each slot and every violation.                 *)
Kept(pending) ==
    {i \in DOMAIN pending :
        \/ pending[i].slot = None
        \/ \A j \in DOMAIN pending : j > i => pending[j].slot # pending[i].slot}

(* The n-th of a set of indices. *)
Nth(indices, n) ==
    CHOOSE i \in indices : Cardinality({j \in indices : j <= i}) = n

CollapseSnapshots(pending) ==
    [n \in 1..Cardinality(Kept(pending)) |-> pending[Nth(Kept(pending), n)]]

(* Mutation: a collapse of the actions forgets that attempts runs parallel. *)
AppendedWithoutTries(q, a) ==
    [pending |-> CollapseSnapshots(Append(q.pending, a)), attempts |-> q.attempts]

(* append: push, collapse, and start counting tries anew after a collapse.  *)
Appended(q, a) ==
    LET pushed == Append(q.pending, a)
        kept == CollapseSnapshots(pushed) IN
    [pending |-> kept,
     attempts |-> IF Len(kept) = Len(pushed) THEN Append(q.attempts, 0)
                  ELSE [i \in DOMAIN kept |-> 0]]

(* Array.prototype.shift: nothing happens to an empty array.                *)
Shift(seq) == IF seq = <<>> THEN seq ELSE Tail(seq)

(* attempts[0] = n also extends an empty array.                             *)
SetFirst(seq, n) == IF seq = <<>> THEN <<n>> ELSE [seq EXCEPT ![1] = n]

(* Tries beyond MaxTries are not told apart.                                *)
Tried(n) == IF n < MaxTries THEN n + 1 ELSE n

Save(q, by) == saves' = Append(saves, [value |-> q, by |-> by])

(* scheduleDrain *)
ScheduleDrain == timer' = (timer \/ ~dormant)

(* dispatch(pending[0]) *)
Send(q) == drain' = [pc |-> "sending", action |-> Head(q.pending),
                     tries |-> Head(q.attempts), executed |-> FALSE]

(* The post under way, if the server may still run it after the client gave *)
(* up; a late violation changes nothing that is modelled here.              *)
Unsettled ==
    {a \in {drain.action} : drain.pc = "sending" /\ ~drain.executed /\ a.slot # None}

(* An edit of the slot whose edit is being posted: the collapse takes that  *)
(* one out of pending, and the shift after the answer drops another.        *)
Overtakes(slot) == slot # None /\ drain.pc = "sending" /\ drain.action.slot = slot

(* Inputs are disabled during a submit and after an authentication error.   *)
InputsEnabled == submit = "no" /\ ~dormant

-----------------------------------------------------------------------------
(* hydrate *)

(* Mutation: the maximum is taken without an initial 0. *)
HighestOrNone(pending) == IF pending = <<>> THEN None
                          ELSE CHOOSE n \in {pending[i].seq : i \in DOMAIN pending} :
                                  \A i \in DOMAIN pending : pending[i].seq <= n

Highest(pending) == IF pending = <<>> THEN 0
                    ELSE CHOOSE n \in {pending[i].seq : i \in DOMAIN pending} :
                            \A i \in DOMAIN pending : pending[i].seq <= n

(* The read was asked for before any write of this page, so it returns what *)
(* the page found, and replaces whatever was enqueued meanwhile.            *)
Hydrate ==
    /\ ~hydrated
    /\ hydrated' = TRUE
    /\ state' = disk
    /\ localCounter' = Highest(disk.pending)
    /\ timer' = (timer \/ disk.pending # <<>>)
    /\ UNCHANGED <<drain, dormant, saves, submit, disk, stray, server, events, failures>>

-----------------------------------------------------------------------------
(* enqueueSnapshot and enqueueViolation: number the action, append it, ask  *)
(* for the write; the continuation after the write schedules a drain.       *)

Enqueue(slot) ==
    LET a == [slot |-> slot, seq |-> localCounter + 1, event |-> events.count + 1]
        q == Appended(state, a) IN
    /\ events.count < MaxEvents
    /\ hydrated \/ Early
    /\ localCounter' = localCounter + 1
    /\ state' = q
    /\ Save(q, "enqueue")
    /\ events' = [events EXCEPT !.count = a.event, !.early = @ \/ ~hydrated,
                  !.disturbed = @ \/ ~hydrated \/ Overtakes(slot),
                  !.last = [k \in Slots |-> IF k = slot THEN a.event ELSE events.last[k]]]
    /\ UNCHANGED <<hydrated, drain, timer, dormant, submit, disk, stray, server, failures>>

EnqueueSnapshot(slot) == InputsEnabled /\ Enqueue(slot)

(* The anti-cheat listeners stay installed for the life of the page.        *)
EnqueueViolation == Enqueue(None)

-----------------------------------------------------------------------------
(* The drain loop *)

CanDrain == drain.pc = "idle" /\ ~dormant /\ state.pending # <<>>

(* The timer fires; tryDrainOnce returns at once when it may not drain.     *)
TimerFires ==
    /\ timer
    /\ timer' = FALSE
    /\ IF CanDrain THEN Send(state) ELSE UNCHANGED drain
    /\ UNCHANGED <<state, localCounter, hydrated, dormant, saves, submit,
                   disk, stray, server, events, failures>>

(* Mutation: the write after a successful post is forgotten. *)
PostSucceedsUnsaved ==
    LET q == [pending |-> Shift(state.pending), attempts |-> Shift(state.attempts)] IN
    /\ drain.pc = "sending" /\ drain.executed
    /\ state' = q
    /\ IF q.pending = <<>> THEN drain' = NoPost ELSE Send(q)
    /\ UNCHANGED <<localCounter, hydrated, timer, dormant, saves, submit,
                   disk, stray, server, events, failures>>

(* The post resolves: shift the head away and ask for the write.            *)
PostSucceeds ==
    LET q == [pending |-> Shift(state.pending), attempts |-> Shift(state.attempts)] IN
    /\ drain.pc = "sending" /\ drain.executed
    /\ state' = q
    /\ Save(q, "sent")
    /\ drain' = [NoPost EXCEPT !.pc = "saving"]
    /\ UNCHANGED <<localCounter, hydrated, timer, dormant, submit,
                   disk, stray, server, events, failures>>

(* The post rejects, for a lost request, a lost response or any status but  *)
(* 2xx and 401.                                                             *)
PostFails ==
    LET q == [state EXCEPT !.attempts = SetFirst(@, Tried(drain.tries))] IN
    /\ drain.pc = "sending"
    /\ failures < MaxTries
    /\ failures' = failures + 1
    /\ state' = q
    /\ Save(q, "failed")
    /\ drain' = [NoPost EXCEPT !.pc = "saving"]
    /\ stray' = stray \cup Unsettled
    /\ UNCHANGED <<localCounter, hydrated, timer, dormant, submit, disk, server, events>>

(* A body the server's validation refuses fails every time.                 *)
PostRefused ==
    LET q == [state EXCEPT !.attempts = SetFirst(@, Tried(drain.tries))] IN
    /\ drain.pc = "sending" /\ ~drain.executed
    /\ Kind(drain.action) \notin Accepted \/ (server.submitted /\ Kind(drain.action) = "snapshot")
    /\ state' = q
    /\ Save(q, "failed")
    /\ drain' = [NoPost EXCEPT !.pc = "saving"]
    /\ UNCHANGED <<localCounter, hydrated, timer, dormant, submit,
                   disk, stray, server, events, failures>>

(* 401: the queue goes dormant and keeps what it has.                       *)
PostUnauthorized ==
    /\ drain.pc = "sending" /\ ~drain.executed
    /\ dormant' = TRUE
    /\ timer' = FALSE
    /\ drain' = NoPost
    /\ UNCHANGED <<state, localCounter, hydrated, saves, submit,
                   disk, stray, server, events, failures>>

-----------------------------------------------------------------------------
(* IndexedDB writes complete in order, and what was waiting for the write   *)
(* goes on: append schedules a drain, the loop takes the next action or     *)
(* backs off.                                                               *)

(* Mutation: after a failure the loop ends without backing off. *)
ContinueNoBackoff(by) ==
    \/ by = "enqueue" /\ ScheduleDrain /\ UNCHANGED drain
    \/ by = "sent" /\ state.pending # <<>> /\ Send(state) /\ UNCHANGED timer
    \/ by = "sent" /\ state.pending = <<>> /\ drain' = NoPost /\ UNCHANGED timer
    \/ by = "failed" /\ drain' = NoPost /\ UNCHANGED timer
    \/ by = "clear" /\ UNCHANGED <<timer, drain>>

Continue(by) ==
    \/ by = "enqueue" /\ ScheduleDrain /\ UNCHANGED drain
    \/ by = "sent" /\ state.pending # <<>> /\ Send(state) /\ UNCHANGED timer
    \/ by = "sent" /\ state.pending = <<>> /\ drain' = NoPost /\ UNCHANGED timer
    \/ by = "failed" /\ ScheduleDrain /\ drain' = NoPost
    \/ by = "clear" /\ UNCHANGED <<timer, drain>>

SaveDone ==
    /\ hydrated /\ saves # <<>>
    /\ saves' = Tail(saves)
    /\ disk' = Head(saves).value
    /\ Continue(Head(saves).by)
    /\ UNCHANGED <<state, localCounter, hydrated, dormant, submit, stray, server, events,
                   failures>>

-----------------------------------------------------------------------------
(* A submit waits for the queue (drainAndWait), posts, and on success clears *)
(* the queue.                                                                *)

SubmitBegins ==
    /\ hydrated /\ InputsEnabled
    /\ submit' = "waiting"
    /\ UNCHANGED <<state, localCounter, hydrated, drain, timer, dormant, saves,
                   disk, stray, server, events, failures>>

(* Mutation: tryDrainOnce forgets the dormant flag. *)
PollAlways ==
    /\ submit = "waiting"
    /\ drain.pc = "idle" /\ state.pending # <<>>
    /\ Send(state)
    /\ UNCHANGED <<state, localCounter, hydrated, timer, dormant, saves, submit,
                   disk, stray, server, events, failures>>

(* drainAndWait calls tryDrainOnce itself, timer or not.                    *)
Poll ==
    /\ submit = "waiting"
    /\ CanDrain
    /\ Send(state)
    /\ UNCHANGED <<state, localCounter, hydrated, timer, dormant, saves, submit,
                   disk, stray, server, events, failures>>

WaitEnds(result) ==
    /\ submit = "waiting"
    /\ result = "drained" => state.pending = <<>>
    /\ submit' = result
    /\ UNCHANGED <<state, localCounter, hydrated, drain, timer, dormant, saves,
                   disk, stray, server, events, failures>>

(* The submit is executed; its answer may still be lost.                    *)
SubmitExecutes ==
    /\ submit \in {"drained", "timed_out"}
    /\ server' = [server EXCEPT !.submitted = TRUE]
    /\ UNCHANGED <<memory, disk, stray, events, failures>>

SubmitSucceeds ==
    /\ submit \in {"drained", "timed_out"} /\ server.submitted
    /\ submit' = "done"
    /\ state' = Empty
    /\ Save(Empty, "clear")
    /\ UNCHANGED <<localCounter, hydrated, drain, timer, dormant, disk, stray, server,
                   events, failures>>

(* Mutation: the queue is cleared whatever the submit's answer was. *)
SubmitFailsClearing ==
    /\ submit \in {"drained", "timed_out"}
    /\ submit' = "no"
    /\ state' = Empty
    /\ Save(Empty, "clear")
    /\ UNCHANGED <<localCounter, hydrated, drain, timer, dormant, disk, stray, server,
                   events, failures>>

SubmitFails ==
    /\ submit \in {"drained", "timed_out"}
    /\ submit' = "no"
    /\ UNCHANGED <<state, localCounter, hydrated, drain, timer, dormant, saves,
                   disk, stray, server, events, failures>>

-----------------------------------------------------------------------------
(* The environment *)

(* Mutation: the server keeps the write that came last. *)
StoreLast(a) ==
    IF a.slot = None THEN server
    ELSE [server EXCEPT !.seq[a.slot] = a.seq, !.edit[a.slot] = a.event]

(* What PATCH /snapshots does with the body.                                *)
Store(a) ==
    IF a.slot # None /\ a.seq > server.seq[a.slot]
    THEN [server EXCEPT !.seq[a.slot] = a.seq, !.edit[a.slot] = a.event]
    ELSE server

MayExecute(a) == Kind(a) \in Accepted /\ (server.submitted => Kind(a) = "violation")

Execute ==
    /\ drain.pc = "sending" /\ ~drain.executed
    /\ MayExecute(drain.action)
    /\ server' = Store(drain.action)
    /\ drain' = [drain EXCEPT !.executed = TRUE]
    /\ UNCHANGED <<state, localCounter, hydrated, timer, dormant, saves, submit,
                   disk, stray, events, failures>>

ExecuteStray(a) ==
    /\ a \in stray
    /\ MayExecute(a)
    /\ server' = Store(a)
    /\ stray' = stray \ {a}
    /\ UNCHANGED <<memory, disk, events, failures>>

(* The page is closed and opened again (a submitted session is not).  Of the *)
(* outstanding writes a prefix may still complete.  The next page goes on   *)
(* counting from what waits on disk.                                        *)
Reload ==
    /\ events.reloads < MaxReloads /\ submit # "done"
    /\ state' = Empty /\ localCounter' = 0
    /\ hydrated' = FALSE
    /\ drain' = NoPost /\ timer' = FALSE /\ dormant' = FALSE
    /\ saves' = <<>> /\ submit' = "no"
    /\ stray' = stray \cup Unsettled
    /\ events' = [events EXCEPT !.reloads = @ + 1, !.start = events.count,
                                !.early = FALSE,
                                !.disturbed = @ \/ saves # <<>>
                                              \/ (hydrated /\ Highest(disk.pending) # localCounter)]
    /\ \E n \in 0..Len(saves) : disk' = IF n = 0 THEN disk ELSE saves[n].value
    /\ UNCHANGED <<server, failures>>

-----------------------------------------------------------------------------
Init ==
    /\ state = Empty /\ localCounter = 0
    /\ hydrated = FALSE
    /\ drain = NoPost /\ timer = FALSE /\ dormant = FALSE
    /\ saves = <<>> /\ disk = Empty /\ submit = "no" /\ stray = {}
    /\ server = [seq |-> [k \in Slots |-> 0], edit |-> [k \in Slots |-> 0], submitted |-> FALSE]
    /\ events = [count |-> 0, reloads |-> 0, start |-> 0, early |-> FALSE,
                 disturbed |-> FALSE,
                 last |-> [k \in Slots |-> 0]]
    /\ failures = 0

Page == Hydrate \/ TimerFires \/ SaveDone \/ Poll

Answer == Execute \/ PostSucceeds \/ PostRefused

Next ==
    \/ Page \/ Answer \/ PostFails \/ PostUnauthorized
    \/ EnqueueViolation \/ \E slot \in Slots : EnqueueSnapshot(slot)
    \/ SubmitBegins \/ SubmitExecutes \/ SubmitSucceeds \/ SubmitFails
    \/ \E result \in {"drained", "timed_out"} : WaitEnds(result)
    \/ \E a \in stray : ExecuteStray(a)
    \/ Reload

Spec == Init /\ [][Next]_vars

(* The event loop runs what is ready; a post that the server can answer is  *)
(* answered, though a bounded number of posts may fail first; drainAndWait  *)
(* has a deadline.                                                          *)
Fairness ==
    /\ WF_vars(Hydrate) /\ WF_vars(TimerFires) /\ WF_vars(SaveDone)
    /\ WF_vars(Answer)

FairSpec == Spec /\ Fairness

-----------------------------------------------------------------------------
(* Properties *)

(* Every variable has its type.                                             *)
TypeOK ==
    /\ state \in QueueState /\ disk \in QueueState
    /\ localCounter \in Nat /\ failures \in Nat
    /\ hydrated \in BOOLEAN
    /\ drain \in [pc : {"idle", "sending", "saving"}, action : Action \cup {None},
                  tries : Nat, executed : BOOLEAN]
    /\ drain.pc = "sending" => drain.action \in Action
    /\ timer \in BOOLEAN /\ dormant \in BOOLEAN
    /\ saves \in Seq([value : QueueState, by : {"enqueue", "sent", "failed", "clear"}])
    /\ submit \in {"no", "waiting", "drained", "timed_out", "done"}
    /\ stray \subseteq Action
    /\ server \in [seq : [Slots -> Nat], edit : [Slots -> Nat], submitted : BOOLEAN]
    /\ events \in [count : Nat, reloads : Nat, start : Nat, early : BOOLEAN,
                   disturbed : BOOLEAN,
                   last : [Slots -> Nat]]

(* The pending actions are in the order they were made, at most one per     *)
(* slot, and numbered by rising action_seq, also after a reload picked up   *)
(* what an earlier page left.  (append, collapseSnapshots, hydrate)         *)
PendingInOrder ==
    LET p == state.pending IN
    \A i, j \in DOMAIN p : i < j =>
       /\ p[i].seq < p[j].seq /\ p[i].event < p[j].event
       /\ p[i].slot = p[j].slot => p[i].slot = None

(* The loop never reads a try count that is not there, whatever append,     *)
(* clear or a failed post did to the parallel arrays meanwhile.             *)
TriesKnown == Len(state.attempts) >= Len(state.pending)

(* When no write is outstanding IndexedDB holds what the page holds, so a   *)
(* reload resends what was not acknowledged and nothing else; a page that   *)
(* enqueued before it was hydrated is the exception.                        *)
DiskMatchesMemory == hydrated /\ ~events.early /\ saves = <<>> => disk = state

LastWaits(q, k) ==
    \E i \in DOMAIN q.pending : q.pending[i].slot = k /\ q.pending[i].event = events.last[k]

(* The last edit of every slot is on the server or waits to be posted, in   *)
(* memory or, until hydrate, on disk, whatever posts, submits and reloads   *)
(* fail, repeat or come late, until a submit is answered; except after an   *)
(* edit before hydrate or one that overtook a post, and after a reload that *)
(* lost a write or found the queue empty and numbers anew.                  *)
AnswersKept ==
    ~events.disturbed /\ submit # "done"
    => \A k \in Slots : \/ server.edit[k] >= events.last[k]
                        \/ LastWaits(IF hydrated THEN state ELSE disk, k)

(* However posts are lost, delayed past their retry or repeated, an edit of *)
(* the page never replaces a later edit in the snapshot the server stores.  *)
(* (action_seq)                                                             *)
ServerNeverGoesBack ==
    [][\A k \in Slots : server'.edit[k] > events.start => server'.edit[k] >= server.edit[k]]_vars

(* After a 401 the page posts nothing more.                                 *)
DormantIsSilent ==
    [][dormant /\ dormant' => ~(drain.pc # "sending" /\ drain'.pc = "sending")]_vars

(* Once the network lets posts through, a pending action does not wait for  *)
(* ever: the queue empties, unless a 401 stops it or the session is         *)
(* submitted (the server then refuses snapshots).  No wake-up is lost       *)
(* between append, the timer and the loop.                                  *)
QueueDrains == state.pending # <<>> ~> state.pending = <<>> \/ dormant \/ server.submitted

(* Claims of the documents that the code does not keep. *)

(* "Returns true if drained cleanly" and "collapse multiple pending writes  *)
(* for the same slot down to the latest": when drainAndWait returns true    *)
(* the server has every slot's last edit.                                   *)
DrainedIsDelivered ==
    submit = "drained" => \A k \in Slots : server.edit[k] >= events.last[k]

(* "with the highest action_seq winning", "latest action_seq wins": an edit *)
(* whose post the server has executed is stored, or a later one is.         *)
ExecutedIsStored ==
    drain.executed /\ drain.action.slot # None
    => server.edit[drain.action.slot] >= drain.action.event
=============================================================================
