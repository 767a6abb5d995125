# Verification of the JEE practice platform

TLA+ models of the test runtime of this repository (a NestJS backend over
PostgreSQL and a Next.js frontend in which a student sits a timed test), the
TLC runs that check them, and TLAPS proofs of every safety property those runs
check, for all values of the constants.

Abbreviations: `service.ts` is
`src/backend/src/test-sessions/test-sessions.service.ts`, `queue.ts` is
`src/frontend/src/lib/telemetry-queue.ts`, `RuntimeProvider.tsx` is
`src/frontend/src/app/test/[sessionId]/RuntimeProvider.tsx`, the PRD is
`src/agent-factory/scorecards/16-test-runtime-prd-final.md`, the architecture is
`src/agent-factory/scorecards/02-architecture-final.md`.

## 1. Inventory

| Component | State | Operations | Hard behaviour |
|---|---|---|---|
| Session writes and submit pipeline (`service.ts`) | rows of `test_sessions`, `test_session_snapshots`, `attempts`; PostgreSQL row locks | patchSnapshot, getHint, logViolation, submit, lateSnapshots | concurrent requests at READ COMMITTED, reads before writes, retries, a crash inside a transaction |
| Session creation, start, reading, results (`service.ts`) | `test_sessions`, figure secrets, the page shown | createSession, updateState, getSession, getFigure, getResults | check-then-insert race, a row read before an await and used after it, a submit in between |
| Telemetry queue (`queue.ts`) | pending actions, tries, action_seq counter, IndexedDB mirror, timer, dormancy | hydrate, append, tryDrainOnce, dispatch, drainAndWait, clear | callbacks interleaved at every await, reload, lost / duplicated / late posts, 401 |
| Runtime page (`RuntimeProvider.tsx`, `Timer.tsx`) | submit latch, modal, counters, authentication error, timer's shot | autoSubmit, manualSubmit, heartbeat, timer expiry, queue callbacks | stale render closures, overlapping submits, network against authentication failures |
| Answer entry and submit dialog (`AnswerEntry/`, `numeric-input.ts`, `runtime-types.ts`, `Palette.tsx`, `SubmitConfirm.tsx`, saveSnapshot) | snapshots map, visited set, current slot, dialog step | keys, pastes, choices, matches, marks, jumps, saveSnapshot, the two-step dialog | overlapping saves, limits of the numeric filter, counts shown against answers sent |
| Anti-cheat listeners (`anti-cheat.ts`) | none | one callback per browser event | several events for one act |
| Request validation (`main.ts`, `test-sessions.dto.ts`) | none | whitelist and ranges | bodies the client really sends |
| Authentication (`auth/`, `session-auth.ts`) | `auth_sessions` with an absolute expiry, the browser's cookie | login, the guard with resolve, logout | logout against a request on its way, old answers that set or clear the cookie |
| Figure tokens (`lib/hmac-token.ts`, `service.ts`) | secret, previous secret, rotation time | sign, verify | tokens across a rotation and its grace period |
| Numeric comparison and grading (`lib/numeric.ts`, `gradeAnswer`) | none | pure functions | text comparison of decimals: ties, negative zero |
| Reviews and dual rating (`problems/`, migrations 0005 and 0007) | `problem_reviews`, `problems`, an advisory lock | createReview, the consensus trigger, the cross-walk CHECK | two writers at once, opposite lock orders |
| Content importer and backfill (`scripts/import-yaml.ts`, `scripts/seed-backfill.ts`) | the same rows | one transaction per file, one pass per row | a look before the transaction, reviews arriving meanwhile, runs repeated |
| Dashboard (`dashboard.service.ts`, its card) | none | one query | several assignments and sessions per test |
| Health, Prisma client, throttling; roles and schema; rendering and hint card; content | none of the program's own | | |

The parts interact as follows. The page enqueues every edit and violation; the
queue posts them one by one to the service (`PATCH /snapshots`,
`POST /violations`) and reports success, failure, 401 and the server's violation
count back through callbacks; a submit (click, timer, third violation or the
server's answer to one) waits for the queue to drain and posts `/submit`; the
service drains the snapshots into `attempts` in one transaction, also on its own
when a violation reaches the threshold.

What makes each part correct: a session is graded once, from everything the
student was told is saved, and every caller learns the same outcome (service);
every edit is on the server or still waits to get there, none is undone by an
older one (queue); the page says "submitted" only when that is so, never hangs
and submits when the time is up (page); what the page shows is what it queued, and what the student typed is what
is graded (answer entry); at most one live session per test, a fixed deadline, a
final grade, tokens honoured until a submit and its grace period (creation,
results and figures); a cookie that admits only its owner and never again once
it is refused or logged out (authentication); a published rating that is the
consensus of exactly the committed reviews, and a file's reviews that replace
the others whole (reviews and importer).

## 2. Modules

| Module | Models | Extends / used by |
|---|---|---|
| `SubmitOnce` | what `POST /submit` promises, abstractly | refined by `TestSessions` |
| `TestSessions` | the writing handlers of `service.ts` | `MCTestSessions`, `TestSessions_proofs`, `SessionSnapshots_proofs` |
| `TestSessions_proofs` | TLAPS proofs about `TestSessions` | |
| `SessionSnapshots_proofs` | more of them: what snapshots hold and what a submit grades | |
| `TelemetryQueue` | `queue.ts` with its environment | `MCTelemetryQueue`, `TelemetryQueue_proofs` |
| `TelemetryQueue_proofs` | TLAPS proofs about `TelemetryQueue` | |
| `RuntimeClient` | `RuntimeProvider.tsx` and `Timer.tsx` | `MCRuntimeClient`, `RuntimeClient_proofs` |
| `RuntimeClient_proofs` | TLAPS proofs about `RuntimeClient` | |
| `AnswerEntry` | the answer controls, saveSnapshot, palette, submit dialog, and grading | `MCAnswerEntry`, `AnswerEntry_proofs` |
| `AnswerEntry_proofs` | TLAPS proofs about `AnswerEntry`, its arithmetic on digits included | |
| `SessionLifecycle` | the reading and creating handlers of `service.ts`, figure tokens, the dashboard query | `MCSessionLifecycle`, `SessionLifecycle_proofs` |
| `SessionLifecycle_proofs` | TLAPS proofs about `SessionLifecycle` | |
| `AuthSession` | login, guard, logout and the cookie jar | `MCAuthSession`, `AuthSession_proofs` |
| `AuthSession_proofs` | TLAPS proofs about `AuthSession` | |
| `ProblemReviews` | createReview, the importer, the backfill, their trigger, CHECK and locks | `MCProblemReviews`, `ProblemReviews_proofs` |
| `ProblemReviews_proofs` | TLAPS proofs about `ProblemReviews` | |

`SessionLifecycle` and `TestSessions` are two views of one service: the first
takes the submit as one step, which the second shows it to be (`ImplementsSubmitOnce`),
and in turn models the reads that the second leaves out. `AnswerEntry` ends
where `TelemetryQueue` begins, at `enqueueSnapshot`. `RuntimeClient` takes from the
queue only what the page hears of it, with every way the queue may lose, repeat
or bring back a violation; what becomes of the edits is said in `TelemetryQueue`
alone. `AuthSession` is the source of the 401 that both client models treat as an
event of the environment: `RefusedForGood` is why the queue may stay dormant until
a sign-in.

### TestSessions

`session`, `snapshots` and `attempts` are the committed rows; `lock[s]` is the
request whose transaction holds the row of session `s`; `req[r]` is a handler in
progress: its program counter and what it has read. Outside a transaction every
SQL statement commits by itself, so each statement is an action and other
requests run in between. Inside `runSubmitInTransaction` and `logViolation`
the writes stay in `req[r]` until the commit step; `Abort` is a rollback or the
death of the process, `Release` the end of the row lock. Snapshot inserts wait
for a `FOR UPDATE` holder through their foreign key (`MayWriteSnapshot`), updates
do not: this is what PostgreSQL does and it decides which races are possible.

| Handler | Actions |
|---|---|
| patchSnapshot | `PatchBegin`, `PatchWrite` |
| getHint | `HintBegin`, `HintCheck` / `HintRefuse`, `HintWrite` |
| logViolation | `ViolationBegin`, `ViolationUpdate`, `ViolationCommit` or the submit steps |
| submit | `SubmitBegin`, `SubmitLock`, `SubmitRepeat` or `SubmitRead`, `SubmitCount`, `SubmitCommit` |
| lateSnapshots | `LateBegin`, `LateEntry`, `LateWrite`, `LateEnd` |

Abstracted: grading (attempts carry the answer, not its mark), time_seconds,
visit_index_in_test, round_at_time, audit rows, problems deleted during a test.
History variables (`answered`, `latest`, `delivered`, `scored`, `due`) record
what callers were told; nothing in the model reads them.

### TelemetryQueue

A step is what the code does between two awaits. `state` and `disk` are the
queue in memory and in IndexedDB, `saves` the writes that have been asked for,
`drain` the loop of `tryDrainOnce` with its post, `timer` the back-off timer.
The server is reduced to the highest action_seq and the edit stored per slot.
The network may lose a post, lose its answer, or execute it long after the
client gave up (`stray`). `Accepted` says which kinds of body the server's
validation lets through: today's server refuses both (see the findings), under
which `QueueDrains` is violated at the first post; the runs look at the queue's
own guarantees with a server that accepts them. Left out: `resume()`, which nothing calls,
the in-memory substitute for a browser without IndexedDB, and write errors of IndexedDB.

Before a submit is answered (which clears the queue, drained or not) the code loses
edits in four ways, and the history `events.disturbed` records
the first of them: an edit before `hydrate` has run, which the read then replaces;
an edit that overtakes the post of its slot (`Overtakes`), after which `shift`
drops what was never sent; a reload before a write is done; and a reload that does
not find the action numbered last on disk, after which the numbering starts below
what the server has stored. `AnswersKept` says that up to then an edit is
never in neither place: it is stored, or it waits in memory or on disk. Without any
one of the four conditions TLC finds it violated.

### RuntimeClient

`ui` is React state as last set, `shown` as of the last render; handlers read
`shown`, as their closures do, and `Render` copies one to the other. A click is
rendered before the next event, a change from a timer, a DOM listener or a
promise is not. A submit is a flow in `flows`: draining, posting, leaving for
the results; several may be under way, and a flow outlives its page when the
student goes through the login page. `server`, `queue` and `cookie` are the
environment: the server counts violations and decides once. `queue` is how many
violations wait: one is posted and answered (`ViolationAcked`), counted while its
answer is late or lost and it still waits (`CountedUnheard`), or dropped unsent
by the queue's `shift` or `hydrate` (`ViolationDropped`); a reload brings back any number
of those that happened. Edits are not modelled: a post of one only resets the
network health (`EditAcked`).

The timer counts on the page's own clock only while `ticking`. `getSession` sends no
`server_now` (`service.ts:299-315`), so the first effect stores an offset that
is not a number (`RuntimeProvider.tsx:124-127`), the heartbeat never repairs it
(363-367), and whatever renders the page next hands it to the timer (931), whose
time left is not a number from then on and never 0. `Render`, `Rerender` and the clicks
clear `ticking`, a page that opens sets it.

The two network health counters are one boolean: three failed syncs in a row or
more than 30 s of silence.

### AnswerEntry

`snapshots` is the React map, `queued[i]` the body last handed to the queue for
slot `i`, `saving` the saves whose `enqueueSnapshot` has not come back. A
handler runs up to its await in one step (`Save`: the map shows the new snapshot
and the queue has it), and `Saved` is the second `setSnapshots` after it, which
writes the snapshot computed before; IndexedDB answers in the order it was asked.
`Press` and `Paste` are the numeric controls through `applyKey` and `applyPaste`;
`Choose`, `Toggle`, `Match` the others; `SaveAndNext`, `ToggleMark`, `Jump`,
`PaletteMark` and `Chip` navigation and marks; `OpenDialog`, `SubmitNow`,
`Cancel`, `Confirm`, `SubmitEnds` the two-step dialog. A numeric text is a
record of sign, digits and point, so that `Normalized` can do what
`normalizeNumDec` does with the text: round half to even and drop the sign of a
zero. `GradedByValue` compares it with a definition by value (`Rounds`).
`TypeOK` speaks of the range of a NUM-INT question only where zero is in it, as it
is in the default -999..999: Backspace shortens a text without looking at the
range, and would leave 1 of 12 in a range 10..20.

### SessionLifecycle

One student. `rows` is `test_sessions`, `answer` and `graded` the slot's payload
in the snapshots and in the attempt. `call[c]` is a request: what it loaded
first, kept over its awaits. `page` is what the browser shows, replaced when an
answer arrives. createSession is `CreateLoad`, `CreateCheck`, `CreateInsert`
(which fails on the unique index); getSession, updateState and getResults begin
with `Load` and go on with `GetAnswer`, `StateAnswer`, or `ResultsGate`,
`ResultsAttempts`, `ResultsAnswer`; getFigure is `FigureLoad` and `FigureServed`
or `FigureRefused`. `Submit` stands for the whole drain, `WriteAnswer` for a
patch or a late snapshot. A secret is its number in the session; a token
verifies under the number it was signed with, or under the previous one during
the grace period. `Deduped`, `Joined`, `Status`, `Cards`, `Begins` are the
dashboard's query and its card.

### AuthSession

`sessions` is `auth_sessions`, `cookie` the browser's jar, `req[r]` a request:
a login (`LoginLookup`, `LoginCompare`, `LoginInsert`, `LoginAnswer`), a guarded
call (`Send`, `Resolve`, `CheckRole`, `HandlerEnds`) or a logout (`LogoutSend`,
`LogoutDelete`, `LogoutAnswer`). Cookies change when an answer arrives, so a late
answer may put back or clear another session's cookie. `history` records what
callers were told; nothing in the model reads it but the fresh-id choice (ids
are 256 random bits and never repeat). Left out: `last_used_at`, the IP hash, the
timing of the dummy comparison.

### ProblemReviews

One problem, since both locks are per question code. `problem` and `reviews` are
committed rows, `tx[w]` a writer's uncommitted changes, `rowLock` and `advisory`
the holders of the two locks. A writer is a review (`ReviewInsert`,
`ReviewAnswer`, `ReviewReport`), an import of one file (`ImportFind`,
`ImportWrite`, `ImportDelete`, `ImportInsert`) or a backfill of one row
(`BackfillRead`, `BackfillWrite`, `BackfillLook`, `BackfillInsert`). An inserted
review runs the trigger: `Recompute` takes the advisory lock and computes the
consensus, `Apply` updates the problem against the CHECK; `Commit` and `Abort` end
the transaction, and `DeadlockAbort` is PostgreSQL's detector, which a review
(advisory lock, then row) and an import (row, then advisory lock) need. Scores
are whole numbers of 1/240 point so that means are exact.

## 3. Runs

Runs expected to pass:

| Run | Question | Properties |
|---|---|---|
| `sessions_all` | what do snapshots hold and submits grade when all kinds of request interleave, die and race the clock? | `TypeOK`, `HintsCharged`, `LatestAnswerWins`, `SeenBeforeSubmitIsGraded` |
| `sessions_race` | is a session drained once, with one outcome, whoever submits it? | `DrainedOnce`, `AnswersAgree`, `ThresholdSubmits`, `OrdersDistinctInSession`, `AttemptsFrozen`, `ImplementsSubmitOnce` |
| `sessions_live` | do requests end and submits decide, in spite of the row locks? | `RequestsFinish`, `SubmitDecides` |
| `queue` | is the queue ordered, mirrored, silent after a 401, does it keep what it was given, and does it drain? | `TypeOK`, `PendingInOrder`, `TriesKnown`, `DiskMatchesMemory`, `AnswersKept`, `ServerNeverGoesBack`, `DormantIsSilent`, `QueueDrains` |
| `client` | does the page agree with the server, is the saving modal released, and does a timer that fires get the session submitted? | `TypeOK`, `SubmittedMeansDecided`, `ModalReleased`, `FiredDecides` |
| `answers` | does what is typed fit its question, is what is shown what was queued, are decimals graded by value? | `TypeOK`, `GradedByValue`, `ShownIsQueued` |
| `lifecycle` | is there one open session per test, one deadline, one grade, and do figures outlive the submit by the grace period? | `TypeOK`, `OneActivePerTest`, `DeadlineKept`, `GradeSeenIsFinal`, `FigureAnswers` |
| `auth` | whom does the guard let through, and until when? | `TypeOK`, `AdmittedIsLive`, `RefusedForGood` |
| `reviews` | is the published rating that of the committed reviews, and does every writer end? | `TypeOK`, `OneSynthetic`, `ReviewsArePublished`, `ImportReplaces`, `WritersFinish` |

Runs expected to find a violation, each a statement of the documents or comments
that the code does not keep (the findings in PROJECT.json quote them):

| Run | Property | What TLC finds |
|---|---|---|
| `claim_drained` | `DrainedIsDelivered` | an edit made while the head of the queue is posted is shifted away unsent; the drain reports success |
| `claim_expiry` | `ExpiryDecides` | the page is rendered once, the timer's time left is not a number from then on, the time passes and no submit is made |
| `claim_dashboard` | `ActiveIsShown` | a session begun through the later of two assignments of one test has no card |

More claims are stated in the modules, and TLC finds them violated the same way,
without a run being kept for them (the findings describe what it shows):

| Module | Property | What happens |
|---|---|---|
| `TestSessions` | `ScoredIsGraded` | a late entry is counted as scored although the submit read the snapshots before it was written (`Ops = {"submit", "late"}`) |
| `TestSessions` | `HintsSequential` | two requests for one hint level are both charged (`Ops = {"hint"}`) |
| `TestSessions` | `AttemptOrderUnique` | two sessions that share a question number their attempts alike (`Ops = {"patch", "submit"}`, two sessions) |
| `TelemetryQueue` | `ExecutedIsStored` | after a reload with an empty queue the numbering restarts and the server ignores the new edits |
| `TelemetryQueue` | `QueueDrains` with `Accepted = {}` | with the validation as configured the head of the queue is refused for ever |
| `RuntimeClient` | `ThresholdMeansEvents` | a violation whose answer was lost is counted twice and submits the test early |

### Bounds and why they are enough

* Sessions runs: one session, since handlers of different sessions touch disjoint
  rows except for the prior counts (`AttemptOrderUnique`). Two requests in the
  run that has all five endpoints, three in the race of submits: the third is
  what meets the result of the first two. Two slots with one question code for
  `OrdersDistinctInSession`. Threshold 2 or 3 so that violations below, at and
  after it occur. `MaxSeq` 2 gives an older and a newer edit.
* Queue: three events over two slots make a collapse (two edits of a slot), a
  violation between, and an edit during a post; one reload and one failed post
  each meet every step of the loop.
* Client: two overlapping submits, two mounts (a sign-in or a reload), one
  failed submit post, one violation and threshold 1, so that a single violation
  rivals the timer and the click and is counted again unheard. `claim_expiry`
  needs none of these: one page, one render and the clock.
* Answers: papers of two questions that put every type beside another one, keys
  0, 4, 5 and pastes that reach ties, leading zeros, a sign and the range's
  ends; three saves make two overlap and a third start from what they left.
* Lifecycle: two callers and two sessions of a test assigned twice, since every
  race is of two requests around one submit; three ticks are before, at and
  after a deadline, a window and a grace period of one tick each.
* Auth: two requests and two session ids, one more than the cookie holds; three
  accounts of which two share an email; the clock runs two ticks past the first
  expiry.
* Reviews: three writers out of six jobs each, on a new and on an existing
  problem: two in each other's way and a third that meets what they leave.
  Scores at the ends of the bands of T1, T2 and T3.
* Requests and answers are interchangeable in the sessions runs and are
  symmetric there, as are callers, sessions and requests in `lifecycle` and
  `auth`; no run with a liveness property uses symmetry.
* Deadlock is checked in the sessions runs. It is not for the queue and the
  page, where the student may stop, the bounds be used up or the test be over,
  nor in the four runs whose clock, edits, ids or writers run out.

### Fairness

* `TestSessions!FairSpec`: a handler that can run does (weak fairness of
  `Proceed`); a handler that waits for a row lock gets it (strong fairness of
  `Acquire`: PostgreSQL queues waiters); a late batch ends (strong fairness of
  `LateEnd`: it has finitely many entries). Nothing makes a client send.
* `TelemetryQueue!FairSpec`: the event loop runs ready callbacks, timers and
  IndexedDB writes; a post is answered, after at most `MaxTries` failures.
* `RuntimeClient!FairSpec`: the browser renders what was set and runs the timer's
  interval; a submit post is answered or fails. That the interval runs says nothing
  of its firing: `TimerFires` is enabled only while the timer still ticks, and
  `ExpiryDecides` fails under this fairness. The student, the network and the cookie
  owe nothing.
* `ProblemReviews!FairSpec`: every writer that can take its next statement does
  (a live connection each). The deadlock detector is one of those steps, as it is
  PostgreSQL's and not the programs'; without it `WritersFinish` fails.

## 4. Proofs

`TestSessions_proofs` proves, for every set of sessions, requests, codes and
answers, every number of slots, threshold, bound, and with or without aborts:

| Theorem | Statement |
|---|---|
| `TypeCorrect` | `Spec => []TypeOK` |
| `Invariant` | `Spec => []IInv` |
| `DrainedOnceHolds` | `Spec => []DrainedOnce` |
| `AnswersAgreeHolds` | `Spec => []AnswersAgree` |
| `ThresholdSubmitsHolds` | `Spec => []ThresholdSubmits` |
| `AttemptsFrozenHolds` | `Spec => AttemptsFrozen` |
| `Implementation` | `Spec => ImplementsSubmitOnce` |

The safety invariants are not inductive alone. A second drain is prevented by
the row lock, not by the row: between `SubmitLock`, which saw `submitted_at` NULL,
and `SubmitCommit`, which relies on it, the fact must be carried by "the lock is
mine". Hence

    IInv == TypeOK /\ Locking /\ Counting /\ DrainedOnce /\ AnswersAgree /\ ThresholdSubmits

where `Locking` says that a request inside a drain, or between a violation's
UPDATE and its commit, holds the row's lock, that nobody holds it otherwise, and
that a session being drained is not submitted; `Counting` says that an uncommitted
increment of violations_count either stays below the threshold or is on its way
to the automatic submit that commits with it. Each action
preserves `IInv` by a lemma of its own (`InvSubmitCommit` and its relatives);
`OutcomeKept` and `QuietStep` cover the many steps that touch neither attempts
nor sources. `Implementation` uses `IInv` to show that a commit is the abstract
`Decide`, a repeated submit the abstract `Repeat`, and everything else a stutter.

Assumptions: `None` is not a session, request, source, snapshot row or outcome;
`NumSlots \in Nat`; `Code` maps every slot of every session to a code; the
threshold is a positive number; `ClientSources` are among the four sources;
`MaxSeq`, `MaxHint` are naturals. TLC evaluates them in every sessions run.

`SessionSnapshots_proofs` builds on `IInv` and proves, under the same assumptions:

| Theorem | Statement |
|---|---|
| `LatestAnswerWinsHolds` | `Spec => []LatestAnswerWins` |
| `HintsChargedHolds` | `Spec => []HintsCharged` |
| `SeenBeforeSubmitIsGradedHolds` | `Spec => []SeenBeforeSubmitIsGraded` |
| `OrdersDistinctHolds` | `Spec => []OrdersDistinctInSession` |
| `AttemptOrderUniqueIfCurrent` | `Spec /\ [][CountsCurrent]_vars => []AttemptOrderUnique` |

`SnapshotsWritten` reduces every step to one of the two upserts or none.
`LatestAnswerWins` needs `LatestKept` beside it: where nothing was recorded, the
row is absent or still at action_seq 0, as a hint leaves it, so that the first
patch wins. `SeenBeforeSubmitIsGraded` speaks of what a slot showed when the drain
locked the session, while the drain reads its rows later and patches of existing
rows go on meanwhile: `Covers` orders rows by what they show, `SnapshotsGrow` says
that no step goes back in it, and the invariant `DrainCovers` carries it along the
drain from the lock to the commit, where `CommitGrades` finds the attempt.
`OrdersApart` compares the cardinalities of a batch's prefixes.

`TelemetryQueue_proofs` proves of the queue, for any slots, any kinds of body the
server accepts and any bounds on events, reloads and failures:

| Theorem | Statement |
|---|---|
| `QueueInvariant` | `Spec => []QInv` |
| `QueueTypes` | `Spec => []TypeOK` |
| `PendingInOrderHolds` | `Spec => []PendingInOrder` |
| `TriesKnownHolds` | `Spec => []TriesKnown` |
| `DormantIsSilentHolds` | `Spec => DormantIsSilent` |
| `DiskMatchesMemoryHolds` | `Spec => []DiskMatchesMemory` |
| `ServerNeverGoesBackHolds` | `Spec => ServerNeverGoesBack` |
| `ExecutedIsStoredInOrder` | `Spec /\ [][Orderly]_vars => []ExecutedIsStored` |
| `DrainedIsDeliveredUndisturbed` | `Spec /\ [][Orderly /\ NotOvertaken]_vars => []DrainedIsDelivered` |
| `AnswersKeptHolds` | `Spec => []AnswersKept` |

`QInv` is `Queues /\ Draining /\ Around`. A reload brings back whatever was on disk,
and any outstanding write may be the last to get there, so the order of the
queue must hold of memory, disk and every write at once: `Sound` is that fact, and
`CollapseOrdered` that a collapse keeps it. The collapse is stated by the rank of the
indices it keeps, so that no induction over the queue is needed: `NthFound` shows the
rank to be an injection into 1..size, and so a bijection.

Three more invariants rest on it. `LoopInv`: the loop waits for one write, and only
while it is saving, so that no write of an earlier round restarts it after a 401.
`MirrorInv`: the last write that is outstanding is what memory holds, and if
there is none the disk is. `AgeInv`: among the page's own actions, waiting, sent or
stored, a higher action_seq is a later event, and none is sent before
hydrate has run, which may number over what was there.

`AnswersKept` rests on `KeptInv`, three invariants that stand until the history is
disturbed. `SeqInv`: action_seq then counts the events, over reloads too, because
the page goes on from the action numbered last. `ExecutedInv`: what was executed
is stored or superseded. `DeliveryInv`: what is posted is the head of what waits,
and the last edit of a slot is stored or waits. `Undisturbed` shows that a step which
leaves the history undisturbed is `Orderly` and overtakes nothing, `ReloadFinds` that such a
reload finds on disk what the page held. The assumptions are
`SlotsAssumption`, `QueueBounds` and `AcceptedAssumption`, which TLC evaluates in the run `queue`.

`RuntimeClient_proofs` proves of the page, for every set of flows, every
positive threshold and every bound on violations, mounts and failures:

| Theorem | Statement |
|---|---|
| `ClientInvariant` | `Spec => []IInv` |
| `ClientTypeCorrect` | `Spec => []TypeOK` |
| `SubmittedMeansDecidedHolds` | `Spec => []SubmittedMeansDecided` |
| `ThresholdNeedsLostAnswer` | `Spec /\ [][CountedOnce]_vars => []ThresholdMeansEvents` |

Its `IInv` adds to the proved properties that a flow which the server has
executed, or which was answered, finds the session decided (`FlowsDecided`:
without it an answer could come from nowhere), and that the counters are within
what was detected (`Counters`, on which the bound of the page's count in `TypeOK` rests:
the page's count follows the server's and runs ahead of it). Most actions fall
under one lemma, `PageStep`: a step that touches only the page's own state and
does not make it say "submitted". The assumptions are `ClientBounds` and
`NoneAssumption`, which TLC evaluates in the client runs.

`SessionLifecycle_proofs` proves, for any number of sessions, callers and
assignments and any durations:

| Theorem | Statement |
|---|---|
| `SessionTypes` | `Spec => []TypeOK` |
| `OneActiveSession` | `Spec => []OneActivePerTest` |
| `DeadlineTheorem` | `Spec => []DeadlineKept` |
| `GradeTheorem` | `Spec => []GradeSeenIsFinal` |
| `FigureTheorem` | `Spec => FigureAnswers` |
| `ActiveIsShownOneWay` | `OneWay` implies `Spec => []ActiveIsShown` |

What a request loaded is stale by the time it answers. Its

    Inv == TypeOK /\ OneActivePerTest /\ Started /\ Past /\ CallFits /\ PageFits

bounds how stale: the row a request holds is the present one or the one before
the submit (`Behind`, in `CallFits`), a results request past its gate is about a
submitted session and holds its final grade, a figure request's token is no newer
than the row it was loaded with and a submit it missed came after it began. The
deadline cannot move because every session is `Started` when it is created, so
that the START branch of updateState never applies. `PageFits` carries the same
facts to the page an answer leaves behind; `Past` keeps submit times behind the
clock. `NextTable` and `NextKeeps` first reduce the actions to what they do to
the table. Assumptions: `AssignmentsAssumption`, `NumbersAssumption`,
`NoneAssumption`, `NoRowAssumption`, evaluated in the run `lifecycle`.

`AuthSession_proofs` proves, for any accounts, ids, requests and time to live:

| Theorem | Statement |
|---|---|
| `AuthTypeCorrect` | `Spec => []TypeOK` |
| `AdmittedTheorem` | `Spec => AdmittedIsLive` |
| `RefusedTheorem` | `Spec => RefusedForGood` |

Its `IInv` adds that whatever holds a session id has it from a login (`Known`:
so a new row's id is one no cookie, request or refusal knows), that a logged out
id has no row from its DELETE on (`EndedGone`), and that a refused id is dead
(`RefusedDead`: the row is gone or past, and nothing extends one). `AdmitStep`
shows that only `Resolve` admits, and only a live session. The assumptions are
evaluated in the run `auth`.

`ProblemReviews_proofs` proves, for any writers, jobs, initial row and either
consensus method:

| Theorem | Statement |
|---|---|
| `ReviewsInvariant` | `Spec => []Inv` |
| `ReviewsTypes` | `Spec => []TypeOK` |
| `MeansInRange` | the rounded mean of any finite set of reviews is in 1..5, the mean of its scores in 0..2400 or there is none |
| `OneSyntheticTheorem` | `Spec => []OneSynthetic` |
| `ReviewsArePublishedTheorem` | `Spec => ReviewsArePublished` |
| `ImportReplacesTheorem` | `Spec => ImportReplaces` |

Its `Inv` (`ReviewsInvariant`) says of each writer which locks it holds where
(`Locked`), and what it has worked out that is still true because of them: the
consensus it is about to publish is that of the reviews it will commit (`Means`),
an import has deleted every committed review and written a prefix of its file
(`FileFits`), a backfill that is to insert has seen no synthetic review
(`Synthesis`). `OthersKeep` is the heart of it: a commit that changes the reviews
holds both locks, so that it takes nothing away from a writer that holds either.
`Whole` is as much of the type of a row as these need. The full types come after
it, as `Types`, inductive beside `Inv`: a problem is never deleted (so a writer that
saw one still finds one to update), the uncommitted row is there exactly while its
writer has the row lock, and what is to be applied is a rating. The last is
`MeansInRange`: the trigger's SUM is a fold over a set, which `SumBounds` bounds
by induction over the number of its elements, after `FoldExists` has shown that
the fold's equation has a solution. The assumptions are evaluated in the run `reviews`.

`AnswerEntry_proofs` proves of the answer entry, for any papers, digits typed and
texts pasted, and any bounds on saves and jumps:

| Theorem | Statement |
|---|---|
| `EntryInvariant` | `Spec => []EntryInv` |
| `EntryTypes` | `Spec => []TypeOK` |
| `ShownIsQueuedHolds` | `Spec => []ShownIsQueued` |
| `RoundedIsNearest` | `Rounded(v, p)`, with the sign of `v`, is the one number of units of 10^-p nearest to `v`, ties to even |
| `GradedByValueHolds` | `Spec => []GradedByValue` |

`EntryInv == TypeOK /\ Entered /\ Written`. `ShownIsQueued` speaks of moments when no
save is out; what makes it true is `Written`, which speaks of all others: the last
outstanding save of a slot holds what is queued for it, and a slot with none shows
what is queued. It depends on the saves coming back in the order they were made,
since each writes the whole snapshot back. `Entered` says that a queued snapshot
counts a visit, so that visiting a slot again does not change how the dialog counts it.

For `TypeOK` the texts are sequences of any length: `KeyFits` and `PasteFits` show
that `applyKey` and `applyPaste` give a text that fits its question, `FrontInRange`
that Backspace moves a value towards zero. `GradedByValue` follows from
`RoundedIsNearest` for both texts; that rests on lemmas on digits (`DigitalAppend`,
`TenSum`) and on `HalfEvenNearest` and `NearestScaled`. The assumptions are
`TestsAssumption`, `KeysAssumption`, `AnswerBounds` and `NoneAssumption`, evaluated in
the run `answers`.

What the refuted claims need to fail. Five claims of section 3 that the code does
not keep are theorems once the one circumstance that breaks them is excluded,
so that the circumstance is the cause. They are conditional: the circumstance does
occur in the code, and the runs and findings stand.

| Claim | Holds as long as | Carried by |
|---|---|---|
| `DrainedIsDelivered` | the page takes no event before hydrate, every reload finds its writes done and the action numbered last on disk (`Orderly`), and no slot is edited while its previous edit is being posted (`NotOvertaken`) | `DeliveryInv`: what is posted is the head of what waits, and the last edit of a slot waits or is stored |
| `ExecutedIsStored` | `Orderly` | `SeqInv`: action_seq then counts the events; `ExecutedInv`: what was executed is stored or superseded |
| `AttemptOrderUnique` | no attempt at a drain's questions is committed between its prior count and its commit (`CountsCurrent`) | `OrdersCounted`: no order exceeds the number of attempts at its code |
| `ThresholdMeansEvents` | no violation is counted without the page hearing of it, and no reload brings back one already answered (`CountedOnce`) | `Tally`: what is counted at the server and what waits are together no more than what was detected |
| `ActiveIsShown` | every test has one assignment (`OneWay`) | the type invariant: the card of the test is that of the session's own assignment, so the session is joined to it |

`Orderly`, `NotOvertaken`, `CountsCurrent` and `CountedOnce` are conditions on steps, stated
beside the theorems. Losing or refusing posts, repeating them, executing them late, drains that
overlap and requests that die are all still allowed where the condition does not
name them.

Induction. The induction theorems of the library take an operator as a parameter,
which no backend can instantiate. `SetInduction` (`EveryNumber` in
`ProblemReviews_proofs`) has a set in its place and follows from the least element
of a set of naturals (`NatLessThanWellFounded`, `WFMin`); `RecursionExists` and
`RecursionUnique` give a function defined by recursion on 0..n its equations. What
`Ten`, `Digital` and `Only` compute is proved from these.

Only model-checked: liveness, that is `RequestsFinish`, `SubmitDecides`, `QueueDrains`,
`ModalReleased`, `FiredDecides` and `WritersFinish`. It is out of reach of the prover, as
is ENABLED.

## 5. Not modelled, and why

* In the page: the hint card, and the narrow-window block, which unmounts the
  timer. `time_seconds` is data to every module, so that its double counting by a
  resent patch is not checked.
* Two queue instances on one IndexedDB entry after a sign-in without a reload:
  `TelemetryQueue` has one instance per page, and `AnswersKept` follows that one.
* A server that refuses some body: `QueueDrains` and `AnswersKept` are checked with one
  that accepts both kinds (`Accepted`). The proofs of `AnswersKept` and the other
  safety properties hold for any `Accepted`; that the queue drains does not.
* In `ProblemReviews`: Prisma's time limit on a transaction, and an import that
  changes `target_exam`.
* Which browser event raises which violation, the field ranges of the request
  bodies, the scores of a marking scheme, the validation rules of the importer's
  YAML: data conditions without an order of change.
* The MAC of a figure token is taken as unforgeable.
* Health checks, the Prisma client, throttling, roles and grants, rendering and
  the content hold no state of the program's own, or are pure I/O.

## 6. Plan

Done: `SubmitOnce`, `TestSessions`, `TelemetryQueue`, `RuntimeClient`,
`AnswerEntry`, `SessionLifecycle`, `AuthSession`, `ProblemReviews`, and the proofs
of section 4. Left, in order of importance:

1. `EndToEnd`: queue and service composed, with time_seconds, double counting of
   violations, and two queue instances on one IndexedDB entry.
2. The hint card and the narrow-window block in `RuntimeClient`.
