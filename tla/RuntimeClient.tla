---------------------------- MODULE RuntimeClient ----------------------------
(***************************************************************************)
(* The page a student sits the test in, RuntimeProvider.tsx: the submit    *)
(* latch, the violations counter, the heartbeat, the authentication error  *)
(* and the timer, against one session on the server.                       *)
(*                                                                         *)
(* React state is set in one step and seen by the handlers only after the  *)
(* next render: ui is the state as last set, shown the state the handlers  *)
(* close over.  A click is rendered before the next event, a state change  *)
(* from a timer, a DOM listener or a promise is not.  Refs (authErrorRef,  *)
(* the two health counters) are seen at once.                              *)
(*                                                                         *)
(* A submit is a flow: wait for the queue, post, read the answer.  Several *)
(* may be under way, and a flow outlives the page that started it when the *)
(* student leaves for the login page without a reload.                     *)
(*                                                                         *)
(* Of the telemetry queue only what the page hears of it is modelled here: *)
(* how many violations wait, and which posts are answered.  What becomes   *)
(* of the edits is the subject of TelemetryQueue.                          *)
(*                                                                         *)
(* The timer counts on the page's own clock, offset 0, until the page is   *)
(* rendered again: GET of a session has no server_now, so the offset the   *)
(* first effect stores is NaN, no answer repairs it, the next render hands *)
(* it to the timer, and the time left is NaN, never 0, from then on.       *)
(***************************************************************************)
EXTENDS Naturals, FiniteSets

CONSTANTS
    Flows,        \* BOUND: submits under way at once
    None,         \* no value
    Threshold,    \* violations that end the test (3 in the code)
    MaxEvents,    \* BOUND: violations detected
    MaxMounts,    \* BOUND: times the page is opened
    MaxFailures   \* BOUND: submit posts that end without an answer

ASSUME ClientBounds ==
    /\ Flows # {} /\ IsFiniteSet(Flows)
    /\ Threshold \in Nat \ {0}
    /\ MaxEvents \in Nat /\ MaxMounts \in Nat \ {0} /\ MaxFailures \in Nat

ASSUME NoneAssumption == None \notin {"MANUAL", "TIMER_EXPIRY", "VIOLATION_THRESHOLD",
                                        "NETWORK_FAILURE_FALLBACK"}

VARIABLES
    ui,         \* submitState, submitOpen, submitDraining, localFallbackPosted, authError
    shown,      \* ui as of the last render
    count,      \* violationsCount
    offline,    \* whether three syncs failed in a row, or 30 s passed in silence
    ticking,    \* whether the timer still counts on offset 0 (serverClockOffsetMs)
    fired,      \* the timer's firedRef
    flows,      \* the submits
    queue,      \* the telemetry queue: violations that wait, and whether it is dormant
    mounts,     \* how often the page was opened
    page,       \* "test" or "results"
    server,     \* auto_submit_source and violations_count
    cookie,     \* whether the server accepts the cookie
    expired,    \* whether expires_at has passed on the page's clock
    events,     \* history: the violations detected
    failed      \* history: submit posts that ended without an answer

vars == <<ui, shown, count, offline, ticking, fired, flows, queue, mounts, page, server,
          cookie, expired, events, failed>>

SubmitState == {"IDLE", "AUTO_SUBMITTING", "SUBMITTED"}
AutoSources == {"TIMER_EXPIRY", "VIOLATION_THRESHOLD", "NETWORK_FAILURE_FALLBACK"}
Sources == AutoSources \cup {"MANUAL"}

UIState == [submit : SubmitState, open : BOOLEAN, draining : BOOLEAN,
            fallback : BOOLEAN, auth : BOOLEAN]
Flow == [pc : {"idle", "draining", "posting", "leaving"}, source : Sources \cup {None},
         mount : 0..MaxMounts, executed : BOOLEAN]
Queue == [violations : 0..MaxEvents, dormant : BOOLEAN]
Server == [decided : Sources \cup {None}, violations : 0..Threshold]

NoFlow == [pc |-> "idle", source |-> None, mount |-> 0, executed |-> FALSE]
Calm == [submit |-> "IDLE", open |-> FALSE, draining |-> FALSE, fallback |-> FALSE, auth |-> FALSE]
NoQueue == [violations |-> 0, dormant |-> FALSE]

-----------------------------------------------------------------------------
(* Helpers *)

(* submitState as the handlers of the last render see it. *)
Latched == shown.submit \in {"AUTO_SUBMITTING", "SUBMITTED"}

InputsDisabled == Latched \/ shown.auth

(* A flow of the page that is open. *)
Mine(f) == flows[f].mount = mounts /\ page = "test"

StartFlow(source) ==
    \E f \in Flows :
       /\ flows[f].pc = "idle"
       /\ f = CHOOSE g \in Flows : flows[g].pc = "idle"
       /\ flows' = [flows EXCEPT ![f] = [pc |-> "draining", source |-> source,
                                         mount |-> mounts, executed |-> FALSE]]

AutoSubmit(source) ==
    IF Latched \/ ui.auth THEN UNCHANGED <<ui, flows>>
    ELSE /\ ui' = [ui EXCEPT !.submit = "AUTO_SUBMITTING", !.open = TRUE, !.draining = TRUE]
         /\ StartFlow(source)

(* handleAuthFailure resets the health counters, once. *)
OfflineAfter401 == offline /\ ui.auth

-----------------------------------------------------------------------------
(* The student *)

(* React renders, and the effects of the render hand the new handlers out.  *)
Render ==
    /\ page = "test"
    /\ shown # ui
    /\ shown' = ui /\ ticking' = FALSE
    /\ UNCHANGED <<ui, count, offline, fired, flows, queue, mounts, page, server,
                   cookie, expired, events, failed>>

(* Anything else renders the page: an edit, a jump to another question, a   *)
(* count in the header, the banner of a degraded network.                   *)
Rerender ==
    /\ page = "test"
    /\ shown = ui /\ ticking
    /\ ticking' = FALSE
    /\ UNCHANGED <<ui, shown, count, offline, fired, flows, queue, mounts, page, server,
                   cookie, expired, events, failed>>

OpenSubmit ==
    /\ page = "test"
    /\ ~InputsDisabled /\ ~shown.open
    /\ ui' = [ui EXCEPT !.open = TRUE]
    /\ shown' = ui' /\ ticking' = FALSE
    /\ UNCHANGED <<count, offline, fired, flows, queue, mounts, page, server,
                   cookie, expired, events, failed>>

(* "Continue test", or a click on a question's chip. *)
CancelSubmit ==
    /\ page = "test"
    /\ shown.open /\ ~shown.draining /\ ~shown.auth
    /\ ui' = [ui EXCEPT !.open = FALSE]
    /\ shown' = ui' /\ ticking' = FALSE
    /\ UNCHANGED <<count, offline, fired, flows, queue, mounts, page, server,
                   cookie, expired, events, failed>>

(* manualSubmit; unlike autoSubmit it does not look at authErrorRef. *)
ManualSubmit ==
    /\ page = "test"
    /\ shown.open /\ ~shown.draining /\ ~shown.auth
    /\ ~Latched
    /\ ui' = [ui EXCEPT !.submit = "AUTO_SUBMITTING", !.draining = TRUE]
    /\ shown' = ui' /\ ticking' = FALSE
    /\ StartFlow("MANUAL")
    /\ UNCHANGED <<count, offline, fired, queue, mounts, page, server,
                   cookie, expired, events, failed>>

(* onViolation: enqueue, count, and submit at the third. *)
Violation ==
    /\ page = "test"
    /\ events < MaxEvents
    /\ events' = events + 1
    /\ queue' = [queue EXCEPT !.violations = @ + 1]
    /\ count' = count + 1
    /\ IF count + 1 >= Threshold THEN AutoSubmit("VIOLATION_THRESHOLD")
       ELSE UNCHANGED <<ui, flows>>
    /\ UNCHANGED <<shown, offline, ticking, fired, mounts, page, server, cookie, expired,
                   failed>>

-----------------------------------------------------------------------------
(* The queue's posts and its callbacks *)

MayPost == page = "test" /\ ~queue.dormant

(* An edit's post is answered; the server refuses it once the session is    *)
(* submitted.                                                               *)
EditAcked ==
    /\ MayPost /\ cookie /\ server.decided = None
    /\ offline' = FALSE
    /\ UNCHANGED <<ui, shown, count, ticking, fired, flows, queue, mounts, page, server,
                   cookie, expired, events, failed>>

(* The queue drops a violation unsent: the shift after a post that an edit  *)
(* overtook, or hydrate, over one detected before.                          *)
ViolationDropped ==
    /\ page = "test" /\ queue.violations > 0
    /\ queue' = [queue EXCEPT !.violations = @ - 1]
    /\ UNCHANGED <<ui, shown, count, offline, ticking, fired, flows, mounts, page, server,
                   cookie, expired, events, failed>>

(* Mutation: violations are counted in a submitted session as well. *)
CountedAlways ==
    [server EXCEPT !.violations = @ + 1,
                   !.decided = IF @ = None /\ server.violations + 1 >= Threshold
                               THEN "VIOLATION_THRESHOLD" ELSE @]

(* POST /violations on the server: count, and submit at the threshold. *)
Counted ==
    IF server.decided # None THEN server
    ELSE [server EXCEPT !.violations = @ + 1,
                        !.decided = IF server.violations + 1 >= Threshold
                                    THEN "VIOLATION_THRESHOLD" ELSE None]

(* onViolationAck *)
ViolationAcked ==
    /\ MayPost /\ queue.violations > 0
    /\ cookie
    /\ server' = Counted
    /\ queue' = [queue EXCEPT !.violations = @ - 1]
    /\ offline' = FALSE
    /\ count' = Counted.violations
    /\ IF Counted.decided # server.decided THEN AutoSubmit("VIOLATION_THRESHOLD")
       ELSE UNCHANGED <<ui, flows>>
    /\ UNCHANGED <<shown, ticking, fired, mounts, page, cookie, expired, events, failed>>

(* A violation is counted and its answer comes too late, gets lost, or the  *)
(* page that would hear it is gone.  It still waits, or waits no more.      *)
CountedUnheard ==
    /\ page = "test" /\ cookie /\ events > 0
    /\ server' = Counted
    /\ UNCHANGED <<ui, shown, count, offline, ticking, fired, flows, queue, mounts, page,
                   cookie, expired, events, failed>>

(* A post fails.  onSyncFailure takes over the tries of the queue's head,   *)
(* which may be more or fewer than the failures counted so far.             *)
PostFails ==
    /\ MayPost
    /\ offline' \in BOOLEAN
    /\ UNCHANGED <<ui, shown, count, ticking, fired, flows, queue, mounts, page, server,
                   cookie, expired, events, failed>>

(* onSyncAuthError: the queue stops itself. *)
PostUnauthorized ==
    /\ MayPost /\ ~cookie
    /\ queue' = [queue EXCEPT !.dormant = TRUE]
    /\ ui' = [ui EXCEPT !.auth = TRUE]
    /\ offline' = OfflineAfter401
    /\ UNCHANGED <<shown, count, ticking, fired, flows, mounts, page, server,
                   cookie, expired, events, failed>>

-----------------------------------------------------------------------------
(* The heartbeat and the timer *)

(* A heartbeat.  One that is answered after an authentication error changes *)
(* nothing any more: the timer looks at authErrorRef first.                 *)
Heartbeat ==
    /\ page = "test"
    /\ ~ui.auth
    /\ \/ cookie /\ offline' = FALSE /\ UNCHANGED ui
       \/ ~cookie /\ offline' = OfflineAfter401 /\ ui' = [ui EXCEPT !.auth = TRUE]
       \/ offline' \in {offline, TRUE} /\ UNCHANGED ui
    /\ UNCHANGED <<shown, count, ticking, fired, flows, queue, mounts, page, server,
                   cookie, expired, events, failed>>

(* Mutation: offline, the timer leaves the test to the next connection. *)
TimerFiresOnline ==
    /\ page = "test"
    /\ expired /\ ticking /\ ~fired
    /\ fired' = TRUE
    /\ IF offline THEN UNCHANGED <<ui, flows>> ELSE AutoSubmit("TIMER_EXPIRY")
    /\ UNCHANGED <<shown, count, offline, ticking, queue, mounts, page, server,
                   cookie, expired, events, failed>>

(* Timer's interval finds no time remaining and calls handleTimerExpiry. *)
TimerFires ==
    /\ page = "test"
    /\ expired /\ ticking /\ ~fired
    /\ fired' = TRUE
    /\ AutoSubmit(IF offline THEN "NETWORK_FAILURE_FALLBACK" ELSE "TIMER_EXPIRY")
    /\ UNCHANGED <<shown, count, offline, ticking, queue, mounts, page, server,
                   cookie, expired, events, failed>>

-----------------------------------------------------------------------------
(* A submit flow *)

(* drainAndWait returns: the queue is empty or the time is up. *)
FlowDrained(f) ==
    /\ flows[f].pc = "draining"
    /\ flows' = [flows EXCEPT ![f].pc = "posting"]
    /\ UNCHANGED <<ui, shown, count, offline, ticking, fired, queue, mounts, page, server,
                   cookie, expired, events, failed>>

(* The server executes the submit; the first one decides. *)
FlowExecutes(f) ==
    /\ flows[f].pc = "posting" /\ ~flows[f].executed
    /\ cookie
    /\ flows' = [flows EXCEPT ![f].executed = TRUE]
    /\ server' = [server EXCEPT !.decided = IF @ = None THEN flows[f].source ELSE @]
    /\ UNCHANGED <<ui, shown, count, offline, ticking, fired, queue, mounts, page,
                   cookie, expired, events, failed>>

(* 200: latch and clear the queue. *)
FlowSucceeds(f) ==
    /\ flows[f].pc = "posting" /\ flows[f].executed
    /\ flows' = [flows EXCEPT ![f].pc = "leaving"]
    /\ IF Mine(f)
       THEN /\ ui' = [ui EXCEPT !.submit = "SUBMITTED"]
            /\ queue' = NoQueue
       ELSE UNCHANGED <<ui, queue>>
    /\ UNCHANGED <<shown, count, offline, ticking, fired, mounts, page, server,
                   cookie, expired, events, failed>>

(* The results are shown, whichever page was open, and nothing of it stays. *)
FlowLeaves(f) ==
    /\ flows[f].pc = "leaving"
    /\ flows' = [flows EXCEPT ![f] = NoFlow]
    /\ page' = "results"
    /\ ui' = Calm /\ shown' = Calm
    /\ count' = 0 /\ offline' = FALSE /\ ticking' = FALSE /\ fired' = FALSE
    /\ queue' = NoQueue
    /\ UNCHANGED <<mounts, server, cookie, expired, events, failed>>

(* 401: handleAuthFailure and back to IDLE; autoSubmit also closes the modal. *)
FlowUnauthorized(f) ==
    /\ flows[f].pc = "posting" /\ ~flows[f].executed
    /\ ~cookie
    /\ flows' = [flows EXCEPT ![f] = NoFlow]
    /\ IF Mine(f)
       THEN /\ ui' = [ui EXCEPT !.submit = "IDLE", !.draining = FALSE, !.auth = TRUE,
                                !.open = flows[f].source = "MANUAL" /\ @]
            /\ offline' = OfflineAfter401
       ELSE UNCHANGED <<ui, offline>>
    /\ UNCHANGED <<shown, count, ticking, fired, queue, mounts, page, server,
                   cookie, expired, events, failed>>

Ended(f) ==
    /\ flows[f].pc = "posting"
    /\ failed < MaxFailures
    /\ failed' = failed + 1
    /\ flows' = [flows EXCEPT ![f] = NoFlow]
    /\ UNCHANGED <<shown, count, offline, ticking, fired, queue, mounts, page, server,
                   cookie, expired, events>>

(* Mutation: whatever the status, the test is taken for submitted. *)
FlowFailsAccepting(f) ==
    /\ Ended(f)
    /\ ui' = IF Mine(f) THEN [ui EXCEPT !.submit = "SUBMITTED", !.draining = FALSE] ELSE ui

(* Mutation: the modal is released on success only. *)
FlowFailsBlocking(f) == Ended(f) /\ UNCHANGED ui

(* Another status, or no answer, or the answer lost.  The fallback counts   *)
(* as submitted on this device, another automatic submit stays latched, a   *)
(* manual one is given back to the student.                                 *)
FlowFails(f) ==
    /\ Ended(f)
    /\ ui' = IF ~Mine(f) THEN ui
             ELSE [ui EXCEPT !.draining = FALSE,
                             !.fallback = @ \/ flows[f].source = "NETWORK_FAILURE_FALLBACK",
                             !.submit = CASE flows[f].source = "NETWORK_FAILURE_FALLBACK" -> "SUBMITTED"
                                          [] flows[f].source = "MANUAL" -> "IDLE"
                                          [] OTHER -> @]

-----------------------------------------------------------------------------
(* The environment *)

(* The page opens: the server sends a submitted session to the results, the *)
(* queue is read back from IndexedDB, which may lack violations not yet     *)
(* written and bring back some already answered.                            *)
Open ==
    /\ mounts < MaxMounts
    /\ mounts' = mounts + 1
    /\ cookie' = TRUE
    /\ page' = IF server.decided = None THEN "test" ELSE "results"
    /\ ui' = Calm /\ shown' = Calm
    /\ count' = server.violations
    /\ offline' = FALSE
    /\ ticking' = TRUE /\ fired' = FALSE
    /\ \E n \in 0..events : queue' = [violations |-> n, dormant |-> FALSE]
    /\ UNCHANGED <<server, expired, events, failed>>

(* Through the login page and back: the flows of the old page go on. *)
SignIn == page = "test" /\ shown.auth /\ Open /\ UNCHANGED flows

(* The tab is reloaded or crashes: its flows are gone.  (A submit already on *)
(* the wire is executed before, or never.)                                  *)
Reload == page = "test" /\ Open /\ flows' = [f \in Flows |-> NoFlow]

(* The cookie expires or is revoked. *)
Revoke ==
    /\ page = "test" /\ cookie
    /\ cookie' = FALSE
    /\ UNCHANGED <<ui, shown, count, offline, ticking, fired, flows, queue, mounts, page, server,
                   expired, events, failed>>

Silence ==
    /\ page = "test" /\ ~offline
    /\ offline' = TRUE
    /\ UNCHANGED <<ui, shown, count, ticking, fired, flows, queue, mounts, page, server,
                   cookie, expired, events, failed>>

Expire ==
    /\ page = "test" /\ ~expired
    /\ expired' = TRUE
    /\ UNCHANGED <<ui, shown, count, offline, ticking, fired, flows, queue, mounts, page, server,
                   cookie, events, failed>>

-----------------------------------------------------------------------------
Init ==
    /\ ui = Calm /\ shown = Calm
    /\ count = 0
    /\ offline = FALSE
    /\ ticking = TRUE /\ fired = FALSE
    /\ flows = [f \in Flows |-> NoFlow]
    /\ queue = NoQueue
    /\ mounts = 1 /\ page = "test"
    /\ server = [decided |-> None, violations |-> 0]
    /\ cookie = TRUE /\ expired = FALSE
    /\ events = 0 /\ failed = 0

FlowStep(f) ==
    \/ FlowDrained(f) \/ FlowExecutes(f) \/ FlowSucceeds(f) \/ FlowLeaves(f)
    \/ FlowUnauthorized(f) \/ FlowFails(f)

Next ==
    \/ Render \/ Rerender \/ OpenSubmit \/ CancelSubmit \/ ManualSubmit \/ Violation
    \/ EditAcked \/ ViolationAcked \/ ViolationDropped \/ CountedUnheard
    \/ PostFails \/ PostUnauthorized
    \/ Heartbeat \/ TimerFires
    \/ \E f \in Flows : FlowStep(f)
    \/ SignIn \/ Reload \/ Revoke \/ Silence \/ Expire

Spec == Init /\ [][Next]_vars

(* The browser renders what was set and runs its timers, and a post gets an *)
(* answer or fails.  The timer is of use only while it ticks.  Nothing      *)
(* makes the student act, the network work or the page be reopened.         *)
FairSpec == Spec /\ WF_vars(Render) /\ WF_vars(TimerFires)
                 /\ \A f \in Flows : WF_vars(FlowStep(f))

-----------------------------------------------------------------------------
(* Properties *)

TypeOK ==
    /\ ui \in UIState /\ shown \in UIState
    /\ count \in 0..(Threshold + MaxEvents)
    /\ offline \in BOOLEAN /\ ticking \in BOOLEAN /\ fired \in BOOLEAN
    /\ cookie \in BOOLEAN /\ expired \in BOOLEAN
    /\ flows \in [Flows -> Flow]
    /\ queue \in Queue
    /\ mounts \in 1..MaxMounts /\ page \in {"test", "results"}
    /\ server \in Server
    /\ events \in 0..MaxEvents /\ failed \in 0..MaxFailures

(* The page says "submitted", or shows the results, only when the server    *)
(* has decided, except for the local fallback that says so; whichever of    *)
(* several submits was answered.  (autoSubmit, manualSubmit)                *)
SubmittedMeansDecided ==
    (ui.submit = "SUBMITTED" /\ ~ui.fallback) \/ page = "results" => server.decided # None

(* "Saving your answers" does not stay for ever: the modal that cannot be   *)
(* cancelled is released however the submit ends.  (the finally blocks)     *)
ModalReleased == (page = "test" /\ ui.draining) ~> ~(page = "test" /\ ui.draining)

(* A timer that has fired gets the session submitted, unless a submit post  *)
(* failed, the cookie was rejected or the page was opened anew: no rival    *)
(* submit, stale handler or late answer swallows the one call it makes.     *)
(* (handleTimerExpiry, firedRef)                                            *)
FiredDecides ==
    (page = "test" /\ fired) ~> (server.decided # None \/ failed > 0 \/ ui.auth \/ ~fired)

(* What the documents say and the code does not keep. *)

(* "the 3rd violation triggers auto-submit": fewer do not. *)
ThresholdMeansEvents == server.decided = "VIOLATION_THRESHOLD" => events >= Threshold

(* "Given the test session's expires_at is reached, when the client clock    *)
(* crosses it, then the client ... calls POST submit with auto_submit=true": *)
(* once the time is up the session gets submitted, unless a submit post     *)
(* failed or the cookie was rejected.                                       *)
ExpiryDecides ==
    (page = "test" /\ expired) ~> (server.decided # None \/ failed > 0 \/ ui.auth)
=============================================================================
