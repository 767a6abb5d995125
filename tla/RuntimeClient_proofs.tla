------------------------ MODULE RuntimeClient_proofs ------------------------
(***************************************************************************)
(* What holds of RuntimeClient for any number of overlapping submits,      *)
(* violations, mounts and failures, and any threshold.                     *)
(***************************************************************************)
EXTENDS RuntimeClient, TLAPS

USE ClientBounds, NoneAssumption

(* A submit under way has a source; one that the server has executed, or    *)
(* that was answered, finds the session decided.                            *)
FlowsDecided ==
    \A f \in Flows :
       /\ flows[f].pc # "idle" => flows[f].source \in Sources
       /\ flows[f].executed \/ flows[f].pc = "leaving" => server.decided # None

(* The counters: the queue holds no more violations than were detected, an  *)
(* open session is below the threshold, and the page's count runs ahead of  *)
(* the server's by no more than what was detected.                          *)
Counters ==
    /\ queue.violations <= events
    /\ count <= Threshold + events
    /\ server.decided = None => server.violations < Threshold

IInv == TypeOK /\ FlowsDecided /\ Counters /\ SubmittedMeansDecided

-----------------------------------------------------------------------------
LEMMA CalmTyped == Calm \in UIState /\ Calm.submit = "IDLE"
  BY DEF Calm, UIState, SubmitState

LEMMA InvInit == Init => IInv
  <1> SUFFICES ASSUME Init PROVE IInv
    OBVIOUS
  <1>1. TypeOK
    <2>1. ui \in UIState /\ shown \in UIState
      BY CalmTyped DEF Init
    <2>2. flows \in [Flows -> Flow]
      BY DEF Init, Flow, NoFlow
    <2>3. queue \in Queue /\ server \in Server
      BY DEF Init, Queue, Server, NoQueue
    <2>4. /\ offline \in BOOLEAN /\ ticking \in BOOLEAN /\ fired \in BOOLEAN
          /\ cookie \in BOOLEAN /\ expired \in BOOLEAN
      BY Zenon DEF Init
    <2>5. /\ count \in 0..(Threshold + MaxEvents) /\ mounts \in 1..MaxMounts
          /\ events \in 0..MaxEvents /\ failed \in 0..MaxFailures
      BY DEF Init
    <2>6. page \in {"test", "results"}
      BY DEF Init
    <2> QED BY <2>1, <2>2, <2>3, <2>4, <2>5, <2>6, Zenon DEF TypeOK
  <1>2. FlowsDecided /\ Counters
    BY DEF Init, FlowsDecided, Counters, NoFlow, NoQueue
  <1>3. SubmittedMeansDecided
    BY DEF Init, SubmittedMeansDecided, Calm
  <1> QED BY <1>1, <1>2, <1>3 DEF IInv

(* A submit that starts, or is passed over, keeps the invariant of flows.   *)
LEMMA FlowStarted ==
    ASSUME IInv, NEW source \in Sources, StartFlow(source),
           server'.decided = server.decided \/ server'.decided # None
    PROVE  flows' \in [Flows -> Flow] /\ FlowsDecided'
  <1>1. PICK f \in Flows :
           flows' = [flows EXCEPT ![f] = [pc |-> "draining", source |-> source,
                                          mount |-> mounts, executed |-> FALSE]]
    BY DEF StartFlow
  <1>2. [pc |-> "draining", source |-> source, mount |-> mounts, executed |-> FALSE] \in Flow
    BY DEF IInv, TypeOK, Flow
  <1>3. flows \in [Flows -> Flow]
    BY DEF IInv, TypeOK, Flow
  <1>4. flows' \in [Flows -> Flow]
    BY <1>1, <1>2, <1>3
  <1>5. FlowsDecided'
    BY <1>1, <1>2, <1>3 DEF IInv, FlowsDecided
  <1> QED BY <1>4, <1>5

LEMMA AutoSubmitted ==
    ASSUME IInv, NEW source \in Sources, AutoSubmit(source),
           server'.decided = server.decided \/ server'.decided # None
    PROVE  /\ ui' \in UIState /\ flows' \in [Flows -> Flow] /\ FlowsDecided'
           /\ ui'.submit = "SUBMITTED" /\ ~ui'.fallback => ui.submit = "SUBMITTED" /\ ~ui.fallback
  <1>1. CASE UNCHANGED <<ui, flows>>
    BY <1>1 DEF IInv, TypeOK, UIState, Flow, FlowsDecided
  <1>2. CASE /\ ui' = [ui EXCEPT !.submit = "AUTO_SUBMITTING", !.open = TRUE, !.draining = TRUE]
             /\ StartFlow(source)
    <2>1. ui' \in UIState /\ ui'.submit = "AUTO_SUBMITTING"
      BY <1>2 DEF IInv, TypeOK, UIState, SubmitState
    <2> QED BY <1>2, <2>1, FlowStarted
  <1> QED BY <1>1, <1>2 DEF AutoSubmit

(* A step that touches the page's state and the submits only, and does not  *)
(* make the page say submitted.                                             *)
LEMMA PageStep ==
    ASSUME IInv,
           ui' \in UIState, shown' \in UIState,
           offline' \in BOOLEAN, ticking' \in BOOLEAN, fired' \in BOOLEAN, cookie' \in BOOLEAN, expired' \in BOOLEAN,
           failed' \in 0..MaxFailures,
           flows' \in [Flows -> Flow], FlowsDecided',
           queue' \in Queue, queue'.violations <= queue.violations,
           UNCHANGED <<count, mounts, page, server, events>>,
           ui'.submit = "SUBMITTED" /\ ~ui'.fallback
              => (ui.submit = "SUBMITTED" /\ ~ui.fallback) \/ server.decided # None
    PROVE  IInv'
  <1>1. TypeOK'
    BY Zenon DEF IInv, TypeOK
  <1>2. Counters'
    BY DEF IInv, TypeOK, Queue, Counters
  <1>3. SubmittedMeansDecided'
    BY DEF IInv, SubmittedMeansDecided
  <1> QED BY <1>1, <1>2, <1>3, Zenon DEF IInv

(* What a queue left alone gives PageStep. *)
LEMMA QueueKept ==
    ASSUME IInv, UNCHANGED queue
    PROVE  queue' \in Queue /\ queue'.violations <= queue.violations
  BY DEF IInv, TypeOK, Queue

LEMMA InvRender == ASSUME IInv, Render \/ Rerender PROVE IInv'
  <1>1. FlowsDecided'
    BY DEF IInv, FlowsDecided, Render, Rerender
  <1>2. CASE Render
    BY <1>1, <1>2, PageStep, QueueKept, Zenon DEF Render, IInv, TypeOK
  <1>3. CASE Rerender
    BY <1>1, <1>3, PageStep, QueueKept, Zenon DEF Rerender, IInv, TypeOK
  <1> QED BY <1>2, <1>3

LEMMA InvOpenSubmit == ASSUME IInv, OpenSubmit PROVE IInv'
  <1>1. ui' \in UIState /\ ui'.submit = ui.submit /\ ui'.fallback = ui.fallback
    BY DEF IInv, TypeOK, UIState, OpenSubmit
  <1>2. FlowsDecided'
    BY DEF IInv, FlowsDecided, OpenSubmit
  <1> QED BY <1>1, <1>2, PageStep, QueueKept, Zenon DEF OpenSubmit, IInv, TypeOK

LEMMA InvCancelSubmit == ASSUME IInv, CancelSubmit PROVE IInv'
  <1>1. ui' \in UIState /\ ui'.submit = ui.submit /\ ui'.fallback = ui.fallback
    BY DEF IInv, TypeOK, UIState, CancelSubmit
  <1>2. FlowsDecided'
    BY DEF IInv, FlowsDecided, CancelSubmit
  <1> QED BY <1>1, <1>2, PageStep, QueueKept, Zenon DEF CancelSubmit, IInv, TypeOK

LEMMA InvManualSubmit == ASSUME IInv, ManualSubmit PROVE IInv'
  <1>1. ui' \in UIState /\ ui'.submit = "AUTO_SUBMITTING"
    BY DEF IInv, TypeOK, UIState, SubmitState, ManualSubmit
  <1>2. flows' \in [Flows -> Flow] /\ FlowsDecided'
    BY FlowStarted DEF ManualSubmit, Sources
  <1> QED BY <1>1, <1>2, PageStep, QueueKept, Zenon DEF ManualSubmit, IInv, TypeOK

LEMMA InvTimerFires == ASSUME IInv, TimerFires PROVE IInv'
  <1>1. PICK source \in Sources : AutoSubmit(source)
    BY DEF TimerFires, Sources, AutoSources
  <1>2. /\ ui' \in UIState /\ flows' \in [Flows -> Flow] /\ FlowsDecided'
        /\ ui'.submit = "SUBMITTED" /\ ~ui'.fallback => ui.submit = "SUBMITTED" /\ ~ui.fallback
    BY <1>1, AutoSubmitted DEF TimerFires
  <1> QED BY <1>2, PageStep, QueueKept, Zenon DEF TimerFires, IInv, TypeOK

(* The answers and the silences that change health and authentication, and  *)
(* the violations the queue drops.                                          *)
LEMMA InvHealth ==
    ASSUME IInv,
           PostUnauthorized \/ Heartbeat \/ Silence \/ EditAcked \/ PostFails \/ ViolationDropped
    PROVE  IInv'
  <1>1. /\ ui' \in UIState /\ ui'.submit = ui.submit /\ ui'.fallback = ui.fallback
        /\ UNCHANGED <<shown, ticking, fired, flows, count, mounts, page, server, cookie, expired,
                       events, failed>>
    BY DEF IInv, TypeOK, UIState, PostUnauthorized, Heartbeat, Silence, EditAcked, PostFails,
           ViolationDropped
  <1>2. offline' \in BOOLEAN
    BY Zenon DEF IInv, TypeOK, PostUnauthorized, Heartbeat, Silence, EditAcked, PostFails,
                 ViolationDropped, OfflineAfter401
  <1>3. queue' \in Queue /\ queue'.violations <= queue.violations
    <2>1. \/ UNCHANGED queue
          \/ queue' = [queue EXCEPT !.dormant = TRUE]
          \/ queue.violations > 0 /\ queue' = [queue EXCEPT !.violations = @ - 1]
      BY DEF PostUnauthorized, Heartbeat, Silence, EditAcked, PostFails, ViolationDropped
    <2>2. queue \in Queue /\ queue.violations \in 0..MaxEvents
      BY DEF IInv, TypeOK, Queue
    <2>3. CASE queue.violations > 0 /\ queue' = [queue EXCEPT !.violations = @ - 1]
      <3> DEFINE n == queue.violations - 1
      <3>1. n \in 0..MaxEvents /\ n <= queue.violations
        BY <2>2, <2>3
      <3>2. queue' = [queue EXCEPT !.violations = n]
        BY <2>3
      <3> HIDE DEF n
      <3> QED BY <2>2, <3>1, <3>2 DEF Queue
    <2>4. CASE UNCHANGED queue \/ queue' = [queue EXCEPT !.dormant = TRUE]
      <3>1. queue' \in Queue /\ queue'.violations = queue.violations
        BY <2>2, <2>4 DEF Queue
      <3> QED BY <2>2, <3>1
    <2> QED BY <2>1, <2>3, <2>4
  <1>4. FlowsDecided'
    BY <1>1 DEF IInv, FlowsDecided
  <1> QED BY <1>1, <1>2, <1>3, <1>4, PageStep, Zenon DEF IInv, TypeOK

LEMMA InvEnvironment == ASSUME IInv, Revoke \/ Expire PROVE IInv'
  <1>1. UNCHANGED <<ui, shown, count, offline, ticking, fired, flows, queue, mounts, page,
                    server, events, failed>>
    BY DEF Revoke, Expire
  <1>2. cookie' \in BOOLEAN /\ expired' \in BOOLEAN
    BY Zenon DEF IInv, TypeOK, Revoke, Expire
  <1>3. FlowsDecided'
    BY <1>1 DEF IInv, FlowsDecided
  <1> QED BY <1>1, <1>2, <1>3, PageStep, QueueKept, Zenon DEF IInv, TypeOK

(* A submit that moves on, or is given up, in the flows. *)
LEMMA FlowMoved ==
    ASSUME IInv, NEW f \in Flows, NEW g \in Flow,
           flows' = [flows EXCEPT ![f] = g],
           g.pc # "idle" => g.source \in Sources,
           g.executed \/ g.pc = "leaving" => server'.decided # None,
           server'.decided = server.decided \/ server'.decided # None
    PROVE  flows' \in [Flows -> Flow] /\ FlowsDecided'
  BY DEF IInv, TypeOK, FlowsDecided

LEMMA NoFlowTyped == NoFlow \in Flow /\ NoFlow.pc = "idle"
  BY DEF NoFlow, Flow

LEMMA InvFlowDrained ==
    ASSUME IInv, NEW f \in Flows, FlowDrained(f)
    PROVE  IInv'
  <1> DEFINE g == [flows[f] EXCEPT !.pc = "posting"]
  <1>1. g \in Flow /\ g.pc = "posting" /\ g.source \in Sources /\ g.executed = flows[f].executed
    BY DEF IInv, TypeOK, Flow, FlowsDecided, FlowDrained
  <1>2. flows' = [flows EXCEPT ![f] = g]
    BY DEF IInv, TypeOK, FlowDrained
  <1>3. flows[f].executed => server.decided # None
    BY DEF IInv, FlowsDecided
  <1>4. flows' \in [Flows -> Flow] /\ FlowsDecided'
    <2> HIDE DEF g
    <2> QED BY <1>1, <1>2, <1>3, FlowMoved DEF FlowDrained
  <1> QED BY <1>4, PageStep, QueueKept, Zenon DEF FlowDrained, IInv, TypeOK

(* The server decides, at the first submit executed.                        *)
LEMMA InvFlowExecutes ==
    ASSUME IInv, NEW f \in Flows, FlowExecutes(f)
    PROVE  IInv'
  <1> DEFINE g == [flows[f] EXCEPT !.executed = TRUE]
  <1>1. g \in Flow /\ g.pc = "posting" /\ g.source \in Sources /\ flows[f].source \in Sources
    BY DEF IInv, TypeOK, Flow, FlowsDecided, FlowExecutes
  <1>2. flows' = [flows EXCEPT ![f] = g]
    BY DEF IInv, TypeOK, FlowExecutes
  <1>3. /\ server' \in Server /\ server'.decided # None
    BY <1>1 DEF IInv, TypeOK, Server, FlowExecutes, Sources, AutoSources
  <1>4. flows' \in [Flows -> Flow] /\ FlowsDecided'
    <2> HIDE DEF g
    <2> QED BY <1>1, <1>2, <1>3, FlowMoved
  <1>5. TypeOK'
    BY <1>3, <1>4, Zenon DEF FlowExecutes, IInv, TypeOK
  <1>6. Counters'
    BY <1>3 DEF FlowExecutes, IInv, Counters
  <1>7. SubmittedMeansDecided'
    BY <1>3 DEF SubmittedMeansDecided
  <1> QED BY <1>4, <1>5, <1>6, <1>7, Zenon DEF IInv

(* The answer: the page may say submitted, and forget, what is decided.     *)
LEMMA InvFlowSucceeds ==
    ASSUME IInv, NEW f \in Flows, FlowSucceeds(f)
    PROVE  IInv'
  <1> DEFINE g == [flows[f] EXCEPT !.pc = "leaving"]
  <1>1. g \in Flow /\ g.pc = "leaving" /\ g.source \in Sources
    BY DEF IInv, TypeOK, Flow, FlowsDecided, FlowSucceeds
  <1>2. flows' = [flows EXCEPT ![f] = g] /\ UNCHANGED server
    BY DEF IInv, TypeOK, FlowSucceeds
  <1>3. server.decided # None
    BY DEF IInv, FlowsDecided, FlowSucceeds
  <1>4. flows' \in [Flows -> Flow] /\ FlowsDecided'
    <2> HIDE DEF g
    <2> QED BY <1>1, <1>2, <1>3, FlowMoved
  <1>5. ui' \in UIState
    BY DEF IInv, TypeOK, UIState, SubmitState, FlowSucceeds
  <1>6. queue' \in Queue /\ (UNCHANGED queue \/ queue' = NoQueue)
    <2>1. NoQueue \in Queue /\ queue \in Queue
      BY DEF IInv, TypeOK, Queue, NoQueue
    <2>2. UNCHANGED queue \/ queue' = NoQueue
      BY Zenon DEF FlowSucceeds
    <2> QED BY <2>1, <2>2
  <1>7. TypeOK'
    <2>1. UNCHANGED <<shown, count, offline, ticking, fired, mounts, page, server, cookie, expired,
                      events, failed>>
      BY DEF FlowSucceeds
    <2> QED BY <1>4, <1>5, <1>6, <2>1, Zenon DEF IInv, TypeOK
  <1>8. Counters'
    BY <1>6 DEF FlowSucceeds, IInv, TypeOK, Counters, NoQueue
  <1>9. SubmittedMeansDecided'
    BY <1>2, <1>3 DEF SubmittedMeansDecided
  <1> QED BY <1>4, <1>7, <1>8, <1>9, Zenon DEF IInv

LEMMA InvFlowLeaves ==
    ASSUME IInv, NEW f \in Flows, FlowLeaves(f)
    PROVE  IInv'
  <1>1. server.decided # None /\ UNCHANGED server
    BY DEF IInv, FlowsDecided, FlowLeaves
  <1>2. flows' \in [Flows -> Flow] /\ FlowsDecided'
    <2>1. NoFlow.executed = FALSE
      BY DEF NoFlow
    <2> QED BY <1>1, <2>1, NoFlowTyped, FlowMoved DEF FlowLeaves
  <1>3. queue' \in Queue
    BY DEF FlowLeaves, NoQueue, Queue
  <1>4. count' \in 0..(Threshold + MaxEvents)
    BY DEF FlowLeaves
  <1>5. TypeOK'
    BY <1>2, <1>3, <1>4, CalmTyped, Zenon DEF FlowLeaves, IInv, TypeOK
  <1>6. Counters'
    BY <1>1 DEF FlowLeaves, IInv, TypeOK, Counters, NoQueue
  <1>7. SubmittedMeansDecided'
    BY <1>1 DEF SubmittedMeansDecided
  <1> QED BY <1>2, <1>5, <1>6, <1>7, Zenon DEF IInv

LEMMA InvFlowUnauthorized ==
    ASSUME IInv, NEW f \in Flows, FlowUnauthorized(f)
    PROVE  IInv'
  <1>1. flows' \in [Flows -> Flow] /\ FlowsDecided'
    <2>1. NoFlow.executed = FALSE
      BY DEF NoFlow
    <2> QED BY <2>1, NoFlowTyped, FlowMoved DEF FlowUnauthorized
  <1>2. ui' \in UIState /\ (UNCHANGED ui \/ ui'.submit = "IDLE")
    BY DEF IInv, TypeOK, UIState, SubmitState, FlowUnauthorized
  <1>3. offline' \in BOOLEAN
    BY Zenon DEF IInv, TypeOK, FlowUnauthorized, OfflineAfter401
  <1> QED BY <1>1, <1>2, <1>3, PageStep, QueueKept, Zenon DEF FlowUnauthorized, IInv, TypeOK

(* A failed submit says submitted only together with the local fallback.    *)
LEMMA InvFlowFails ==
    ASSUME IInv, NEW f \in Flows, FlowFails(f)
    PROVE  IInv'
  <1>1. flows' \in [Flows -> Flow] /\ FlowsDecided'
    <2>1. NoFlow.executed = FALSE
      BY DEF NoFlow
    <2> QED BY <2>1, NoFlowTyped, FlowMoved DEF FlowFails, Ended
  <1>2. /\ ui' \in UIState
        /\ ui'.submit = "SUBMITTED" /\ ~ui'.fallback => ui.submit = "SUBMITTED" /\ ~ui.fallback
    <2>1. CASE ~Mine(f)
      BY <2>1 DEF IInv, TypeOK, FlowFails
    <2>2. CASE Mine(f) /\ flows[f].source = "NETWORK_FAILURE_FALLBACK"
      BY <2>2 DEF IInv, TypeOK, UIState, SubmitState, FlowFails
    <2>3. CASE Mine(f) /\ flows[f].source = "MANUAL"
      BY <2>3 DEF IInv, TypeOK, UIState, SubmitState, FlowFails
    <2>4. CASE Mine(f) /\ flows[f].source \notin {"NETWORK_FAILURE_FALLBACK", "MANUAL"}
      BY <2>4 DEF IInv, TypeOK, UIState, SubmitState, FlowFails
    <2> QED BY <2>1, <2>2, <2>3, <2>4
  <1>3. failed' \in 0..MaxFailures
    BY DEF IInv, TypeOK, FlowFails, Ended
  <1> QED BY <1>1, <1>2, <1>3, PageStep, QueueKept, Zenon DEF FlowFails, Ended, IInv, TypeOK

-----------------------------------------------------------------------------
(* The student and the queue *)

LEMMA FlowsUntouched ==
    ASSUME IInv, UNCHANGED flows, server'.decided = server.decided \/ server'.decided # None
    PROVE  flows' \in [Flows -> Flow] /\ FlowsDecided'
  BY DEF IInv, TypeOK, FlowsDecided

LEMMA InvViolation == ASSUME IInv, Violation PROVE IInv'
  <1>1. /\ events' = events + 1 /\ events' \in 0..MaxEvents
        /\ count' = count + 1
    BY DEF IInv, TypeOK, Violation
  <1>2. count' \in 0..(Threshold + MaxEvents)
    BY <1>1 DEF IInv, TypeOK, Counters
  <1>3. queue' \in Queue /\ queue'.violations = queue.violations + 1
    BY <1>1 DEF IInv, TypeOK, Queue, Counters, Violation
  <1>4. /\ ui' \in UIState /\ flows' \in [Flows -> Flow] /\ FlowsDecided'
        /\ ui'.submit = "SUBMITTED" /\ ~ui'.fallback => ui.submit = "SUBMITTED" /\ ~ui.fallback
    <2>1. CASE AutoSubmit("VIOLATION_THRESHOLD")
      BY <2>1, AutoSubmitted DEF Violation, Sources, AutoSources
    <2>2. CASE UNCHANGED <<ui, flows>>
      BY <2>2, FlowsUntouched DEF Violation, IInv, TypeOK
    <2> QED BY <2>1, <2>2 DEF Violation
  <1>5. TypeOK'
    <2>1. UNCHANGED <<shown, offline, ticking, fired, mounts, page, server, cookie, expired,
                      failed>>
      BY DEF Violation
    <2> QED BY <1>1, <1>2, <1>3, <1>4, <2>1, Zenon DEF IInv, TypeOK
  <1>6. Counters'
    BY <1>1, <1>3 DEF Violation, IInv, TypeOK, Queue, Counters
  <1>7. SubmittedMeansDecided'
    BY <1>3, <1>4 DEF Violation, IInv, SubmittedMeansDecided
  <1> QED BY <1>4, <1>5, <1>6, <1>7, Zenon DEF IInv

(* What the server makes of a violation. *)
LEMMA CountedTyped ==
    ASSUME IInv
    PROVE  /\ Counted \in Server
           /\ Counted.decided = server.decided \/ Counted.decided # None
           /\ Counted.decided = None => Counted.violations < Threshold
  <1>1. CASE server.decided # None
    BY <1>1 DEF IInv, TypeOK, Server, Counted
  <1>2. CASE server.decided = None
    <2> DEFINE n == server.violations + 1
               d == IF n >= Threshold THEN "VIOLATION_THRESHOLD" ELSE None
    <2>1. n \in 0..Threshold /\ server.violations \in Nat /\ server \in Server
      BY <1>2 DEF IInv, TypeOK, Server, Counters
    <2>2. d \in Sources \cup {None} /\ (d = None => n < Threshold)
      BY <2>1 DEF Sources, AutoSources
    <2>3. Counted = [server EXCEPT !.violations = n, !.decided = d]
      BY <1>2, <2>1 DEF Counted, Server
    <2> HIDE DEF n, d
    <2> QED BY <1>2, <2>1, <2>2, <2>3 DEF Server
  <1> QED BY <1>1, <1>2

LEMMA InvViolationAcked == ASSUME IInv, ViolationAcked PROVE IInv'
  <1>1. /\ server' \in Server
        /\ server'.decided = server.decided \/ server'.decided # None
        /\ server'.decided = None => server'.violations < Threshold
    BY CountedTyped DEF ViolationAcked
  <1>2. /\ queue' \in Queue
        /\ queue'.violations = queue.violations - 1 /\ queue.violations \in Nat
    BY DEF IInv, TypeOK, Queue, ViolationAcked
  <1>3. count' \in 0..Threshold
    BY CountedTyped DEF ViolationAcked, Server
  <1>4. count' \in 0..(Threshold + MaxEvents)
    BY <1>3
  <1>5. /\ ui' \in UIState /\ flows' \in [Flows -> Flow] /\ FlowsDecided'
        /\ ui'.submit = "SUBMITTED" /\ ~ui'.fallback => ui.submit = "SUBMITTED" /\ ~ui.fallback
    <2>1. CASE AutoSubmit("VIOLATION_THRESHOLD")
      BY <1>1, <2>1, AutoSubmitted DEF Sources, AutoSources
    <2>2. CASE UNCHANGED <<ui, flows>>
      BY <1>1, <2>2, FlowsUntouched DEF IInv, TypeOK
    <2> QED BY <2>1, <2>2 DEF ViolationAcked
  <1>6. TypeOK'
    <2>1. /\ UNCHANGED <<shown, ticking, fired, mounts, page, cookie, expired, events, failed>>
          /\ offline' = FALSE
      BY DEF ViolationAcked
    <2> QED BY <1>1, <1>2, <1>4, <1>5, <2>1, Zenon DEF IInv, TypeOK
  <1>7. Counters'
    BY <1>1, <1>2, <1>3 DEF ViolationAcked, IInv, TypeOK, Counters
  <1>8. SubmittedMeansDecided'
    BY <1>1, <1>2, <1>5 DEF ViolationAcked, IInv, SubmittedMeansDecided
  <1> QED BY <1>5, <1>6, <1>7, <1>8, Zenon DEF IInv

LEMMA InvCountedUnheard == ASSUME IInv, CountedUnheard PROVE IInv'
  <1>1. /\ server' \in Server
        /\ server'.decided = server.decided \/ server'.decided # None
        /\ server'.decided = None => server'.violations < Threshold
    BY CountedTyped DEF CountedUnheard, IInv, TypeOK, Counters
  <1>2. flows' \in [Flows -> Flow] /\ FlowsDecided'
    BY <1>1, FlowsUntouched DEF CountedUnheard
  <1>3. UNCHANGED <<ui, shown, count, offline, ticking, fired, queue, mounts, page, cookie,
                    expired, events, failed>>
    BY DEF CountedUnheard
  <1>4. TypeOK'
    BY <1>1, <1>2, <1>3, Zenon DEF IInv, TypeOK
  <1>5. Counters'
    BY <1>1, <1>3 DEF IInv, Counters
  <1>6. SubmittedMeansDecided'
    BY <1>1, <1>3 DEF IInv, SubmittedMeansDecided
  <1> QED BY <1>2, <1>4, <1>5, <1>6, Zenon DEF IInv

(* The page opens: nothing of the old page is kept but what IndexedDB holds. *)
LEMMA InvOpen == ASSUME IInv, SignIn \/ Reload PROVE IInv'
  <1>1. Open
    BY DEF SignIn, Reload
  <1>2. flows' \in [Flows -> Flow] /\ FlowsDecided'
    <2>1. CASE UNCHANGED flows
      BY <1>1, <2>1, FlowsUntouched DEF Open
    <2>2. CASE flows' = [f \in Flows |-> NoFlow]
      BY <2>2, NoFlowTyped DEF FlowsDecided, NoFlow
    <2> QED BY <2>1, <2>2 DEF SignIn, Reload
  <1>3. queue' \in Queue /\ queue'.violations <= events
    BY <1>1 DEF IInv, TypeOK, Queue, Open
  <1>4. count' \in 0..Threshold /\ count' \in 0..(Threshold + MaxEvents) /\ mounts' \in 1..MaxMounts
    BY <1>1 DEF IInv, TypeOK, Server, Open
  <1>5. page' \in {"test", "results"} /\ (page' = "results" => server.decided # None)
    BY <1>1 DEF Open
  <1>6. TypeOK'
    <2>1. /\ UNCHANGED <<server, expired, events, failed>>
          /\ ui' = Calm /\ shown' = Calm /\ cookie' = TRUE /\ offline' = FALSE
          /\ ticking' = TRUE /\ fired' = FALSE
      BY <1>1 DEF Open
    <2> QED BY <1>2, <1>3, <1>4, <1>5, <2>1, CalmTyped, Zenon DEF IInv, TypeOK
  <1>7. Counters'
    BY <1>1, <1>3, <1>4 DEF Open, IInv, TypeOK, Counters
  <1>8. SubmittedMeansDecided'
    BY <1>1, <1>3, <1>5, CalmTyped DEF Open, IInv, SubmittedMeansDecided
  <1> QED BY <1>2, <1>6, <1>7, <1>8, Zenon DEF IInv

-----------------------------------------------------------------------------
LEMMA InvStep == IInv /\ [Next]_vars => IInv'
  <1> SUFFICES ASSUME IInv, [Next]_vars PROVE IInv'
    OBVIOUS
  <1>1. CASE Render \/ Rerender \/ OpenSubmit \/ CancelSubmit \/ ManualSubmit
    BY <1>1, InvRender, InvOpenSubmit, InvCancelSubmit, InvManualSubmit
  <1>2. CASE Violation
    BY <1>2, InvViolation
  <1>3. CASE ViolationAcked \/ CountedUnheard
    BY <1>3, InvViolationAcked, InvCountedUnheard
  <1>4. CASE PostUnauthorized \/ Heartbeat \/ Silence \/ EditAcked \/ PostFails \/ ViolationDropped
    BY <1>4, InvHealth
  <1>5. CASE TimerFires
    BY <1>5, InvTimerFires
  <1>6. ASSUME NEW f \in Flows, FlowStep(f) PROVE IInv'
    BY <1>6, InvFlowDrained, InvFlowExecutes, InvFlowSucceeds, InvFlowLeaves,
       InvFlowUnauthorized, InvFlowFails DEF FlowStep
  <1>7. CASE SignIn \/ Reload
    BY <1>7, InvOpen
  <1>8. CASE Revoke \/ Expire
    BY <1>8, InvEnvironment
  <1>9. CASE UNCHANGED vars
    BY <1>9 DEF vars, IInv, TypeOK, FlowsDecided, Counters, SubmittedMeansDecided
  <1> QED BY <1>1, <1>2, <1>3, <1>4, <1>5, <1>6, <1>7, <1>8, <1>9 DEF Next

(* The inductive invariant holds in every reachable state.  (the handlers   *)
(* of RuntimeProvider.tsx)                                                  *)
THEOREM ClientInvariant == Spec => []IInv
  BY InvInit, InvStep, PTL DEF Spec

(* Every variable keeps its type, the bounds of the counters included.      *)
THEOREM ClientTypeCorrect == Spec => []TypeOK
  <1>1. IInv => TypeOK
    BY DEF IInv
  <1> QED BY <1>1, ClientInvariant, PTL

(* However many submits overlap and whatever becomes of them, the page says *)
(* "submitted" only of a session the server has decided, or admits that the *)
(* submit is local.  (autoSubmit, manualSubmit)                             *)
THEOREM SubmittedMeansDecidedHolds == Spec => []SubmittedMeansDecided
  <1>1. IInv => SubmittedMeansDecided
    BY DEF IInv
  <1> QED BY <1>1, ClientInvariant, PTL

-----------------------------------------------------------------------------
(* Why "the 3rd violation triggers auto-submit" can fail.                   *)

(* A violation counted is heard of, and none comes back with a new page.    *)
CountedOnce ==
    /\ CountedUnheard => UNCHANGED server
    /\ mounts' # mounts => queue'.violations <= queue.violations

(* Each violation detected is counted once, here or there.                  *)
Tally ==
    /\ server.violations + queue.violations <= events
    /\ count <= events
    /\ \A f \in Flows : flows[f].source = "VIOLATION_THRESHOLD" => events >= Threshold
    /\ ThresholdMeansEvents

LEMMA TallyTyped ==
    IInv => /\ server.violations \in Nat /\ queue.violations \in Nat /\ count \in Nat
            /\ events \in Nat /\ Threshold \in Nat /\ flows \in [Flows -> Flow]
  BY DEF IInv, TypeOK, Server, Queue

(* A submit that starts is for the threshold only when that is reached.     *)
LEMMA TallyStarted ==
    ASSUME IInv, Tally, NEW source, AutoSubmit(source) \/ StartFlow(source),
           source = "VIOLATION_THRESHOLD" => events' >= Threshold,
           events' \in Nat, events' >= events
    PROVE  \A f \in Flows : flows'[f].source = "VIOLATION_THRESHOLD" => events' >= Threshold
  <1>1. events >= Threshold => events' >= Threshold
    BY TallyTyped
  <1>2. CASE UNCHANGED flows
    BY <1>1, <1>2 DEF Tally
  <1>3. CASE StartFlow(source)
    <2>1. PICK f \in Flows :
             flows' = [flows EXCEPT ![f] = [pc |-> "draining", source |-> source,
                                            mount |-> mounts, executed |-> FALSE]]
      BY <1>3 DEF StartFlow
    <2> QED BY <1>1, <2>1, TallyTyped DEF Tally
  <1> QED BY <1>2, <1>3 DEF AutoSubmit

(* The steps that detect and count nothing.                                 *)
LEMMA TallyQuiet ==
    ASSUME Tally, UNCHANGED <<server, events>>,
           queue'.violations \in Nat, queue'.violations <= queue.violations,
           count' = count \/ count' = 0 \/ count' = server.violations,
           IInv,
           \A f \in Flows : flows'[f].source = "VIOLATION_THRESHOLD" => events >= Threshold
    PROVE  Tally'
  BY TallyTyped DEF Tally, ThresholdMeansEvents

LEMMA TallyStep == ASSUME IInv, Tally, [Next /\ CountedOnce]_vars PROVE Tally'
  <1>0. /\ \A f \in Flows : flows[f].source = "VIOLATION_THRESHOLD" => events >= Threshold
        /\ server.violations <= events
    BY TallyTyped DEF Tally
  <1>1. CASE \/ Render \/ Rerender \/ OpenSubmit \/ CancelSubmit \/ PostUnauthorized \/ Heartbeat
             \/ EditAcked \/ PostFails \/ ViolationDropped
             \/ Revoke \/ Silence \/ Expire \/ UNCHANGED vars
    <2>1. /\ UNCHANGED <<server, events, count, flows>>
          /\ \/ UNCHANGED queue
             \/ queue' = [queue EXCEPT !.dormant = TRUE]
             \/ queue.violations > 0 /\ queue' = [queue EXCEPT !.violations = @ - 1]
      BY <1>1 DEF Render, Rerender, OpenSubmit, CancelSubmit, PostUnauthorized, Heartbeat,
                  EditAcked, PostFails, ViolationDropped, Revoke, Silence, Expire, vars
    <2>2. queue'.violations \in Nat /\ queue'.violations <= queue.violations
      BY <2>1 DEF IInv, TypeOK, Queue
    <2> QED BY <1>0, <2>1, <2>2, TallyQuiet
  <1>2. CASE ManualSubmit
    <2>1. /\ UNCHANGED <<server, events, count, queue>> /\ StartFlow("MANUAL")
      BY <1>2 DEF ManualSubmit
    <2>2. \A f \in Flows : flows'[f].source = "VIOLATION_THRESHOLD" => events >= Threshold
      BY <2>1, TallyStarted, TallyTyped
    <2> QED BY <2>1, <2>2, TallyQuiet, TallyTyped
  <1>3. CASE TimerFires
    <2>1. PICK source \in {"NETWORK_FAILURE_FALLBACK", "TIMER_EXPIRY"} :
             AutoSubmit(source) /\ UNCHANGED <<server, events, count, queue>>
      BY <1>3 DEF TimerFires
    <2>2. \A f \in Flows : flows'[f].source = "VIOLATION_THRESHOLD" => events >= Threshold
      BY <2>1, TallyStarted, TallyTyped
    <2> QED BY <2>1, <2>2, TallyQuiet, TallyTyped
  <1>4. CASE Violation
    <2>1. /\ events' = events + 1 /\ count' = count + 1 /\ UNCHANGED server
          /\ queue'.violations = queue.violations + 1
      BY <1>4 DEF Violation, IInv, TypeOK, Queue
    <2>2. \A f \in Flows : flows'[f].source = "VIOLATION_THRESHOLD" => events' >= Threshold
      <3>1. CASE count + 1 >= Threshold
        <4>1. AutoSubmit("VIOLATION_THRESHOLD")
          BY <1>4, <3>1 DEF Violation
        <4>2. events' >= Threshold /\ events' \in Nat /\ events' >= events
          BY <2>1, <3>1, TallyTyped DEF Tally
        <4> QED BY <4>1, <4>2, TallyStarted
      <3>2. CASE ~(count + 1 >= Threshold)
        BY <1>0, <1>4, <2>1, <3>2, TallyTyped DEF Violation
      <3> QED BY <3>1, <3>2
    <2> QED BY <2>1, <2>2, TallyTyped DEF Tally, ThresholdMeansEvents
  <1>5. CASE CountedUnheard
    <2>1. UNCHANGED <<server, events, count, queue, flows>>
      BY <1>5 DEF CountedUnheard, CountedOnce, vars
    <2> QED BY <1>0, <2>1, TallyQuiet, TallyTyped
  <1>6. CASE ViolationAcked
    <2>1. /\ queue'.violations = queue.violations - 1 /\ queue.violations > 0
          /\ server' = Counted /\ count' = Counted.violations /\ UNCHANGED events
      BY <1>6 DEF ViolationAcked, IInv, TypeOK, Queue
    <2>2. \/ Counted = server
          \/ /\ Counted.violations = server.violations + 1
             /\ Counted.decided = IF server.violations + 1 >= Threshold
                                  THEN "VIOLATION_THRESHOLD" ELSE None
      BY DEF Counted, IInv, TypeOK, Server
    <2>3. server.violations + 1 <= events
      BY <2>1, TallyTyped DEF Tally
    <2>4. Counted.decided = "VIOLATION_THRESHOLD" => events >= Threshold
      <3>1. server.decided = "VIOLATION_THRESHOLD" => events >= Threshold
        BY DEF Tally, ThresholdMeansEvents
      <3> QED BY <2>2, <2>3, <3>1, TallyTyped
    <2>5. \A f \in Flows : flows'[f].source = "VIOLATION_THRESHOLD" => events >= Threshold
      <3>1. CASE Counted.decided # server.decided
        <4>1. AutoSubmit("VIOLATION_THRESHOLD")
          BY <1>6, <3>1 DEF ViolationAcked
        <4>2. events >= Threshold
          BY <2>2, <2>3, <3>1, TallyTyped, CountedTyped DEF Counted
        <4> QED BY <2>1, <4>1, <4>2, TallyStarted, TallyTyped
      <3>2. CASE Counted.decided = server.decided
        BY <1>0, <1>6, <3>2 DEF ViolationAcked
      <3> QED BY <3>1, <3>2
    <2>6. /\ server'.violations + queue'.violations <= events /\ count' <= events
      BY <2>1, <2>2, <2>3, TallyTyped DEF Tally
    <2> QED BY <2>1, <2>4, <2>5, <2>6 DEF Tally, ThresholdMeansEvents
  <1>7. ASSUME NEW f \in Flows, FlowExecutes(f) PROVE Tally'
    <2>1. /\ server'.violations = server.violations /\ UNCHANGED <<events, count, queue>>
          /\ server'.decided = server.decided \/ server'.decided = flows[f].source
      BY <1>7 DEF FlowExecutes, IInv, TypeOK, Server
    <2>2. \A g \in Flows : flows'[g].source = flows[g].source
      BY <1>7, TallyTyped DEF FlowExecutes, Flow
    <2> QED BY <1>0, <2>1, <2>2 DEF Tally, ThresholdMeansEvents
  <1>8. ASSUME NEW f \in Flows,
               FlowDrained(f) \/ FlowSucceeds(f) \/ FlowLeaves(f) \/ FlowUnauthorized(f)
               \/ FlowFails(f)
        PROVE  Tally'
    <2>1. /\ UNCHANGED <<server, events>> /\ (count' = count \/ count' = 0)
          /\ UNCHANGED queue \/ queue' = NoQueue
      BY <1>8 DEF FlowDrained, FlowSucceeds, FlowLeaves, FlowUnauthorized, FlowFails, Ended
    <2>2. queue'.violations \in Nat /\ queue'.violations <= queue.violations
      BY <2>1, TallyTyped DEF NoQueue
    <2>3. \A g \in Flows : flows'[g].source = flows[g].source \/ flows'[g].source = None
      BY <1>8, TallyTyped
         DEF FlowDrained, FlowSucceeds, FlowLeaves, FlowUnauthorized, FlowFails, Ended,
             NoFlow, Flow
    <2> QED BY <1>0, <2>1, <2>2, <2>3, TallyQuiet
  <1>9. CASE SignIn \/ Reload
    <2>1. Open /\ (UNCHANGED flows \/ flows' = [f \in Flows |-> NoFlow])
      BY <1>9 DEF SignIn, Reload
    <2>2. /\ UNCHANGED <<server, events>> /\ count' = server.violations
          /\ mounts' = mounts + 1
          /\ \E n \in 0..events : queue' = [violations |-> n, dormant |-> FALSE]
      BY <2>1 DEF Open
    <2>4. queue'.violations \in Nat
      BY <2>2, TallyTyped
    <2>5. mounts' # mounts
      BY <2>2 DEF IInv, TypeOK
    <2>6. queue'.violations <= queue.violations
      BY <2>5 DEF CountedOnce, vars
    <2>3. \A g \in Flows : flows'[g].source = flows[g].source \/ flows'[g].source = None
      BY <2>1 DEF NoFlow
    <2> QED BY <1>0, <2>2, <2>3, <2>4, <2>6, TallyQuiet
  <1> QED BY <1>1, <1>2, <1>3, <1>4, <1>5, <1>6, <1>7, <1>8, <1>9 DEF Next, FlowStep

(* The documents' rule, "the 3rd violation triggers auto-submit", is broken *)
(* by nothing but a violation counted unheard (its answer too late or lost) *)
(* or brought back by a reload after its answer: as long as neither happens *)
(* a session is submitted for its violations only after as many were        *)
(* detected as the threshold says.  (recordViolation counts every request,  *)
(* onViolation every event)                                                 *)
THEOREM ThresholdNeedsLostAnswer ==
    Spec /\ [][CountedOnce]_vars => []ThresholdMeansEvents
  <1>1. Init => Tally
    BY DEF Init, Tally, ThresholdMeansEvents, NoFlow, NoQueue
  <1>2. IInv /\ Tally /\ [Next]_vars /\ [CountedOnce]_vars => Tally'
    BY TallyStep
  <1>3. Tally => ThresholdMeansEvents
    BY DEF Tally
  <1> QED BY <1>1, <1>2, <1>3, ClientInvariant, PTL DEF Spec
=============================================================================
