----------------------- MODULE HeartbeatTrackerProofs -----------------------
(***************************************************************************)
(* Proofs about HeartbeatTracker, for every value of its constants.        *)
(***************************************************************************)
EXTENDS HeartbeatTracker, TLAPS

USE DEF Online, Offline

(* The initial state is well typed and between ticks.                    *)
LEMMA TypeInit == Init => TypeOK /\ LoopOK
<1> SUFFICES ASSUME Init PROVE TypeOK /\ LoopOK
  OBVIOUS
<1> USE GatewaysAssumption, BoundsAssumption DEF Init
<1>1. Empty \in [Gateways -> Entries]
  BY DEF Empty, NoEntry, Entries
<1>2. dispatchCh \in Seq(Updates) /\ Len(dispatchCh) <= BufSize
  OBVIOUS
<1>3. /\ lost \in [Gateways -> BOOLEAN]
      /\ reported \in [Gateways -> Updates \cup {NoUpdate}]
      /\ mgmt \in [Gateways -> Updates \cup {NoUpdate}]
  OBVIOUS
<1>4. /\ closed \in BOOLEAN /\ done \in BOOLEAN /\ panicked \in BOOLEAN
      /\ ctxDone \in BOOLEAN /\ timerUp \in BOOLEAN /\ subscribed \in BOOLEAN
  OBVIOUS
<1>5. restarts \in 0..MaxRestarts
  OBVIOUS
<1>6. TypeOK
  <2> HIDE DEF Init
  <2>1. beats \in [Gateways -> Entries] /\ snapshot \in [Gateways -> Entries]
    BY <1>1 DEF Init
  <2>2. /\ now \in Nat /\ startTime \in Nat /\ tickNow \in Nat
        /\ telem = NoCall /\ inflight = NoUpdate
        /\ pc = "idle" /\ cur = NoGateway /\ verdict = "none"
        /\ paused = {} /\ alerts = {} /\ decom = {} /\ pausedAll = {}
    BY DEF Init
  <2> QED
    BY <1>2, <1>3, <1>4, <1>5, <2>1, <2>2 DEF TypeOK
<1>7. LoopOK
  BY DEF LoopOK
<1> QED
  BY <1>6, <1>7

(* What applying the update in flight makes of the management API.         *)
LEMMA AppliedFacts ==
  ASSUME TypeOK
  PROVE  /\ Applied \in [Gateways -> Updates \cup {NoUpdate}]
         /\ \A g \in Gateways :
              Applied[g] = IF inflight.gateway = g THEN inflight ELSE mgmt[g]
BY DEF TypeOK, Applied

(* A send keeps the types of everything it touches.                        *)
LEMMA DispatchType ==
  ASSUME TypeOK, NEW u \in Updates, Dispatch(u)
  PROVE  /\ dispatchCh' \in Seq(Updates) /\ Len(dispatchCh') <= BufSize
         /\ reported' \in [Gateways -> Updates \cup {NoUpdate}]
         /\ lost' \in [Gateways -> BOOLEAN]
         /\ panicked' \in BOOLEAN
<1>1. u.gateway \in Gateways
  BY DEF Updates
<1>2. CASE closed
  BY <1>2 DEF Dispatch, TypeOK
<1>3. CASE ~closed
  <2>1. dispatchCh' \in Seq(Updates) /\ Len(dispatchCh') <= BufSize
    <3>1. CASE Len(dispatchCh) < BufSize
      <4>1. dispatchCh' = Append(dispatchCh, u)
        BY <1>3, <3>1 DEF Dispatch
      <4> QED
        BY <3>1, <4>1, BoundsAssumption DEF TypeOK
    <3>2. CASE ~(Len(dispatchCh) < BufSize)
      BY <1>3, <3>2 DEF Dispatch, TypeOK
    <3> QED
      BY <3>1, <3>2
  <2>2. /\ reported' \in [Gateways -> Updates \cup {NoUpdate}]
        /\ panicked' \in BOOLEAN
    BY <1>1, <1>3 DEF Dispatch, TypeOK
  <2>3. lost' \in [Gateways -> BOOLEAN]
    <3> DEFINE room == Len(dispatchCh) < BufSize
    <3>1. (~room) \in BOOLEAN
      OBVIOUS
    <3>2. lost' = [lost EXCEPT ![u.gateway] = ~room]
      BY <1>3 DEF Dispatch
    <3> HIDE DEF room
    <3> QED
      BY <1>1, <3>1, <3>2 DEF TypeOK
  <2> QED
    BY <2>1, <2>2, <2>3
<1> QED
  BY <1>2, <1>3

(* Every step, of whatever goroutine, keeps the types and the            *)
(* bookkeeping of the Tick loop.                                         *)
LEMMA TypeNext == TypeOK /\ LoopOK /\ [Next]_vars => TypeOK' /\ LoopOK'
<1> SUFFICES ASSUME TypeOK, LoopOK, [Next]_vars
             PROVE  TypeOK' /\ LoopOK'
  OBVIOUS
<1> USE GatewaysAssumption, BoundsAssumption
<1> USE DEF heldVars, procVars, tickVars, dispVars, mgmtVars
<1>1. ASSUME NEW g \in Gateways, TelemetryArrives(g) PROVE TypeOK' /\ LoopOK'
  BY <1>1 DEF TypeOK, LoopOK, TelemetryArrives, Calls
<1>2. ASSUME HandleTelemetry PROVE TypeOK' /\ LoopOK'
  <2> DEFINE g == telem.gateway
             u == [gateway |-> g, status |-> Online, lastSeenAt |-> telem.at]
  <2>1. g \in Gateways /\ telem.at \in Nat
    BY <1>2 DEF HandleTelemetry, TypeOK, Calls
  <2>2. u \in Updates
    BY <2>1 DEF Updates
  <2>3. beats' \in [Gateways -> Entries]
    BY <1>2, <2>1 DEF HandleTelemetry, TypeOK, Entries
  <2>4. CASE beats[g].knownStatus = Online
    BY <1>2, <2>3, <2>4 DEF HandleTelemetry, TypeOK, LoopOK
  <2>5. CASE beats[g].knownStatus # Online
    <3>1. Dispatch(u)
      BY <1>2, <2>5 DEF HandleTelemetry
    <3>2. UNCHANGED <<now, startTime, inflight, decom,
                      tickVars, procVars, mgmtVars>> /\ telem' = NoCall
      BY <1>2 DEF HandleTelemetry
    <3> QED
      BY <2>2, <2>3, <3>1, <3>2, DispatchType DEF TypeOK, LoopOK
  <2> QED
    BY <2>4, <2>5
<1>3. ASSUME NEW g \in Removable, HandleDecommission(g) PROVE TypeOK' /\ LoopOK'
  BY <1>3 DEF TypeOK, LoopOK, HandleDecommission, NoEntry, Entries
<1>4. ASSUME TickStart PROVE TypeOK' /\ LoopOK'
  BY <1>4 DEF TypeOK, LoopOK, TickStart
<1>5. ASSUME TickSnapshot PROVE TypeOK' /\ LoopOK'
  BY <1>5 DEF TypeOK, LoopOK, TickSnapshot
<1>6. ASSUME NEW g \in Gateways, TickSkip(g) PROVE TypeOK' /\ LoopOK'
  BY <1>6 DEF TypeOK, LoopOK, TickSkip, NoEntry, Entries
<1>7. ASSUME NEW g \in Gateways, TickCandidate(g) PROVE TypeOK' /\ LoopOK'
  BY <1>7 DEF TypeOK, LoopOK, TickCandidate
<1>8. ASSUME LifecyclePaused PROVE TypeOK' /\ LoopOK'
  BY <1>8 DEF TypeOK, LoopOK, LifecyclePaused, NextEntry, NoEntry, Entries
<1>9. ASSUME LifecycleActive PROVE TypeOK' /\ LoopOK'
  BY <1>9 DEF TypeOK, LoopOK, LifecycleActive, Proceed
<1>10. ASSUME LifecycleFailed PROVE TypeOK' /\ LoopOK'
  BY <1>10 DEF TypeOK, LoopOK, LifecycleFailed, Proceed
<1>11. ASSUME PublishOk PROVE TypeOK' /\ LoopOK'
  BY <1>11 DEF TypeOK, LoopOK, PublishOk, TheAlert, Alerts, Entries
<1>12. ASSUME PublishFailed PROVE TypeOK' /\ LoopOK'
  BY <1>12 DEF TypeOK, LoopOK, PublishFailed, NextEntry, TheAlert, Alerts, NoEntry, Entries
<1>13. ASSUME TickDispatch PROVE TypeOK' /\ LoopOK'
  <2> DEFINE u == [gateway |-> cur, status |-> Offline,
                   lastSeenAt |-> snapshot[cur].lastSeen]
  <2>1. cur \in Gateways /\ pc' \in {"dispatch", "mark"}
    BY <1>13 DEF TickDispatch, LoopOK
  <2>2. u \in Updates
    BY <2>1 DEF Updates, TypeOK, Entries
  <2>3. Dispatch(u)
    BY <1>13 DEF TickDispatch
  <2>4. UNCHANGED <<now, startTime, beats, telem, inflight, decom, tickNow,
                    snapshot, cur, verdict, pausedAll, procVars, mgmtVars>>
    BY <1>13 DEF TickDispatch
  <2> HIDE DEF u
  <2>5. TypeOK'
    BY <2>1, <2>2, <2>3, <2>4, DispatchType DEF TypeOK
  <2>6. LoopOK'
    BY <2>1, <2>4 DEF LoopOK
  <2> QED
    BY <2>5, <2>6
<1>14. ASSUME TickMark PROVE TypeOK' /\ LoopOK'
  BY <1>14 DEF TypeOK, LoopOK, TickMark, NextEntry, NoEntry, Entries
<1>15. ASSUME TickEnd PROVE TypeOK' /\ LoopOK'
  BY <1>15 DEF TypeOK, LoopOK, TickEnd
<1>16. ASSUME TimerStop PROVE TypeOK' /\ LoopOK'
  BY <1>16 DEF TypeOK, LoopOK, TimerStop
<1>17. ASSUME TakeJob PROVE TypeOK' /\ LoopOK'
  <2>1. /\ inflight' \in Updates /\ dispatchCh' \in Seq(Updates)
        /\ Len(dispatchCh') = Len(dispatchCh) - 1
    BY <1>17 DEF TakeJob, TypeOK
  <2>2. Len(dispatchCh') <= BufSize
    BY <2>1 DEF TypeOK
  <2> QED
    BY <1>17, <2>1, <2>2 DEF TakeJob, TypeOK, LoopOK
<1>18. ASSUME UpdateApplied PROVE TypeOK' /\ LoopOK'
  BY <1>18, AppliedFacts DEF TypeOK, LoopOK, UpdateApplied
<1>19. ASSUME UpdateFailed PROVE TypeOK' /\ LoopOK'
  <2>1. inflight \in Updates /\ inflight.gateway \in Gateways
    BY <1>19 DEF UpdateFailed, TypeOK, Updates
  <2>2. mgmt' \in [Gateways -> Updates \cup {NoUpdate}]
    BY <1>19, AppliedFacts DEF UpdateFailed, TypeOK
  <2>3. lost' \in [Gateways -> BOOLEAN]
    BY <1>19, <2>1 DEF UpdateFailed, TypeOK
  <2> QED
    BY <1>19, <2>2, <2>3 DEF UpdateFailed, TypeOK, LoopOK
<1>20. ASSUME WorkerExit PROVE TypeOK' /\ LoopOK'
  BY <1>20 DEF TypeOK, LoopOK, WorkerExit
<1>21. ASSUME Cancel PROVE TypeOK' /\ LoopOK'
  BY <1>21 DEF TypeOK, LoopOK, Cancel
<1>22. ASSUME Close PROVE TypeOK' /\ LoopOK'
  BY <1>22 DEF TypeOK, LoopOK, Close
<1>23. ASSUME Restart PROVE TypeOK' /\ LoopOK'
  <2>1. Empty \in [Gateways -> Entries]
    BY DEF Empty, NoEntry, Entries
  <2>2. dispatchCh' \in Seq(Updates) /\ Len(dispatchCh') <= BufSize
    BY <1>23 DEF Restart
  <2>3. restarts' \in 0..MaxRestarts
    BY <1>23 DEF Restart, TypeOK
  <2>4. mgmt' \in [Gateways -> Updates \cup {NoUpdate}]
    BY <1>23, AppliedFacts DEF Restart, TypeOK
  <2>5. TypeOK'
    BY <1>23, <2>1, <2>2, <2>3, <2>4 DEF Restart, TypeOK
  <2>6. LoopOK'
    BY <1>23 DEF Restart, LoopOK
  <2> QED
    BY <2>5, <2>6
<1>24. ASSUME AdvanceClock PROVE TypeOK' /\ LoopOK'
  BY <1>24 DEF TypeOK, LoopOK, AdvanceClock
<1>25. ASSUME NEW g \in Pausable, Pause(g) PROVE TypeOK' /\ LoopOK'
  BY <1>25 DEF TypeOK, LoopOK, Pause
<1>26. ASSUME NEW g \in Pausable, Resume(g) PROVE TypeOK' /\ LoopOK'
  BY <1>26 DEF TypeOK, LoopOK, Resume
<1>27. ASSUME UNCHANGED vars PROVE TypeOK' /\ LoopOK'
  BY <1>27 DEF TypeOK, LoopOK, vars
<1> QED
  BY <1>1, <1>2, <1>3, <1>4, <1>5, <1>6, <1>7, <1>8, <1>9, <1>10, <1>11, <1>12, <1>13, <1>14, <1>15, <1>16, <1>17, <1>18, <1>19, <1>20, <1>21, <1>22, <1>23, <1>24, <1>25, <1>26, <1>27
  DEF Next, TickStep, WorkerStep

-----------------------------------------------------------------------------
(* Every state of every behaviour is well typed.                           *)
THEOREM TypeCorrect == Spec => []TypeOK
<1>1. Spec => [](TypeOK /\ LoopOK)
  BY TypeInit, TypeNext, PTL DEF Spec
<1> QED
  BY <1>1, PTL

-----------------------------------------------------------------------------
(* The lifecycle gate.                                                     *)

(* Only the lifecycle gate lets the loop reach a publish, and a gateway  *)
(* leaves pausedAll as soon as it is resumed.                            *)
LEMMA PausedNext ==
  ASSUME TypeOK, LoopOK, PausedSilenced, [Next]_vars
  PROVE  PausedSilenced'
<1> USE DEF heldVars, procVars, tickVars, dispVars, mgmtVars, TypeOK,
            LoopOK, PausedSilenced
<1>1. CASE LifecycleActive
  BY <1>1 DEF LifecycleActive, Proceed
<1>2. CASE LifecycleFailed
  BY <1>2 DEF LifecycleFailed, Proceed
<1>3. CASE PublishOk \/ TickDispatch
  BY <1>3 DEF PublishOk, TickDispatch
<1>4. CASE LifecyclePaused \/ PublishFailed \/ TickMark
  BY <1>4 DEF LifecyclePaused, PublishFailed, TickMark, NextEntry
<1>5. CASE \/ TickStart \/ TickSnapshot \/ TickEnd
           \/ \E g \in Gateways : TickCandidate(g)
  BY <1>5 DEF TickStart, TickSnapshot, TickEnd, TickCandidate
<1>6. CASE Restart
  BY <1>6 DEF Restart
<1>7. CASE \E g \in Pausable : Resume(g)
  BY <1>7 DEF Resume
<1>8. CASE UNCHANGED tickVars
  BY <1>8
<1>9. \/ LifecycleActive \/ LifecycleFailed \/ PublishOk \/ TickDispatch
      \/ LifecyclePaused \/ PublishFailed \/ TickMark
      \/ TickStart \/ TickSnapshot \/ TickEnd
      \/ \E g \in Gateways : TickCandidate(g)
      \/ \E g \in Gateways : TickSkip(g)
      \/ Restart
      \/ \E g \in Pausable : Resume(g)
      \/ UNCHANGED tickVars
  BY DEF Next, TickStep, WorkerStep, vars, TelemetryArrives, HandleTelemetry,
    HandleDecommission, TimerStop, TakeJob, UpdateApplied, UpdateFailed,
    WorkerExit, Cancel, Close, AdvanceClock, Pause
<1>10. CASE \E g \in Gateways : TickSkip(g)
  BY <1>10 DEF TickSkip
<1> QED
  BY <1>1, <1>2, <1>3, <1>4, <1>5, <1>6, <1>7, <1>8, <1>9, <1>10

(* A gateway paused since before the tick began is acted upon only when    *)
(* the lifecycle query failed.                                             *)
THEOREM SilencedWhilePaused == Spec => []PausedSilenced
<1>1. Init => PausedSilenced
  BY DEF Init, PausedSilenced
<1>2. TypeOK /\ LoopOK /\ PausedSilenced /\ [Next]_vars
        => TypeOK' /\ LoopOK' /\ PausedSilenced'
  BY TypeNext, PausedNext
<1> QED
  BY TypeInit, <1>1, <1>2, PTL DEF Spec

-----------------------------------------------------------------------------
(* Knowledge and reports agree.                                            *)

(* KnowledgeOK and StatusAgreement, for one gateway.                       *)
Known(g) ==
  /\ Tracked(beats, g) <=> reported[g].status # "none"
  /\ snapshot[g].knownStatus = Online => beats[g].knownStatus = Online
  /\ (pc = "mark" /\ cur = g) => reported[g].status = Offline
  /\ (Tracked(beats, g) /\ ~(pc = "mark" /\ cur = g)) =>
       beats[g].knownStatus = reported[g].status

AllKnown == ~panicked => \A g \in Gateways \ decom : Known(g)

(* The two properties about what the tracker knows, gateway by gateway.  *)
LEMMA KnownSplit == AllKnown <=> KnowledgeOK /\ StatusAgreement
BY DEF AllKnown, Known, KnowledgeOK, StatusAgreement

(* A new process knows nothing and has reported nothing.                 *)
LEMMA KnownInit == Init => AllKnown
<1> SUFFICES ASSUME Init, NEW g \in Gateways PROVE Known(g)
  BY DEF AllKnown
<1>1. beats[g] = NoEntry /\ snapshot[g] = NoEntry /\ reported[g] = NoUpdate
  BY DEF Init, Empty
<1>2. pc = "idle"
  BY DEF Init
<1> QED
  BY <1>1, <1>2 DEF Known, Tracked, NoEntry, NoUpdate

(* Knowledge and reports stay in step: HandleTelemetry and the report    *)
(* of an outage change them, the mark closes the window between them.    *)
LEMMA KnownNext ==
  ASSUME TypeOK, LoopOK, AllKnown, [Next]_vars
  PROVE  AllKnown'
<1> USE GatewaysAssumption, BoundsAssumption
<1> USE DEF heldVars, procVars, tickVars, dispVars, mgmtVars, Tracked
<1>1. CASE Restart
  BY <1>1 DEF Restart, AllKnown, Known, Empty, NoEntry, NoUpdate
<1>2. CASE ~Restart
  <2>1. SUFFICES ASSUME ~panicked', NEW g \in Gateways \ decom'
                 PROVE  Known(g)'
    BY DEF AllKnown
  <2>2. ~panicked /\ decom \subseteq decom'
    BY <1>2, <2>1 DEF Next, TickStep, WorkerStep, vars, TelemetryArrives,
      HandleTelemetry, HandleDecommission, TickStart, TickSnapshot, TickSkip,
      TickCandidate, LifecyclePaused, LifecycleActive, LifecycleFailed,
      Proceed, NextEntry, PublishOk, PublishFailed, TickDispatch, TickMark,
      TickEnd, TimerStop, TakeJob, UpdateApplied, UpdateFailed, WorkerExit,
      Cancel, Close, AdvanceClock, Pause, Resume
  <2>3. Known(g)
    BY <2>1, <2>2 DEF AllKnown
  <2> USE DEF Known
  <2>4. CASE HandleTelemetry
    <3> DEFINE h == telem.gateway
    <3>1. h \in Gateways
      BY <2>4 DEF HandleTelemetry, TypeOK, Calls
    <3>2. beats' = [beats EXCEPT ![h] = [knownStatus |-> Online,
                                         lastSeen |-> telem.at]]
      BY <2>4 DEF HandleTelemetry
    <3>3. CASE beats[h].knownStatus = Online
      BY <2>3, <2>4, <3>1, <3>2, <3>3 DEF HandleTelemetry, TypeOK
    <3>4. CASE beats[h].knownStatus # Online
      <4>1. reported' = [reported EXCEPT ![h] =
                [gateway |-> h, status |-> Online, lastSeenAt |-> telem.at]]
        BY <2>1, <2>4, <3>4 DEF HandleTelemetry, Dispatch
      <4>2. UNCHANGED <<pc, cur, snapshot>>
        BY <2>4 DEF HandleTelemetry
      <4>3. ~(pc = "mark" /\ cur = h /\ g = h)
        BY <2>3, <3>1, <3>4 DEF LoopOK
      <4> QED
        BY <2>3, <3>1, <3>2, <4>1, <4>2, <4>3 DEF TypeOK
    <3> QED
      BY <3>3, <3>4
  <2>5. CASE \E h \in Removable : HandleDecommission(h)
    BY <2>1, <2>3, <2>5 DEF HandleDecommission, TypeOK
  <2>6. CASE TickSnapshot
    BY <2>3, <2>6 DEF TickSnapshot, TypeOK
  <2>7. CASE \E h \in Gateways : TickSkip(h)
    BY <2>3, <2>7 DEF TickSkip, TypeOK, NoEntry
  <2>8. CASE \/ TickStart \/ TickEnd
             \/ LifecycleActive \/ LifecycleFailed \/ PublishOk
             \/ \E h \in Gateways : TickCandidate(h)
    BY <2>3, <2>8 DEF TickStart, TickEnd, LifecycleActive, LifecycleFailed,
      Proceed, PublishOk, TickCandidate
  <2>9. CASE LifecyclePaused \/ PublishFailed
    BY <2>3, <2>9 DEF LifecyclePaused, PublishFailed, NextEntry, TypeOK,
      LoopOK, NoEntry
  <2>10. CASE TickDispatch
    <3>1. cur \in Gateways /\ snapshot[cur].knownStatus = Online
      BY <2>10 DEF TickDispatch, LoopOK
    <3>2. /\ reported' = [reported EXCEPT ![cur] =
                 [gateway |-> cur, status |-> Offline,
                  lastSeenAt |-> snapshot[cur].lastSeen]]
          /\ pc' = "mark"
      BY <2>1, <2>10 DEF TickDispatch, Dispatch
    <3>3. UNCHANGED <<beats, snapshot, cur>>
      BY <2>10 DEF TickDispatch
    <3>4. pc = "dispatch"
      BY <2>10 DEF TickDispatch
    <3> QED
      BY <2>3, <3>1, <3>2, <3>3, <3>4 DEF TypeOK
  <2>11. CASE TickMark
    BY <2>3, <2>11 DEF TickMark, NextEntry, TypeOK, LoopOK, NoEntry, Entries
  <2>12. CASE UNCHANGED <<beats, reported, snapshot, pc, cur>>
    BY <2>3, <2>12
  <2>13. \/ HandleTelemetry \/ TickSnapshot \/ TickStart \/ TickEnd
         \/ \E h \in Removable : HandleDecommission(h)
         \/ \E h \in Gateways : TickSkip(h)
         \/ \E h \in Gateways : TickCandidate(h)
         \/ LifecycleActive \/ LifecycleFailed \/ PublishOk
         \/ LifecyclePaused \/ PublishFailed \/ TickDispatch \/ TickMark
         \/ UNCHANGED <<beats, reported, snapshot, pc, cur>>
    BY <1>2 DEF Next, TickStep, WorkerStep, vars, TelemetryArrives,
      TimerStop, TakeJob, UpdateApplied, UpdateFailed, WorkerExit,
      Cancel, Close, AdvanceClock, Pause, Resume
  <2> QED
    BY <2>4, <2>5, <2>6, <2>7, <2>8, <2>9, <2>10, <2>11, <2>12, <2>13
<1> QED
  BY <1>1, <1>2

(* The types, the loop and the knowledge are inductive together.         *)
LEMMA KnownInvariant == Spec => [](TypeOK /\ LoopOK /\ AllKnown)
<1>1. Init => TypeOK /\ LoopOK /\ AllKnown
  BY TypeInit, KnownInit
<1>2. TypeOK /\ LoopOK /\ AllKnown /\ [Next]_vars
        => (TypeOK /\ LoopOK /\ AllKnown)'
  BY TypeNext, KnownNext
<1> QED
  BY <1>1, <1>2, PTL DEF Spec

(* Outside the window between the Offline report and the mark, what the    *)
(* tracker knows of a gateway that was never decommissioned is what it     *)
(* last reported of it, whatever telemetry, ticks, failures and restarts   *)
(* come in between.                                                        *)
THEOREM KnowledgeAgrees == Spec => []StatusAgreement
<1>1. AllKnown => StatusAgreement
  BY KnownSplit
<1> QED
  BY KnownInvariant, <1>1, PTL

-----------------------------------------------------------------------------
(* The tracker implements StatusReporting.                                 *)

Told == [g \in Gateways |->
           IF g \in decom THEN "forgotten" ELSE reported[g].status]
Alerted == IF pc = "dispatch" THEN {cur} \ decom ELSE {}

(* Initial states map to initial states.                                 *)
LEMMA ReportingInit == Init => Reporting!Init
BY DEF Init, Reporting!Init, NoUpdate

(* A step of the protocol for one gateway is a step of the protocol.     *)
LEMMA ReportingStep ==
  ASSUME NEW g \in Gateways,
         \/ Reporting!ReportOnline(g) \/ Reporting!Alert(g)
         \/ Reporting!ReportOffline(g) \/ Reporting!Forget(g)
  PROVE  Reporting!Next
BY Zenon DEF Reporting!Next

(* Every step of the tracker maps to a step of the protocol or to a      *)
(* stutter.                                                              *)
LEMMA ReportingNext ==
  ASSUME TypeOK, LoopOK, AllKnown, [Next]_vars
  PROVE  [Reporting!Next]_(Reporting!vars)
<1> USE GatewaysAssumption
<1> USE DEF heldVars, procVars, tickVars, dispVars, mgmtVars
<1> SUFFICES Reporting!Next \/ (Told' = Told /\ Alerted' = Alerted)
  BY DEF Reporting!vars, Told, Alerted
<1>1. CASE Restart
  <2>1. \A g \in Gateways : g \notin decom => Told[g] # "forgotten"
    BY DEF Told, TypeOK, Updates, NoUpdate
  <2>2. Alerted' = {}
    BY <1>1 DEF Restart, Alerted
  <2>3. Told' = [g \in Gateways |->
                   IF Told[g] = "forgotten" THEN "forgotten" ELSE "none"]
    BY <1>1, <2>1 DEF Restart, Told, NoUpdate
  <2>4. Reporting!Restart
    BY <2>2, <2>3 DEF Reporting!Restart, Told, Alerted
  <2> QED
    BY <2>4 DEF Reporting!Next
<1>2. CASE HandleTelemetry
  <2>1. PICK h \in Gateways : h = telem.gateway
    BY <1>2 DEF HandleTelemetry, TypeOK, Calls
  <2> DEFINE u == [gateway |-> h, status |-> Online, lastSeenAt |-> telem.at]
  <2>2. h \in Gateways /\ ~panicked
    BY <1>2 DEF HandleTelemetry
  <2>3. UNCHANGED <<pc, cur, decom>>
    BY <1>2 DEF HandleTelemetry
  <2>4. CASE reported' = reported
    BY <2>3, <2>4 DEF Told, Alerted
  <2>5. CASE reported' # reported
    <3>1. beats[h].knownStatus # Online /\ Dispatch(u)
      BY <1>2, <2>1, <2>5 DEF HandleTelemetry
    <3>2. reported' = [reported EXCEPT ![h] = u]
      BY <2>5, <3>1 DEF Dispatch
    <3>3. CASE h \in decom
      BY <2>3, <3>2, <3>3 DEF Told, Alerted, TypeOK
    <3>4. CASE h \notin decom
      <4>1. Known(h)
        BY <2>2, <3>4 DEF AllKnown
      <4>2. ~(pc = "mark" /\ cur = h)
        BY <2>2, <3>1, <4>1 DEF Known, LoopOK
      <4>3. reported[h].status \in {"none", "offline"}
        BY <2>2, <3>1, <4>1, <4>2 DEF Known, Tracked, TypeOK, Entries
      <4>4. Told[h] \in {"none", "offline"}
        BY <2>2, <3>4, <4>3 DEF Told
      <4>5. Told' = [Told EXCEPT ![h] = "online"]
        <5>1. \A k \in Gateways :
                reported'[k].status = IF k = h THEN "online"
                                      ELSE reported[k].status
          BY <2>2, <3>2 DEF TypeOK
        <5> QED
          BY <2>2, <2>3, <3>4, <5>1 DEF Told
      <4>6. Alerted' = Alerted
        BY <2>3 DEF Alerted
      <4>7. Reporting!ReportOnline(h)
        BY <4>4, <4>5, <4>6 DEF Reporting!ReportOnline, Told, Alerted
      <4> QED
        BY <4>7, ReportingStep
    <3> QED
      BY <3>3, <3>4
  <2> QED
    BY <2>4, <2>5
<1>3. ASSUME NEW g \in Removable, HandleDecommission(g)
      PROVE  Reporting!Next
  <2>1. g \in Gateways
    BY BoundsAssumption
  <2>2. Told' = [Told EXCEPT ![g] = "forgotten"]
    BY <1>3, <2>1 DEF HandleDecommission, Told
  <2>3. Alerted' = Alerted \ {g}
    BY <1>3 DEF HandleDecommission, Alerted
  <2>4. Reporting!Forget(g)
    BY <2>2, <2>3 DEF Reporting!Forget, Told, Alerted
  <2> QED
    BY <2>1, <2>4, ReportingStep
<1>4. CASE PublishOk
  <2>1. pc = "publish" /\ pc' = "dispatch" /\ ~panicked
        /\ UNCHANGED <<cur, decom, reported>>
    BY <1>4 DEF PublishOk
  <2>2. cur \in Gateways /\ snapshot[cur].knownStatus = Online
    BY <2>1 DEF LoopOK
  <2>3. Told' = Told
    BY <2>1 DEF Told
  <2>4. CASE cur \in decom
    BY <2>1, <2>3, <2>4 DEF Alerted
  <2>5. CASE cur \notin decom
    <3>1. Known(cur)
      BY <2>1, <2>2, <2>5 DEF AllKnown
    <3>2. Told[cur] = "online"
      BY <2>1, <2>2, <2>5, <3>1 DEF Known, Tracked, Told
    <3>3. cur \notin Alerted /\ Alerted' = Alerted \cup {cur}
      BY <2>1, <2>5 DEF Alerted
    <3>4. Reporting!Alert(cur)
      BY <2>3, <3>2, <3>3 DEF Reporting!Alert, Told, Alerted
    <3> QED
      BY <2>2, <3>4, ReportingStep
  <2> QED
    BY <2>4, <2>5
<1>5. CASE TickDispatch
  <2>1. pc = "dispatch" /\ ~panicked /\ UNCHANGED <<cur, decom, snapshot>>
    BY <1>5 DEF TickDispatch
  <2>2. cur \in Gateways /\ snapshot[cur].knownStatus = Online
    BY <2>1 DEF LoopOK
  <2>3. CASE closed
    BY <1>5, <2>3 DEF TickDispatch, Dispatch, Told, Alerted
  <2>4. CASE ~closed
    <3>1. /\ reported' = [reported EXCEPT ![cur] =
                 [gateway |-> cur, status |-> Offline,
                  lastSeenAt |-> snapshot[cur].lastSeen]]
          /\ pc' = "mark"
      BY <1>5, <2>4 DEF TickDispatch, Dispatch
    <3>2. CASE cur \in decom
      BY <2>1, <3>1, <3>2 DEF Told, Alerted, TypeOK
    <3>3. CASE cur \notin decom
      <4>1. Known(cur)
        BY <2>1, <2>2, <3>3 DEF AllKnown
      <4>2. Told[cur] = "online"
        BY <2>1, <2>2, <3>3, <4>1 DEF Known, Tracked, Told
      <4>3. cur \in Alerted /\ Alerted' = Alerted \ {cur}
        BY <2>1, <3>1, <3>3 DEF Alerted
      <4>4. Told' = [Told EXCEPT ![cur] = "offline"]
        <5>1. \A k \in Gateways :
                reported'[k].status = IF k = cur THEN "offline"
                                      ELSE reported[k].status
          BY <2>2, <3>1 DEF TypeOK
        <5> QED
          BY <2>1, <2>2, <3>3, <5>1 DEF Told
      <4>5. PICK c \in Gateways : c = cur
        BY <2>2
      <4>6. Reporting!ReportOffline(c)
        BY <4>2, <4>3, <4>4, <4>5 DEF Reporting!ReportOffline, Told, Alerted
      <4> QED
        BY <4>6, ReportingStep
    <3> QED
      BY <3>2, <3>3
  <2> QED
    BY <2>3, <2>4
<1>6. CASE UNCHANGED <<reported, decom, pc, cur>>
  BY <1>6 DEF Told, Alerted
<1>7. CASE /\ UNCHANGED <<reported, decom>>
           /\ pc # "dispatch" /\ pc' # "dispatch"
  BY <1>7 DEF Told, Alerted
<1>8. \/ Restart \/ HandleTelemetry \/ PublishOk \/ TickDispatch
      \/ \E g \in Removable : HandleDecommission(g)
      \/ UNCHANGED <<reported, decom, pc, cur>>
      \/ /\ UNCHANGED <<reported, decom>>
         /\ pc # "dispatch" /\ pc' # "dispatch"
  BY DEF Next, TickStep, WorkerStep, vars, TelemetryArrives, TickStart,
    TickSnapshot, TickSkip, TickCandidate, LifecyclePaused, LifecycleActive,
    LifecycleFailed, Proceed, NextEntry, PublishFailed, TickMark, TickEnd,
    TimerStop, TakeJob, UpdateApplied, UpdateFailed, WorkerExit, Cancel,
    Close, AdvanceClock, Pause, Resume
<1> QED
  BY <1>1, <1>2, <1>3, <1>4, <1>5, <1>6, <1>7, <1>8

(* The reports of every gateway alternate, and an Offline report has its   *)
(* own acknowledged alert: the tracker implements the abstract protocol.   *)
THEOREM TrackerImplementsReporting == Spec => ImplementsReporting
<1>1. TypeOK /\ LoopOK /\ AllKnown /\ [Next]_vars
        => [Reporting!Next]_(Reporting!vars)
  BY ReportingNext
<1> QED
  BY KnownInvariant, ReportingInit, <1>1, PTL
  DEF Spec, ImplementsReporting, Reporting!Spec

-----------------------------------------------------------------------------
(* No Offline report without its alert.                                    *)

HasAlert(u) ==
  u.status = Offline =>
    [gateway |-> u.gateway, lastSeen |-> u.lastSeenAt] \in alerts

(* OfflineImpliesAlerted with its quantifier split by place, and what the  *)
(* Tick loop knows between the publish and the dispatch.                   *)
AllAlerted ==
  /\ \A i \in 1..Len(dispatchCh) : HasAlert(dispatchCh[i])
  /\ HasAlert(inflight)
  /\ \A g \in Gateways : HasAlert(mgmt[g])
  /\ pc = "dispatch" => TheAlert \in alerts

(* The alert stream only grows.                                            *)
LEMMA AlertsGrow == ASSUME [Next]_vars PROVE alerts \subseteq alerts'
BY DEF vars, Next, TickStep, WorkerStep, NextEntry, Proceed, dispVars,
  mgmtVars, Restart, TelemetryArrives, HandleTelemetry, HandleDecommission,
  TickStart, TickSnapshot, TickSkip, TickCandidate, LifecyclePaused,
  LifecycleActive, LifecycleFailed, PublishOk, PublishFailed, TickDispatch,
  TickMark, TickEnd, TimerStop, TakeJob, UpdateApplied, UpdateFailed,
  WorkerExit, Cancel, Close, AdvanceClock, Pause, Resume

(* A send adds one update, which has its alert, or none.                   *)
LEMMA DispatchAlerted ==
  ASSUME TypeOK, AllAlerted, NEW u \in Updates, Dispatch(u),
         alerts \subseteq alerts',
         u.status = Offline =>
           [gateway |-> u.gateway, lastSeen |-> u.lastSeenAt] \in alerts
  PROVE  \A i \in 1..Len(dispatchCh') : HasAlert(dispatchCh[i])'
<1>1. CASE dispatchCh' = dispatchCh
  BY <1>1 DEF AllAlerted, HasAlert
<1>2. CASE dispatchCh' = Append(dispatchCh, u)
  <2>1. /\ Len(dispatchCh') = Len(dispatchCh) + 1
        /\ \A i \in 1..Len(dispatchCh) : dispatchCh'[i] = dispatchCh[i]
        /\ dispatchCh'[Len(dispatchCh) + 1] = u
    BY <1>2 DEF TypeOK
  <2>2. \A i \in 1..Len(dispatchCh) : HasAlert(dispatchCh[i])
    BY DEF AllAlerted
  <2> SUFFICES ASSUME NEW i \in 1..Len(dispatchCh')
               PROVE  HasAlert(dispatchCh[i])'
    OBVIOUS
  <2>3. CASE i \in 1..Len(dispatchCh)
    BY <2>1, <2>2, <2>3 DEF HasAlert
  <2>4. CASE i = Len(dispatchCh) + 1
    BY <2>1, <2>4 DEF HasAlert
  <2> QED
    BY <2>1, <2>3, <2>4 DEF TypeOK
<1> QED
  BY <1>1, <1>2 DEF Dispatch

(* Publish comes before the report, and the queue, the worker and the API  *)
(* only pass updates on.                                                   *)
LEMMA AlertedNext ==
  TypeOK /\ LoopOK /\ AllAlerted /\ [Next]_vars => AllAlerted'
<1> SUFFICES ASSUME TypeOK, LoopOK, AllAlerted, [Next]_vars
             PROVE  AllAlerted'
  OBVIOUS
<1> USE DEF heldVars, procVars, tickVars, dispVars, mgmtVars
<1>0. alerts \subseteq alerts'
  BY AlertsGrow
<1>1. CASE Restart
  <2>1. /\ dispatchCh' = <<>> /\ inflight' = NoUpdate /\ pc' = "idle"
        /\ \A g \in Gateways : mgmt'[g] \in {mgmt[g], inflight}
    BY <1>1, AppliedFacts DEF Restart
  <2> QED
    BY <1>0, <2>1 DEF AllAlerted, HasAlert, NoUpdate
<1>2. CASE HandleTelemetry
  <2>1. PICK g \in Gateways : g = telem.gateway
    BY <1>2, GatewaysAssumption DEF HandleTelemetry, TypeOK, Calls
  <2> DEFINE u == [gateway |-> g, status |-> Online, lastSeenAt |-> telem.at]
  <2>2. u \in Updates /\ u.status # Offline
    BY <1>2, <2>1 DEF HandleTelemetry, TypeOK, Calls, NoCall, Updates
  <2>3. \A i \in 1..Len(dispatchCh') : HasAlert(dispatchCh[i])'
    <3>1. CASE Dispatch(u)
      BY <1>0, <2>2, <3>1, DispatchAlerted
    <3>2. CASE UNCHANGED dispVars
      BY <1>0, <3>2 DEF AllAlerted, HasAlert
    <3> QED
      BY <1>2, <2>1, <3>1, <3>2 DEF HandleTelemetry
  <2> QED
    BY <1>0, <1>2, <2>3 DEF HandleTelemetry, AllAlerted, HasAlert, TheAlert
<1>3. CASE TickDispatch
  <2> DEFINE u == [gateway |-> cur, status |-> Offline,
                   lastSeenAt |-> snapshot[cur].lastSeen]
  <2>1. pc = "dispatch" /\ cur \in Gateways /\ Dispatch(u)
    BY <1>3 DEF TickDispatch, LoopOK
  <2>2. u \in Updates
    BY <2>1 DEF Updates, TypeOK, Entries
  <2>3. [gateway |-> u.gateway, lastSeen |-> u.lastSeenAt] \in alerts
    BY <2>1 DEF AllAlerted, TheAlert
  <2>4. \A i \in 1..Len(dispatchCh') : HasAlert(dispatchCh[i])'
    BY <1>0, <2>1, <2>2, <2>3, DispatchAlerted
  <2> QED
    BY <1>0, <1>3, <2>4 DEF TickDispatch, AllAlerted, HasAlert, TheAlert
<1>4. CASE TakeJob
  <2>1. dispatchCh # <<>> /\ inflight' = dispatchCh[1]
        /\ dispatchCh' = Tail(dispatchCh)
    BY <1>4 DEF TakeJob, TypeOK
  <2>2. 1 \in 1..Len(dispatchCh)
        /\ \A i \in 1..Len(dispatchCh') :
              i + 1 \in 1..Len(dispatchCh) /\ dispatchCh'[i] = dispatchCh[i + 1]
    BY <2>1 DEF TypeOK
  <2> QED
    BY <1>0, <1>4, <2>1, <2>2 DEF TakeJob, AllAlerted, HasAlert, TheAlert
<1>5. CASE UpdateApplied \/ UpdateFailed
  <2>1. \A g \in Gateways : mgmt'[g] \in {mgmt[g], inflight}
    BY <1>5, AppliedFacts DEF UpdateApplied, UpdateFailed
  <2>2. dispatchCh' = dispatchCh /\ inflight' = NoUpdate
        /\ UNCHANGED <<pc, cur, snapshot>>
    BY <1>5 DEF UpdateApplied, UpdateFailed
  <2> QED
    BY <1>0, <2>1, <2>2 DEF AllAlerted, HasAlert, TheAlert, NoUpdate
<1>6. CASE PublishOk
  BY <1>0, <1>6 DEF PublishOk, AllAlerted, HasAlert, TheAlert
<1>7. CASE UNCHANGED <<dispatchCh, inflight, mgmt>>
           /\ (pc' = "dispatch" => UNCHANGED <<pc, cur, snapshot>>)
  BY <1>0, <1>7 DEF AllAlerted, HasAlert, TheAlert
<1> QED
  BY <1>1, <1>2, <1>3, <1>4, <1>5, <1>6, <1>7
  DEF vars, Next, TickStep, WorkerStep, NextEntry, Proceed,
    TelemetryArrives, HandleDecommission, TickStart, TickSnapshot, TickSkip,
    TickCandidate, LifecyclePaused, LifecycleActive, LifecycleFailed,
    PublishFailed, TickMark, TickEnd, TimerStop, WorkerExit, Cancel, Close,
    AdvanceClock, Pause, Resume

(* Whatever is queued, in flight or applied: nobody is told that a gateway *)
(* is Offline without an alert for the same silence in the stream.         *)
THEOREM OfflineIsAlerted == Spec => []OfflineImpliesAlerted
<1>1. Init => AllAlerted
  BY DEF Init, AllAlerted, HasAlert, NoUpdate
<1>2. AllAlerted => OfflineImpliesAlerted
  BY DEF AllAlerted, HasAlert, OfflineImpliesAlerted
<1>3. Spec => [](TypeOK /\ LoopOK)
  BY KnownInvariant, PTL
<1> QED
  BY <1>1, <1>2, <1>3, AlertedNext, PTL DEF Spec

=============================================================================
