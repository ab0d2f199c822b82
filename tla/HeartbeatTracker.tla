-------------------------- MODULE HeartbeatTracker --------------------------
(***************************************************************************)
(* The heartbeat tracker of internal/service/heartbeat_tracker.go, with    *)
(* the goroutines that drive it:                                           *)
(*   - the NATS telemetry callback, which calls HandleTelemetry;           *)
(*   - the NATS decommission callback, which calls HandleDecommission;     *)
(*   - HeartbeatTickTimer.Run, which calls Tick until ctx is cancelled;    *)
(*   - dispatchWorker, which forwards status updates to the management API;*)
(*   - main, which calls Close once the telemetry consumer has returned.   *)
(* A step between two lock regions, or between two calls that leave the    *)
(* process, is an action of its own.                                       *)
(*                                                                         *)
(* Assumed of the outside: the clock does not go back, although LastSeenAt *)
(* is wall-clock time and a host may set its clock; and the management API *)
(* handles requests in the order the NATS server received them.            *)
(***************************************************************************)
EXTENDS Integers, Sequences

CONSTANTS
  Gateways,     \* the (tenant, gateway) keys of the beats map
  NoGateway,    \* "the Tick loop is between two entries"
  BufSize,      \* StatusUpdateBufSize, the capacity of dispatchCh
  GracePeriod,  \* ticks are no-ops for this long after startTime
  Timeouts,     \* what AlertConfigProvider.TimeoutFor may return
  Pausable,     \* bound: the gateways operators pause and resume
  Removable,    \* bound: the gateways that get decommissioned
  MaxTime,      \* bound: the clock stops here
  MaxRestarts   \* bound: crashes and redeployments of the process

ASSUME GatewaysAssumption == NoGateway \notin Gateways
ASSUME BoundsAssumption ==
  /\ BufSize \in Nat \ {0}
  /\ GracePeriod \in Nat
  /\ Timeouts \subseteq Int
  /\ Pausable \subseteq Gateways /\ Removable \subseteq Gateways
  /\ MaxTime \in Nat
  /\ MaxRestarts \in Nat

VARIABLES
  now,         \* ClockProvider.Now
  startTime,   \* when NewHeartbeatTracker ran
  beats,       \* the heartbeat map; NoEntry for a key that is absent
  telem,       \* the HandleTelemetry call past its clock read, or NoCall
  dispatchCh,  \* queued status updates, oldest first
  inflight,    \* the update the worker is sending, or NoUpdate
  pc,          \* where Tick is
  tickNow,     \* the clock value Tick evaluates against
  snapshot,    \* entries of the snapshot that the loop has not finished with
  cur,         \* the gateway being acted upon, or NoGateway
  verdict,     \* how the lifecycle gate let cur through
  ctxDone,     \* SIGTERM arrived: the context given to Tick is cancelled
  timerUp,     \* HeartbeatTickTimer.Run has not returned
  subscribed,  \* the telemetry subscription of this process succeeded
  closed,      \* close(dispatchCh) was called
  done,        \* the worker closed the done channel
  panicked,    \* a send on the closed channel killed the process
  restarts,    \* times the process was started again
  paused,      \* management API: gateways an operator has paused
  mgmt,        \* management API: last status update applied, per gateway
  alerts,      \* JetStream: offline alerts stored
  reported,    \* history: last update given to dispatchStatusUpdate
  lost,        \* history: that update was dropped, or its request failed
  decom,       \* history: gateways decommissioned at least once
  pausedAll    \* history: gateways paused ever since this Tick began

heldVars == <<now, startTime, beats, telem, inflight, decom>>
procVars == <<ctxDone, timerUp, subscribed, closed, done, restarts>>
tickVars == <<pc, tickNow, snapshot, cur, verdict, pausedAll>>
dispVars == <<dispatchCh, reported, lost, panicked>>
mgmtVars == <<paused, mgmt, alerts>>
vars == <<now, startTime, beats, telem, dispatchCh, inflight, pc, tickNow,
          snapshot, cur, verdict, ctxDone, timerUp, subscribed, closed, done,
          panicked, restarts, paused, mgmt, alerts, reported, lost, decom,
          pausedAll>>

Online  == "online"
Offline == "offline"

Entries == [knownStatus : {"absent", Online, Offline}, lastSeen : Nat]
NoEntry == [knownStatus |-> "absent", lastSeen |-> 0]

Updates  == [gateway : Gateways, status : {Online, Offline}, lastSeenAt : Nat]
NoUpdate == [gateway |-> NoGateway, status |-> "none", lastSeenAt |-> 0]

Calls  == [gateway : Gateways, at : Nat]
NoCall == [gateway |-> NoGateway, at |-> 0]

Alerts == [gateway : Gateways, lastSeen : Nat]

Tracked(b, g) == b[g].knownStatus # "absent"
Empty == [g \in Gateways |-> NoEntry]

-----------------------------------------------------------------------------
(* NewHeartbeatTracker, and the state of the services around it.           *)

Init ==
  /\ now = 0 /\ startTime = 0
  /\ beats = Empty
  /\ telem = NoCall
  /\ dispatchCh = <<>> /\ inflight = NoUpdate
  /\ pc = "idle" /\ tickNow = 0 /\ snapshot = Empty
  /\ cur = NoGateway /\ verdict = "none" /\ pausedAll = {}
  /\ ctxDone = FALSE /\ timerUp = TRUE /\ subscribed \in BOOLEAN
  /\ closed = FALSE /\ done = FALSE /\ panicked = FALSE
  /\ restarts = 0
  /\ paused = {} /\ mgmt = [g \in Gateways |-> NoUpdate] /\ alerts = {}
  /\ reported = [g \in Gateways |-> NoUpdate]
  /\ lost = [g \in Gateways |-> FALSE]
  /\ decom = {}

(* The management API once it has applied the update in flight, if any.    *)
Applied ==
  [g \in Gateways |-> IF inflight.gateway = g THEN inflight ELSE mgmt[g]]

(* A crash or a redeployment at any moment.  The beats map, the queue and  *)
(* every call in progress are gone; the services around it are not.  The   *)
(* request in flight may still be handled, before any of the next process: *)
(* the NATS server received it first.                                      *)
Restart ==
  /\ restarts < MaxRestarts
  /\ restarts' = restarts + 1
  /\ startTime' = now
  /\ beats' = Empty /\ telem' = NoCall
  /\ dispatchCh' = <<>> /\ inflight' = NoUpdate
  /\ pc' = "idle" /\ tickNow' = 0 /\ snapshot' = Empty
  /\ cur' = NoGateway /\ verdict' = "none" /\ pausedAll' = {}
  /\ ctxDone' = FALSE /\ timerUp' = TRUE /\ subscribed' \in BOOLEAN
  /\ closed' = FALSE /\ done' = FALSE /\ panicked' = FALSE
  /\ reported' = [g \in Gateways |-> NoUpdate]
  /\ lost' = [g \in Gateways |-> FALSE]
  /\ mgmt' \in {mgmt, Applied}
  /\ UNCHANGED <<now, decom, paused, alerts>>

-----------------------------------------------------------------------------
(* dispatchStatusUpdate: a non-blocking send.  A full channel drops the    *)
(* update; a closed one makes the send panic.                              *)

(* Mutant of Dispatch: the channel takes one update too many.            *)
DispatchOneTooMany(u) ==
  IF closed
  THEN panicked' = TRUE /\ UNCHANGED <<dispatchCh, reported, lost>>
  ELSE LET room == Len(dispatchCh) <= BufSize IN
       /\ dispatchCh' = IF room THEN Append(dispatchCh, u) ELSE dispatchCh
       /\ reported' = [reported EXCEPT ![u.gateway] = u]
       /\ lost' = [lost EXCEPT ![u.gateway] = ~room]
       /\ UNCHANGED panicked

Dispatch(u) ==
  IF closed
  THEN panicked' = TRUE /\ UNCHANGED <<dispatchCh, reported, lost>>
  ELSE LET room == Len(dispatchCh) < BufSize IN
       /\ dispatchCh' = IF room THEN Append(dispatchCh, u) ELSE dispatchCh
       /\ reported' = [reported EXCEPT ![u.gateway] = u]
       /\ lost' = [lost EXCEPT ![u.gateway] = ~room]
       /\ UNCHANGED panicked

-----------------------------------------------------------------------------
(* HandleTelemetry.  The subscription has one callback goroutine, so one   *)
(* call is in progress at a time.  The clock is read before the lock.      *)
(* Without a subscription there are no calls.                              *)

TelemetryArrives(g) ==
  /\ ~panicked /\ subscribed /\ telem = NoCall
  /\ telem' = [gateway |-> g, at |-> now]
  /\ UNCHANGED <<now, startTime, beats, inflight, decom, tickVars, procVars,
                 dispVars, mgmtVars>>

(* The region under mu: insert or refresh the entry, and report it Online  *)
(* when it is new or was Offline.                                          *)
HandleTelemetry ==
  /\ ~panicked /\ telem # NoCall
  /\ LET g == telem.gateway IN
     /\ beats' = [beats EXCEPT ![g] = [knownStatus |-> Online,
                                       lastSeen |-> telem.at]]
     /\ IF beats[g].knownStatus = Online
        THEN UNCHANGED dispVars
        ELSE Dispatch([gateway |-> g, status |-> Online,
                       lastSeenAt |-> telem.at])
  /\ telem' = NoCall
  /\ UNCHANGED <<now, startTime, inflight, decom, tickVars, procVars,
                 mgmtVars>>

HandleDecommission(g) ==
  /\ ~panicked
  /\ beats' = [beats EXCEPT ![g] = NoEntry]
  /\ decom' = decom \cup {g}
  /\ UNCHANGED <<now, startTime, telem, inflight, tickVars, procVars,
                 dispVars, mgmtVars>>

-----------------------------------------------------------------------------
(* Tick.  A tick inside the grace period returns at once and changes       *)
(* nothing; the two clock reads before the snapshot are one step, since    *)
(* the first only decides whether there is a second.                       *)

TickStart ==
  /\ ~panicked /\ timerUp /\ pc = "idle"
  /\ now >= startTime + GracePeriod
  /\ pc' = "snapshot" /\ tickNow' = now /\ pausedAll' = paused
  /\ UNCHANGED <<heldVars, snapshot, cur, verdict, procVars, dispVars,
                 mgmtVars>>

TickSnapshot ==
  /\ ~panicked /\ pc = "snapshot"
  /\ snapshot' = beats /\ pc' = "eval"
  /\ UNCHANGED <<heldVars, tickNow, cur, verdict, pausedAll, procVars,
                 dispVars, mgmtVars>>

Overdue(e, timeout) == tickNow >= e.lastSeen + timeout

(* The map is ranged over in any order.  The timeout is whatever the       *)
(* cache's snapshot holds when this entry's turn comes.                    *)
TickSkip(g) ==
  /\ ~panicked /\ pc = "eval" /\ Tracked(snapshot, g)
  /\ \/ snapshot[g].knownStatus = Offline
     \/ \E t \in Timeouts : ~Overdue(snapshot[g], t)
  /\ snapshot' = [snapshot EXCEPT ![g] = NoEntry]
  /\ UNCHANGED <<heldVars, pc, tickNow, cur, verdict, pausedAll, procVars,
                 dispVars, mgmtVars>>

(* Mutant of TickCandidate: Offline entries are not skipped.             *)
TickCandidateEvenOffline(g) ==
  /\ ~panicked /\ pc = "eval"
  /\ Tracked(snapshot, g)
  /\ \E t \in Timeouts : Overdue(snapshot[g], t)
  /\ pc' = "lifecycle" /\ cur' = g
  /\ UNCHANGED <<heldVars, tickNow, snapshot, verdict, pausedAll, procVars,
                 dispVars, mgmtVars>>

TickCandidate(g) ==
  /\ ~panicked /\ pc = "eval"
  /\ snapshot[g].knownStatus = Online
  /\ \E t \in Timeouts : Overdue(snapshot[g], t)
  /\ pc' = "lifecycle" /\ cur' = g
  /\ UNCHANGED <<heldVars, tickNow, snapshot, verdict, pausedAll, procVars,
                 dispVars, mgmtVars>>

(* continue: on to the next entry of the snapshot.                         *)
NextEntry ==
  /\ pc' = "eval" /\ cur' = NoGateway /\ verdict' = "none"
  /\ snapshot' = [snapshot EXCEPT ![cur] = NoEntry]
  /\ UNCHANGED <<tickNow, pausedAll>>

LifecyclePaused ==
  /\ ~panicked /\ pc = "lifecycle" /\ ~ctxDone
  /\ cur \in paused
  /\ NextEntry
  /\ UNCHANGED <<heldVars, procVars, dispVars, mgmtVars>>

Proceed(v) ==
  /\ pc' = "publish" /\ verdict' = v
  /\ UNCHANGED <<heldVars, tickNow, snapshot, cur, pausedAll, procVars,
                 dispVars, mgmtVars>>

(* Mutant of LifecycleActive: the state in the answer is not looked at.  *)
LifecycleStateIgnored ==
  /\ ~panicked /\ pc = "lifecycle" /\ ~ctxDone
  /\ Proceed("active")

LifecycleActive ==
  /\ ~panicked /\ pc = "lifecycle" /\ ~ctxDone
  /\ cur \notin paused
  /\ Proceed("active")

(* Mutant of LifecycleFailed: a failed query silences the gateway.       *)
LifecycleFailClosed ==
  /\ ~panicked /\ pc = "lifecycle"
  /\ NextEntry
  /\ UNCHANGED <<heldVars, procVars, dispVars, mgmtVars>>

(* Fail-open.  Once ctx is cancelled every query fails, whatever the       *)
(* management API would have said.                                         *)
LifecycleFailed ==
  /\ ~panicked /\ pc = "lifecycle"
  /\ Proceed(IF ctxDone THEN "cancelled" ELSE "unreachable")

TheAlert == [gateway |-> cur, lastSeen |-> snapshot[cur].lastSeen]

PublishOk ==
  /\ ~panicked /\ pc = "publish"
  /\ alerts' = alerts \cup {TheAlert}
  /\ pc' = "dispatch"
  /\ UNCHANGED <<heldVars, tickNow, snapshot, cur, verdict, pausedAll,
                 procVars, dispVars, paused, mgmt>>

(* Mutant of PublishFailed: Tick goes on after a publish error.          *)
PublishErrorIgnored ==
  /\ ~panicked /\ pc = "publish"
  /\ alerts' \in {alerts, alerts \cup {TheAlert}}
  /\ pc' = "dispatch"
  /\ UNCHANGED <<heldVars, tickNow, snapshot, cur, verdict, pausedAll,
                 procVars, dispVars, paused, mgmt>>

(* The publish returned an error: the stream stored the alert and the      *)
(* acknowledgement was lost, or it did not.                                *)
PublishFailed ==
  /\ ~panicked /\ pc = "publish"
  /\ alerts' \in {alerts, alerts \cup {TheAlert}}
  /\ NextEntry
  /\ UNCHANGED <<heldVars, procVars, dispVars, paused, mgmt>>

TickDispatch ==
  /\ ~panicked /\ pc = "dispatch"
  /\ Dispatch([gateway |-> cur, status |-> Offline,
               lastSeenAt |-> snapshot[cur].lastSeen])
  /\ pc' = IF closed THEN pc ELSE "mark"
  /\ UNCHANGED <<heldVars, tickNow, snapshot, cur, verdict, pausedAll,
                 procVars, mgmtVars>>

(* Mutant of TickMark: no mark when a heartbeat came meanwhile.          *)
TickMarkUnlessHeard ==
  /\ ~panicked /\ pc = "mark"
  /\ beats' = IF beats[cur] = snapshot[cur]
              THEN [beats EXCEPT ![cur].knownStatus = Offline]
              ELSE beats
  /\ NextEntry
  /\ UNCHANGED <<now, startTime, telem, inflight, decom, procVars, dispVars,
                 mgmtVars>>

TickMark ==
  /\ ~panicked /\ pc = "mark"
  /\ beats' = IF Tracked(beats, cur)
              THEN [beats EXCEPT ![cur].knownStatus = Offline]
              ELSE beats
  /\ NextEntry
  /\ UNCHANGED <<now, startTime, telem, inflight, decom, procVars, dispVars,
                 mgmtVars>>

TickEnd ==
  /\ ~panicked /\ pc = "eval" /\ snapshot = Empty
  /\ pc' = "idle" /\ tickNow' = 0 /\ pausedAll' = {}
  /\ UNCHANGED <<heldVars, snapshot, cur, verdict, procVars, dispVars,
                 mgmtVars>>

(* Run's select sees ctx.Done between two ticks.                           *)
TimerStop ==
  /\ ~panicked /\ pc = "idle" /\ ctxDone /\ timerUp
  /\ timerUp' = FALSE
  /\ UNCHANGED <<heldVars, tickVars, ctxDone, subscribed, closed, done,
                 restarts, dispVars, mgmtVars>>

-----------------------------------------------------------------------------
(* dispatchWorker: range over the channel, one request at a time.          *)

(* Mutant of TakeJob: the newest queued update goes first.               *)
TakeNewestJob ==
  /\ ~panicked /\ inflight = NoUpdate /\ dispatchCh # <<>>
  /\ inflight' = dispatchCh[Len(dispatchCh)]
  /\ dispatchCh' = SubSeq(dispatchCh, 1, Len(dispatchCh) - 1)
  /\ UNCHANGED <<now, startTime, beats, telem, decom, reported, lost,
                 panicked, tickVars, procVars, mgmtVars>>

(* Mutant of TakeJob: the worker stops when ctx is cancelled.            *)
TakeJobUntilCancelled ==
  /\ ~panicked /\ ~ctxDone /\ inflight = NoUpdate /\ dispatchCh # <<>>
  /\ inflight' = Head(dispatchCh) /\ dispatchCh' = Tail(dispatchCh)
  /\ UNCHANGED <<now, startTime, beats, telem, decom, reported, lost,
                 panicked, tickVars, procVars, mgmtVars>>

TakeJob ==
  /\ ~panicked /\ inflight = NoUpdate /\ dispatchCh # <<>>
  /\ inflight' = Head(dispatchCh) /\ dispatchCh' = Tail(dispatchCh)
  /\ UNCHANGED <<now, startTime, beats, telem, decom, reported, lost,
                 panicked, tickVars, procVars, mgmtVars>>

UpdateApplied ==
  /\ ~panicked /\ inflight # NoUpdate
  /\ mgmt' = Applied
  /\ inflight' = NoUpdate
  /\ UNCHANGED <<now, startTime, beats, telem, decom, tickVars, procVars,
                 dispVars, paused, alerts>>

Queued(g) == {i \in 1..Len(dispatchCh) : dispatchCh[i].gateway = g}

(* Every attempt failed or the update was rejected; the error is ignored.  *)
(* The last reply may have been lost after the update was applied.  A late *)
(* request never overtakes that of the next update: the API handles them   *)
(* in order.                                                               *)
UpdateFailed ==
  /\ ~panicked /\ inflight # NoUpdate
  /\ mgmt' \in {mgmt, Applied}
  /\ lost' = IF Queued(inflight.gateway) = {}
             THEN [lost EXCEPT ![inflight.gateway] = TRUE]
             ELSE lost
  /\ inflight' = NoUpdate
  /\ UNCHANGED <<now, startTime, beats, telem, decom, tickVars, procVars,
                 dispatchCh, reported, panicked, paused, alerts>>

(* Mutant of WorkerExit: the queue is abandoned at Close.                *)
WorkerExitsAtClose ==
  /\ ~panicked /\ closed /\ ~done
  /\ inflight = NoUpdate
  /\ done' = TRUE
  /\ UNCHANGED <<heldVars, tickVars, ctxDone, timerUp, subscribed, closed,
                 restarts, dispVars, mgmtVars>>

WorkerExit ==
  /\ ~panicked /\ closed /\ ~done
  /\ dispatchCh = <<>> /\ inflight = NoUpdate
  /\ done' = TRUE
  /\ UNCHANGED <<heldVars, tickVars, ctxDone, timerUp, subscribed, closed,
                 restarts, dispVars, mgmtVars>>

-----------------------------------------------------------------------------
(* main: SIGTERM cancels ctx; once the telemetry consumer has returned,    *)
(* for that reason or because it could not subscribe, the deferred Close   *)
(* runs.  Neither waits for Tick or for the callbacks.                     *)

Cancel ==
  /\ ~panicked /\ ~ctxDone
  /\ ctxDone' = TRUE
  /\ UNCHANGED <<heldVars, tickVars, timerUp, subscribed, closed, done,
                 restarts, dispVars, mgmtVars>>

Close ==
  /\ ~panicked /\ (ctxDone \/ ~subscribed) /\ ~closed
  /\ closed' = TRUE
  /\ UNCHANGED <<heldVars, tickVars, ctxDone, timerUp, subscribed, done,
                 restarts, dispVars, mgmtVars>>

-----------------------------------------------------------------------------
(* The environment: time passes, and operators pause and resume gateways.  *)

AdvanceClock ==
  /\ now < MaxTime
  /\ now' = now + 1
  /\ UNCHANGED <<startTime, beats, telem, inflight, decom, tickVars,
                 procVars, dispVars, mgmtVars>>

Pause(g) ==
  /\ g \notin paused
  /\ paused' = paused \cup {g}
  /\ UNCHANGED <<heldVars, tickVars, procVars, dispVars, mgmt, alerts>>

Resume(g) ==
  /\ g \in paused
  /\ paused' = paused \ {g} /\ pausedAll' = pausedAll \ {g}
  /\ UNCHANGED <<heldVars, pc, tickNow, snapshot, cur, verdict, procVars,
                 dispVars, mgmt, alerts>>

-----------------------------------------------------------------------------
TickStep ==
  \/ TickStart \/ TickSnapshot
  \/ \E g \in Gateways : TickSkip(g) \/ TickCandidate(g)
  \/ LifecyclePaused \/ LifecycleActive \/ LifecycleFailed
  \/ PublishOk \/ PublishFailed
  \/ TickDispatch \/ TickMark \/ TickEnd
  \/ TimerStop

WorkerStep == TakeJob \/ UpdateApplied \/ UpdateFailed \/ WorkerExit

Next ==
  \/ \E g \in Gateways : TelemetryArrives(g)
  \/ \E g \in Removable : HandleDecommission(g)
  \/ HandleTelemetry
  \/ TickStep
  \/ WorkerStep
  \/ Cancel \/ Close \/ Restart
  \/ AdvanceClock
  \/ \E g \in Pausable : Pause(g) \/ Resume(g)

Spec == Init /\ [][Next]_vars

(* What the Go scheduler and the retry policy guarantee: goroutines that   *)
(* can run do run, every request ends (each attempt has a timeout), time   *)
(* passes.  Strong fairness of PublishOk is the one assumption about the   *)
(* outside: a gateway's alert is not refused for ever.  Operators, gateways*)
(* and signals are under no obligation.                                    *)
Fairness ==
  /\ WF_vars(TickStep) /\ WF_vars(WorkerStep)
  /\ WF_vars(HandleTelemetry) /\ WF_vars(AdvanceClock)
  /\ \A g \in Gateways : SF_vars(PublishOk /\ cur = g)

LiveSpec == Spec /\ Fairness

-----------------------------------------------------------------------------
(* The type of every variable.                                             *)
TypeOK ==
  /\ now \in Nat /\ startTime \in Nat
  /\ beats \in [Gateways -> Entries]
  /\ telem \in Calls \cup {NoCall}
  /\ dispatchCh \in Seq(Updates) /\ Len(dispatchCh) <= BufSize
  /\ inflight \in Updates \cup {NoUpdate}
  /\ pc \in {"idle", "snapshot", "eval", "lifecycle", "publish", "dispatch",
             "mark"}
  /\ tickNow \in Nat
  /\ snapshot \in [Gateways -> Entries]
  /\ cur \in Gateways \cup {NoGateway}
  /\ verdict \in {"none", "active", "unreachable", "cancelled"}
  /\ ctxDone \in BOOLEAN /\ timerUp \in BOOLEAN /\ subscribed \in BOOLEAN
  /\ closed \in BOOLEAN /\ done \in BOOLEAN /\ panicked \in BOOLEAN
  /\ restarts \in 0..MaxRestarts
  /\ paused \subseteq Gateways
  /\ mgmt \in [Gateways -> Updates \cup {NoUpdate}]
  /\ alerts \subseteq Alerts
  /\ reported \in [Gateways -> Updates \cup {NoUpdate}]
  /\ lost \in [Gateways -> BOOLEAN]
  /\ decom \subseteq Gateways
  /\ pausedAll \subseteq Gateways

(* Marking Offline without looking at what happened since the snapshot     *)
(* keeps the map and the reports in step (the comment on phase 3 of Tick): *)
(* outside the window between the report and the mark, what the tracker    *)
(* knows of a gateway is what it last reported of it.  A gateway that was  *)
(* decommissioned is left out: see MarkNeverMissesAnOutage.                *)
StatusAgreement ==
  ~panicked =>
    \A g \in Gateways \ decom :
      (Tracked(beats, g) /\ ~(pc = "mark" /\ cur = g)) =>
        beats[g].knownStatus = reported[g].status

(* Nobody is told that a gateway is Offline without an alert for the same  *)
(* silence in the stream: publish comes first, and an update that is       *)
(* queued, in flight or applied carries the LastSeen of its alert.         *)
OfflineImpliesAlerted ==
  LET Told == {dispatchCh[i] : i \in 1..Len(dispatchCh)} \cup {inflight}
              \cup {mgmt[g] : g \in Gateways}
  IN \A u \in Told :
       u.status = Offline =>
         [gateway |-> u.gateway, lastSeen |-> u.lastSeenAt] \in alerts

(* The queue and its single worker neither reorder nor lose: as long as    *)
(* the newest update of a gateway was neither dropped nor refused, it is   *)
(* the last one of that gateway in the queue, or the one in flight when    *)
(* none is queued, or the one the management API has.                      *)
NewestUpdateWins ==
  \A g \in Gateways :
    (reported[g] # NoUpdate /\ ~lost[g]) =>
      IF Queued(g) # {}
      THEN \E i \in Queued(g) :
             dispatchCh[i] = reported[g] /\ \A j \in Queued(g) : j <= i
      ELSE reported[g] = IF inflight.gateway = g THEN inflight ELSE mgmt[g]

(* Close returns only after the channel is drained: by then every newest   *)
(* update that was not dropped or refused is at the management API.        *)
CloseDrains ==
  done => \A g \in Gateways :
            (reported[g] # NoUpdate /\ ~lost[g]) => mgmt[g] = reported[g]

(* A gateway paused since before this tick began is acted upon only when   *)
(* the lifecycle query failed.                                             *)
PausedSilenced ==
  pc \in {"publish", "dispatch", "mark"} /\ cur \in pausedAll =>
    verdict \in {"unreachable", "cancelled"}

(* The LastSeenAt that the management API holds for a gateway never goes   *)
(* back, across recoveries, stale snapshots, failed requests and restarts, *)
(* unless the gateway was decommissioned.                                  *)
LastSeenNeverGoesBack ==
  [][\A g \in Gateways \ decom :
       mgmt'[g].lastSeenAt >= mgmt[g].lastSeenAt]_vars

(* The bookkeeping of the Tick loop: what it is acting upon is an Online   *)
(* entry of the snapshot, and there is no snapshot between ticks.          *)
LoopOK ==
  /\ pc \in {"lifecycle", "publish", "dispatch", "mark"} <=> cur \in Gateways
  /\ cur \in Gateways => snapshot[cur].knownStatus = Online
  /\ pc \in {"idle", "snapshot"} => snapshot = Empty
  /\ pausedAll \subseteq paused

(* What makes StatusAgreement inductive: a gateway is tracked once it has  *)
(* been reported, an entry that the loop still holds as Online is Online   *)
(* in the map, for nobody but Tick can change that, and by the time of the *)
(* mark the report has been made.                                          *)
KnowledgeOK ==
  ~panicked =>
    \A g \in Gateways \ decom :
      /\ Tracked(beats, g) <=> reported[g].status # "none"
      /\ snapshot[g].knownStatus = Online => beats[g].knownStatus = Online
      /\ (pc = "mark" /\ cur = g) => reported[g].status = Offline

(* What makes CloseDrains inductive: the worker is gone only after Close,  *)
(* when the queue and the worker's hands are empty, and stay so.           *)
DrainOK == done => closed /\ dispatchCh = <<>> /\ inflight = NoUpdate

(* Nothing that was reported of g, and is queued, in flight or applied,    *)
(* carries a LastSeenAt later than t.                                      *)
ReportedTimes(g) ==
  {mgmt[g].lastSeenAt}
  \cup (IF inflight.gateway = g THEN {inflight.lastSeenAt} ELSE {})
  \cup {dispatchCh[i].lastSeenAt : i \in Queued(g)}

NoneAfter(g, t) == \A s \in ReportedTimes(g) : s <= t

(* On its way from the queue to the management API, what was reported of a *)
(* gateway is in the order of its LastSeenAt.                              *)
InOrder(g) ==
  /\ inflight.gateway = g => mgmt[g].lastSeenAt <= inflight.lastSeenAt
  /\ \A i \in Queued(g) :
       /\ mgmt[g].lastSeenAt <= dispatchCh[i].lastSeenAt
       /\ inflight.gateway = g =>
            inflight.lastSeenAt <= dispatchCh[i].lastSeenAt
       /\ \A j \in Queued(g) :
            i <= j => dispatchCh[i].lastSeenAt <= dispatchCh[j].lastSeenAt

(* What makes LastSeenNeverGoesBack inductive: whatever the next report of *)
(* a gateway may carry (the clock read of the call in progress, the entry  *)
(* of the snapshot or of the map) is no earlier than all that was reported.*)
OrderOK ==
  \A g \in Gateways \ decom :
    /\ InOrder(g) /\ NoneAfter(g, now)
    /\ telem.gateway = g => NoneAfter(g, telem.at) /\ telem.at <= now
    /\ Tracked(beats, g) =>
         /\ NoneAfter(g, beats[g].lastSeen) /\ beats[g].lastSeen <= now
         /\ telem.gateway = g => beats[g].lastSeen <= telem.at
    /\ snapshot[g].knownStatus = Online =>
         /\ NoneAfter(g, snapshot[g].lastSeen)
         /\ snapshot[g].lastSeen <= beats[g].lastSeen

(* The inductive invariant of the proofs.                                  *)
TrackerInv ==
  /\ TypeOK /\ LoopOK
  /\ KnowledgeOK /\ StatusAgreement /\ PausedSilenced
  /\ NewestUpdateWins /\ DrainOK /\ OrderOK

(* The reports of every gateway follow the abstract protocol, up to its    *)
(* decommission.                                                           *)
Reporting == INSTANCE StatusReporting WITH
  told <- [g \in Gateways |->
             IF g \in decom THEN "forgotten" ELSE reported[g].status],
  alerted <- IF pc = "dispatch" THEN {cur} \ decom ELSE {}

ImplementsReporting == Reporting!Spec

-----------------------------------------------------------------------------
(* Liveness.                                                               *)

(* A gateway last heard at s, believed Online, that will be overdue while  *)
(* the clock still runs.                                                   *)
Overlooked(g, s) ==
  /\ beats[g] = [knownStatus |-> Online, lastSeen |-> s]
  /\ startTime + GracePeriod <= MaxTime
  /\ \A t \in Timeouts : s + t <= MaxTime

(* A gateway that falls silent does not stay Online for ever: it is marked *)
(* Offline, unless it is heard again, removed, or at some point paused, or *)
(* the process is going down.                                              *)
SilentGatewayReported ==
  \A g \in Gateways : \A s \in 0..MaxTime :
    Overlooked(g, s) ~>
      ~Overlooked(g, s) \/ g \in paused \/ ctxDone \/ panicked

(* Close returns: the worker gets through the queue whatever the replies.  *)
CloseReturns == closed ~> (done \/ panicked \/ ~closed)

(* An update that is neither dropped nor refused reaches the management    *)
(* API, or a newer one takes its place.                                    *)
UpdatesArrive ==
  \A g \in Gateways :
    (reported[g] # NoUpdate /\ ~lost[g]) ~>
      mgmt[g] = reported[g] \/ lost[g] \/ reported[g] = NoUpdate \/ panicked

-----------------------------------------------------------------------------
(* What comments and tests say, and the code does not do.                  *)

(* "sends a status update to the worker channel without blocking.  If the  *)
(* channel is full the update is dropped": a status update is queued or    *)
(* dropped, it never takes the process down.                               *)
NeverPanics == ~panicked

(* Phase 3 always marks Offline so that "the next offline event" is not    *)
(* missed: a gateway the map holds as Offline, which Tick skips, is one    *)
(* that was last reported Offline.                                         *)
MarkNeverMissesAnOutage ==
  ~panicked =>
    \A g \in Gateways :
      beats[g].knownStatus = Offline => reported[g].status = Offline

=============================================================================
