--------------------- MODULE HeartbeatTrackerQueueProofs ---------------------
(***************************************************************************)
(* Proofs about the way of a status update in HeartbeatTracker, from       *)
(* dispatchStatusUpdate through the queue and the worker to the management *)
(* API, for every value of the constants.                                  *)
(***************************************************************************)
EXTENDS HeartbeatTrackerProofs

USE DEF Online, Offline

-----------------------------------------------------------------------------
(* The queue.                                                              *)

(* A send that finds room adds the update behind all others.               *)
LEMMA QueueAppend ==
  ASSUME TypeOK, NEW u \in Updates, NEW g \in Gateways,
         dispatchCh' = Append(dispatchCh, u)
  PROVE  LET n == Len(dispatchCh) + 1 IN
         /\ n \in Nat /\ dispatchCh'[n] = u
         /\ Queued(g)' = IF u.gateway = g THEN Queued(g) \cup {n}
                                          ELSE Queued(g)
         /\ \A i \in Queued(g) : dispatchCh'[i] = dispatchCh[i] /\ i < n
<1> DEFINE n == Len(dispatchCh) + 1
<1>1. /\ Len(dispatchCh') = n /\ dispatchCh'[n] = u /\ Len(dispatchCh) \in Nat
      /\ \A i \in 1..Len(dispatchCh) : dispatchCh'[i] = dispatchCh[i]
  BY DEF TypeOK
<1>2. Queued(g)' = IF u.gateway = g THEN Queued(g) \cup {n} ELSE Queued(g)
  BY <1>1 DEF Queued
<1> QED
  BY <1>1, <1>2 DEF Queued

(* The worker takes the oldest update; the others move up by one.          *)
LEMMA QueueTail ==
  ASSUME TypeOK, TakeJob, NEW g \in Gateways
  PROVE  /\ inflight' = dispatchCh[1]
         /\ inflight'.gateway = g <=> 1 \in Queued(g)
         /\ \A i \in Queued(g)' : /\ i \in Nat /\ i + 1 \in Queued(g)
                                  /\ dispatchCh'[i] = dispatchCh[i + 1]
         /\ \A i \in Queued(g) : /\ i \in Nat
                                 /\ i = 1 \/ i - 1 \in Queued(g)'
<1>1. /\ dispatchCh # <<>> /\ inflight' = dispatchCh[1]
      /\ dispatchCh' = Tail(dispatchCh)
  BY DEF TakeJob, TypeOK
<1>2. /\ Len(dispatchCh) \in Nat \ {0}
      /\ Len(dispatchCh') = Len(dispatchCh) - 1
      /\ \A i \in 1..Len(dispatchCh') : dispatchCh'[i] = dispatchCh[i + 1]
  BY <1>1 DEF TypeOK
<1>3. inflight'.gateway = g <=> 1 \in Queued(g)
  BY <1>1, <1>2 DEF Queued
<1>4. \A i \in Queued(g)' : /\ i \in Nat /\ i + 1 \in Queued(g)
                            /\ dispatchCh'[i] = dispatchCh[i + 1]
  BY <1>2 DEF Queued
<1>5. ASSUME NEW i \in Queued(g)
      PROVE  i \in Nat /\ (i = 1 \/ i - 1 \in Queued(g)')
  <2>1. i \in 1..Len(dispatchCh) /\ dispatchCh[i].gateway = g
    BY DEF Queued
  <2>2. ASSUME i # 1 PROVE i - 1 \in Queued(g)'
    <3>1. i - 1 \in 1..Len(dispatchCh') /\ (i - 1) + 1 = i
      BY <1>2, <2>1, <2>2
    <3>2. dispatchCh'[i - 1] = dispatchCh[i]
      BY <1>2, <3>1
    <3> QED
      BY <2>1, <3>1, <3>2 DEF Queued
  <2> QED
    BY <1>2, <2>1, <2>2
<1> QED
  BY <1>1, <1>3, <1>4, <1>5

-----------------------------------------------------------------------------
(* The newest update wins.                                                 *)

(* NewestUpdateWins, for one gateway.                                      *)
Newest(g) ==
  (reported[g] # NoUpdate /\ ~lost[g]) =>
    IF Queued(g) # {}
    THEN \E i \in Queued(g) :
           dispatchCh[i] = reported[g] /\ \A j \in Queued(g) : j <= i
    ELSE reported[g] = IF inflight.gateway = g THEN inflight ELSE mgmt[g]

(* The invariant is one statement for each gateway.                        *)
LEMMA NewestSplit == NewestUpdateWins <=> \A g \in Gateways : Newest(g)
BY DEF NewestUpdateWins, Newest

(* A send is the newest of its gateway, or is marked as lost.              *)
LEMMA DispatchNewest ==
  ASSUME TypeOK, NEW u \in Updates, Dispatch(u), UNCHANGED <<inflight, mgmt>>,
         NEW g \in Gateways, Newest(g)
  PROVE  Newest(g)'
<1>1. CASE closed
  BY <1>1 DEF Dispatch, Newest, Queued
<1>2. CASE ~closed /\ ~(Len(dispatchCh) < BufSize)
  <2>1. /\ dispatchCh' = dispatchCh
        /\ reported' = [reported EXCEPT ![u.gateway] = u]
        /\ lost' = [lost EXCEPT ![u.gateway] = TRUE]
    BY <1>2 DEF Dispatch
  <2>2. CASE u.gateway = g
    <3>1. lost'[g]
      BY <2>1, <2>2 DEF TypeOK
    <3> QED
      BY <3>1 DEF Newest
  <2>3. CASE u.gateway # g
    <3>1. reported'[g] = reported[g] /\ lost'[g] = lost[g]
      BY <2>1, <2>3 DEF TypeOK
    <3> QED
      BY <2>1, <3>1 DEF Newest, Queued
  <2> QED
    BY <2>2, <2>3
<1>3. CASE ~closed /\ Len(dispatchCh) < BufSize
  <2>1. /\ dispatchCh' = Append(dispatchCh, u)
        /\ reported' = [reported EXCEPT ![u.gateway] = u]
        /\ \A h \in Gateways : h # u.gateway => lost'[h] = lost[h]
    BY <1>3 DEF Dispatch, TypeOK
  <2> DEFINE n == Len(dispatchCh) + 1
  <2>2. /\ n \in Nat /\ dispatchCh'[n] = u
        /\ Queued(g)' = IF u.gateway = g THEN Queued(g) \cup {n}
                                         ELSE Queued(g)
        /\ \A i \in Queued(g) : dispatchCh'[i] = dispatchCh[i] /\ i < n
    BY <2>1, QueueAppend
  <2> HIDE DEF n
  <2>3. CASE u.gateway = g
    <3>1. reported'[g] = u
      BY <2>1, <2>3 DEF TypeOK
    <3>2. n \in Queued(g)' /\ \A j \in Queued(g)' : j <= n
      BY <2>2, <2>3 DEF Queued
    <3> QED
      BY <2>2, <3>1, <3>2 DEF Newest
  <2>4. CASE u.gateway # g
    <3>1. reported'[g] = reported[g] /\ lost'[g] = lost[g]
      BY <2>1, <2>4 DEF TypeOK
    <3> QED
      BY <2>2, <2>4, <3>1 DEF Newest
  <2> QED
    BY <2>3, <2>4
<1> QED
  BY <1>1, <1>2, <1>3

(* The worker hands on what it took; only a request that failed with       *)
(* nothing behind it loses the newest update, and says so.                 *)
LEMMA WorkerNewest ==
  ASSUME TypeOK, TakeJob \/ UpdateApplied \/ UpdateFailed,
         NEW g \in Gateways, Newest(g)
  PROVE  Newest(g)'
<1> USE GatewaysAssumption
<1>1. CASE TakeJob
  <2>1. /\ inflight = NoUpdate /\ UNCHANGED <<reported, lost, mgmt>>
    BY <1>1 DEF TakeJob, mgmtVars
  <2>2. inflight.gateway # g
    BY <2>1 DEF NoUpdate
  <2>3. /\ inflight' = dispatchCh[1]
        /\ inflight'.gateway = g <=> 1 \in Queued(g)
        /\ \A i \in Queued(g)' : /\ i \in Nat /\ i + 1 \in Queued(g)
                                 /\ dispatchCh'[i] = dispatchCh[i + 1]
        /\ \A i \in Queued(g) : /\ i \in Nat
                                /\ i = 1 \/ i - 1 \in Queued(g)'
    BY <1>1, QueueTail
  <2> SUFFICES ASSUME reported[g] # NoUpdate, ~lost[g]
               PROVE  Newest(g)'
    BY <2>1 DEF Newest
  <2>4. CASE Queued(g) = {}
    <3>1. Queued(g)' = {}
      BY <2>3, <2>4
    <3>2. reported[g] = mgmt[g]
      BY <2>2, <2>4 DEF Newest
    <3> QED
      BY <2>1, <2>3, <2>4, <3>1, <3>2 DEF Newest
  <2>5. CASE Queued(g) # {}
    <3>1. PICK i \in Queued(g) :
            dispatchCh[i] = reported[g] /\ \A j \in Queued(g) : j <= i
      BY <2>5 DEF Newest
    <3>2. CASE i = 1
      <4>1. Queued(g)' = {}
        <5> SUFFICES ASSUME NEW j \in Queued(g)' PROVE FALSE
          OBVIOUS
        <5>1. j \in Nat \ {0} /\ j + 1 \in Queued(g)
          BY <2>3 DEF Queued
        <5> QED
          BY <3>1, <3>2, <5>1
      <4>2. inflight'.gateway = g /\ reported[g] = inflight'
        BY <2>3, <3>1, <3>2
      <4> QED
        BY <2>1, <4>1, <4>2 DEF Newest
    <3>3. CASE i # 1
      <4>1. i - 1 \in Queued(g)' /\ i \in Nat
        BY <2>3, <3>1, <3>3
      <4>2. dispatchCh'[i - 1] = dispatchCh[i]
        BY <2>3, <4>1
      <4>3. ASSUME NEW j \in Queued(g)' PROVE j <= i - 1
        <5>1. j \in Nat /\ j + 1 \in Queued(g)
          BY <2>3
        <5>2. j + 1 <= i
          BY <3>1, <5>1
        <5> QED
          BY <4>1, <5>1, <5>2
      <4> QED
        BY <2>1, <3>1, <4>1, <4>2, <4>3 DEF Newest
    <3> QED
      BY <3>2, <3>3
  <2> QED
    BY <2>4, <2>5
<1>2. CASE UpdateApplied \/ UpdateFailed
  <2>1. /\ inflight \in Updates /\ inflight' = NoUpdate
        /\ UNCHANGED <<dispatchCh, reported>>
    BY <1>2 DEF UpdateApplied, UpdateFailed, TypeOK, dispVars
  <2>2. Queued(g)' = Queued(g) /\ inflight'.gateway # g
    BY <2>1 DEF Queued, NoUpdate
  <2>3. CASE inflight.gateway # g
    <3>1. mgmt'[g] = mgmt[g] /\ lost'[g] = lost[g]
      BY <1>2, <2>3, AppliedFacts
      DEF UpdateApplied, UpdateFailed, TypeOK, dispVars
    <3> QED
      BY <2>1, <2>2, <2>3, <3>1 DEF Newest
  <2>4. CASE inflight.gateway = g /\ Queued(g) # {}
    <3>1. lost'[g] = lost[g]
      BY <1>2, <2>4 DEF UpdateApplied, UpdateFailed, dispVars
    <3> QED
      BY <2>1, <2>2, <2>4, <3>1 DEF Newest
  <2>5. CASE inflight.gateway = g /\ Queued(g) = {}
    <3>1. CASE UpdateApplied
      <4>1. mgmt'[g] = inflight /\ lost'[g] = lost[g]
        BY <2>5, <3>1, AppliedFacts DEF UpdateApplied, dispVars
      <4> QED
        BY <2>1, <2>2, <2>5, <4>1 DEF Newest
    <3>2. CASE UpdateFailed
      <4>1. lost'[g]
        BY <2>5, <3>2 DEF UpdateFailed, TypeOK
      <4> QED
        BY <4>1 DEF Newest
    <3> QED
      BY <1>2, <3>1, <3>2
  <2> QED
    BY <2>3, <2>4, <2>5
<1> QED
  BY <1>1, <1>2

(* Every step keeps the newest update of every gateway on top.             *)
LEMMA NewestNext ==
  TypeOK /\ LoopOK /\ NewestUpdateWins /\ [Next]_vars => NewestUpdateWins'
<1> SUFFICES ASSUME TypeOK, LoopOK, NewestUpdateWins, [Next]_vars,
                    NEW g \in Gateways
             PROVE  Newest(g)'
  BY NewestSplit DEF NewestUpdateWins, Newest
<1>0. Newest(g)
  BY NewestSplit
<1> USE DEF heldVars, procVars, tickVars, dispVars, mgmtVars
<1>1. CASE HandleTelemetry
  <2>1. telem.gateway \in Gateways /\ telem.at \in Nat
    BY <1>1 DEF HandleTelemetry, TypeOK, Calls
  <2> DEFINE u == [gateway |-> telem.gateway, status |-> Online,
                   lastSeenAt |-> telem.at]
  <2>2. u \in Updates
    BY <2>1 DEF Updates
  <2>3. UNCHANGED <<inflight, mgmt>> /\ (Dispatch(u) \/ UNCHANGED dispVars)
    BY <1>1 DEF HandleTelemetry
  <2> HIDE DEF u
  <2>4. CASE Dispatch(u)
    BY <1>0, <2>2, <2>3, <2>4, DispatchNewest
  <2>5. CASE UNCHANGED dispVars
    BY <1>0, <2>3, <2>5 DEF Newest, Queued
  <2> QED
    BY <2>3, <2>4, <2>5
<1>2. CASE TickDispatch
  <2> DEFINE u == [gateway |-> cur, status |-> Offline,
                   lastSeenAt |-> snapshot[cur].lastSeen]
  <2>1. cur \in Gateways
    BY <1>2 DEF TickDispatch, LoopOK
  <2>2. u \in Updates
    BY <2>1 DEF Updates, TypeOK, Entries
  <2>3. UNCHANGED <<inflight, mgmt>> /\ Dispatch(u)
    BY <1>2 DEF TickDispatch
  <2> QED
    BY <1>0, <2>2, <2>3, DispatchNewest
<1>3. CASE TakeJob \/ UpdateApplied \/ UpdateFailed
  BY <1>0, <1>3, WorkerNewest
<1>4. CASE Restart
  BY <1>4 DEF Restart, Newest
<1>5. CASE UNCHANGED <<dispatchCh, reported, lost, inflight, mgmt>>
  BY <1>0, <1>5 DEF Newest, Queued
<1> QED
  BY <1>1, <1>2, <1>3, <1>4, <1>5
  DEF vars, Next, TickStep, WorkerStep, NextEntry, Proceed,
    TelemetryArrives, HandleDecommission, TickStart, TickSnapshot, TickSkip,
    TickCandidate, LifecyclePaused, LifecycleActive, LifecycleFailed,
    PublishOk, PublishFailed, TickMark, TickEnd, TimerStop, WorkerExit,
    Cancel, Close, AdvanceClock, Pause, Resume

(* A queue of any capacity and its single worker neither reorder nor lose: *)
(* the newest update of a gateway, unless dropped or refused, is the last  *)
(* of its gateway in the queue, or in flight, or applied.                  *)
THEOREM NewestUpdateIsNotOvertaken == Spec => []NewestUpdateWins
<1>1. Init => NewestUpdateWins
  BY DEF Init, NewestUpdateWins
<1> QED
  BY <1>1, TypeInit, TypeNext, NewestNext, PTL DEF Spec

-----------------------------------------------------------------------------
(* Close drains.                                                           *)

(* Once the worker is gone nothing enters the queue: a send would panic.   *)
LEMMA DrainNext ==
  ASSUME TypeOK, DrainOK, [Next]_vars
  PROVE  DrainOK'
<1> USE DEF heldVars, procVars, tickVars, dispVars, mgmtVars, DrainOK
<1>1. CASE WorkerExit \/ Restart
  BY <1>1 DEF WorkerExit, Restart
<1>2. CASE HandleTelemetry \/ TickDispatch
  BY <1>2 DEF HandleTelemetry, TickDispatch, Dispatch
<1>3. CASE TakeJob \/ UpdateApplied \/ UpdateFailed
  BY <1>3 DEF TakeJob, UpdateApplied, UpdateFailed
<1>4. CASE UNCHANGED <<done, dispatchCh, inflight>> /\ (closed => closed')
  BY <1>4
<1> QED
  BY <1>1, <1>2, <1>3, <1>4
  DEF vars, Next, TickStep, WorkerStep, NextEntry, Proceed,
    TelemetryArrives, HandleDecommission, TickStart, TickSnapshot, TickSkip,
    TickCandidate, LifecyclePaused, LifecycleActive, LifecycleFailed,
    PublishOk, PublishFailed, TickMark, TickEnd, TimerStop,
    Cancel, Close, AdvanceClock, Pause, Resume

(* When Close returns, every newest update that was neither dropped nor    *)
(* refused is at the management API.                                       *)
THEOREM CloseDrainsTheQueue == Spec => []CloseDrains
<1>1. Init => DrainOK
  BY DEF Init, DrainOK
<1>2. TypeOK /\ NewestUpdateWins /\ DrainOK => CloseDrains
  <2> SUFFICES ASSUME TypeOK, NewestUpdateWins, DrainOK, done,
                      NEW g \in Gateways, reported[g] # NoUpdate, ~lost[g]
               PROVE  mgmt[g] = reported[g]
    BY DEF CloseDrains
  <2>1. dispatchCh = <<>> /\ inflight.gateway # g
    BY GatewaysAssumption DEF DrainOK, NoUpdate
  <2>2. Queued(g) = {}
    BY <2>1 DEF Queued
  <2> QED
    BY <2>1, <2>2 DEF NewestUpdateWins
<1>3. TypeOK /\ DrainOK /\ [Next]_vars => DrainOK'
  BY DrainNext
<1> QED
  BY <1>1, <1>2, <1>3, TypeCorrect, NewestUpdateIsNotOvertaken, PTL DEF Spec

-----------------------------------------------------------------------------
(* LastSeenAt never goes back.                                             *)

(* OrderOK, for one gateway.                                               *)
Ordered(g) ==
  /\ InOrder(g) /\ NoneAfter(g, now)
  /\ telem.gateway = g => NoneAfter(g, telem.at) /\ telem.at <= now
  /\ Tracked(beats, g) =>
       /\ NoneAfter(g, beats[g].lastSeen) /\ beats[g].lastSeen <= now
       /\ telem.gateway = g => beats[g].lastSeen <= telem.at
  /\ snapshot[g].knownStatus = Online =>
       /\ NoneAfter(g, snapshot[g].lastSeen)
       /\ snapshot[g].lastSeen <= beats[g].lastSeen

(* The order of times is one statement for each gateway that is not        *)
(* decommissioned.                                                         *)
LEMMA OrderSplit == OrderOK <=> \A g \in Gateways \ decom : Ordered(g)
BY DEF OrderOK, Ordered

(* The times that are compared are natural numbers.                        *)
LEMMA TimeTypes ==
  ASSUME TypeOK, NEW g \in Gateways
  PROVE  /\ ReportedTimes(g) \subseteq Nat
         /\ telem.at \in Nat /\ now \in Nat
         /\ beats[g].lastSeen \in Nat /\ snapshot[g].lastSeen \in Nat
<1>1. \A i \in Queued(g) : dispatchCh[i] \in Updates
  BY DEF Queued, TypeOK
<1>2. \A v \in Updates \cup {NoUpdate} : v.lastSeenAt \in Nat
  BY DEF Updates, NoUpdate
<1>3. ReportedTimes(g) \subseteq Nat
  BY <1>1, <1>2 DEF TypeOK, ReportedTimes
<1> QED
  BY <1>3 DEF TypeOK, Calls, NoCall, Entries

(* A send that is no earlier than all before it keeps the order, and adds  *)
(* its own time and no other.                                              *)
LEMMA DispatchOrdered ==
  ASSUME TypeOK, NEW u \in Updates, Dispatch(u), UNCHANGED <<inflight, mgmt>>,
         NEW g \in Gateways, InOrder(g),
         u.gateway = g => NoneAfter(g, u.lastSeenAt)
  PROVE  /\ InOrder(g)'
         /\ ReportedTimes(g)' \subseteq
              ReportedTimes(g) \cup
                IF u.gateway = g THEN {u.lastSeenAt} ELSE {}
<1>1. CASE dispatchCh' = dispatchCh
  BY <1>1 DEF InOrder, ReportedTimes, Queued
<1>2. CASE dispatchCh' = Append(dispatchCh, u)
  <2> DEFINE n == Len(dispatchCh) + 1
  <2>1. /\ n \in Nat /\ dispatchCh'[n] = u
        /\ Queued(g)' = IF u.gateway = g THEN Queued(g) \cup {n}
                                         ELSE Queued(g)
        /\ \A i \in Queued(g) : dispatchCh'[i] = dispatchCh[i] /\ i < n
    BY <1>2, QueueAppend
  <2>2. u.lastSeenAt \in Nat
    BY DEF Updates
  <2> HIDE DEF n
  <2>3. CASE u.gateway # g
    BY <2>1, <2>3 DEF InOrder, ReportedTimes
  <2>4. CASE u.gateway = g
    <3>1. InOrder(g)'
      <4>1. \A i \in Queued(g) : i \in Nat
        BY DEF Queued
      <4>2. ASSUME NEW i \in Queued(g)'
            PROVE  /\ mgmt[g].lastSeenAt <= dispatchCh'[i].lastSeenAt
                   /\ inflight.gateway = g =>
                        inflight.lastSeenAt <= dispatchCh'[i].lastSeenAt
        BY <2>1, <2>4 DEF InOrder, NoneAfter, ReportedTimes
      <4>3. ASSUME NEW i \in Queued(g)', NEW j \in Queued(g)', i <= j
            PROVE  dispatchCh'[i].lastSeenAt <= dispatchCh'[j].lastSeenAt
        <5>1. CASE i \in Queued(g) /\ j \in Queued(g)
          BY <2>1, <4>3, <5>1 DEF InOrder
        <5>2. CASE i \in Queued(g) /\ j = n
          BY <2>1, <2>4, <5>2 DEF NoneAfter, ReportedTimes
        <5>3. CASE i = n
          BY <2>1, <2>2, <2>4, <4>1, <4>3, <5>3
        <5> QED
          BY <2>1, <2>4, <5>1, <5>2, <5>3
      <4> QED
        BY <4>2, <4>3 DEF InOrder
    <3>2. ReportedTimes(g)' \subseteq ReportedTimes(g) \cup {u.lastSeenAt}
      BY <2>1, <2>4 DEF ReportedTimes
    <3> QED
      BY <2>4, <3>1, <3>2
  <2> QED
    BY <2>3, <2>4
<1> QED
  BY <1>1, <1>2 DEF Dispatch

(* The worker keeps the order, and adds nothing.                           *)
LEMMA WorkerOrdered ==
  ASSUME TypeOK, TakeJob \/ UpdateApplied \/ UpdateFailed,
         NEW g \in Gateways, InOrder(g)
  PROVE  InOrder(g)' /\ ReportedTimes(g)' \subseteq ReportedTimes(g)
<1> USE GatewaysAssumption
<1>1. CASE TakeJob
  <2>1. mgmt' = mgmt /\ inflight.gateway # g
    BY <1>1 DEF TakeJob, mgmtVars, NoUpdate
  <2>2. /\ inflight' = dispatchCh[1]
        /\ inflight'.gateway = g <=> 1 \in Queued(g)
        /\ \A i \in Queued(g)' : /\ i \in Nat /\ i + 1 \in Queued(g)
                                 /\ dispatchCh'[i] = dispatchCh[i + 1]
    BY <1>1, QueueTail
  <2>3. ASSUME NEW i \in Queued(g)'
        PROVE  /\ mgmt[g].lastSeenAt <= dispatchCh'[i].lastSeenAt
               /\ inflight'.gateway = g =>
                    inflight'.lastSeenAt <= dispatchCh'[i].lastSeenAt
               /\ \A j \in Queued(g)' : i <= j =>
                    dispatchCh'[i].lastSeenAt <= dispatchCh'[j].lastSeenAt
    <3>1. i \in Nat /\ 1 <= i + 1 /\ i + 1 \in Queued(g)
      BY <2>2
    <3>2. ASSUME NEW j \in Queued(g)', i <= j
          PROVE  dispatchCh'[i].lastSeenAt <= dispatchCh'[j].lastSeenAt
      <4>1. j \in Nat /\ j + 1 \in Queued(g)
            /\ dispatchCh'[j] = dispatchCh[j + 1]
        BY <2>2, <3>2
      <4>2. i + 1 <= j + 1
        BY <3>1, <3>2, <4>1
      <4> QED
        BY <2>2, <3>1, <4>1, <4>2 DEF InOrder
    <3> QED
      BY <2>2, <3>1, <3>2 DEF InOrder
  <2>4. inflight'.gateway = g => mgmt[g].lastSeenAt <= inflight'.lastSeenAt
    BY <2>2 DEF InOrder
  <2>5. InOrder(g)'
    BY <2>1, <2>3, <2>4 DEF InOrder
  <2>6. ReportedTimes(g)' \subseteq ReportedTimes(g)
    BY <2>1, <2>2 DEF ReportedTimes
  <2> QED
    BY <2>5, <2>6
<1>2. CASE UpdateApplied \/ UpdateFailed
  <2>1. dispatchCh' = dispatchCh /\ inflight' = NoUpdate
    BY <1>2 DEF UpdateApplied, UpdateFailed, dispVars
  <2>2. inflight'.gateway # g /\ Queued(g)' = Queued(g)
    BY <2>1 DEF NoUpdate, Queued
  <2>3. \/ mgmt'[g] = mgmt[g]
        \/ mgmt'[g] = inflight /\ inflight.gateway = g
    BY <1>2, AppliedFacts DEF UpdateApplied, UpdateFailed
  <2> QED
    BY <2>1, <2>2, <2>3 DEF InOrder, ReportedTimes
<1> QED
  BY <1>1, <1>2

(* Nothing was reported before the first step.                             *)
LEMMA OrderInit == Init => OrderOK
<1> SUFFICES ASSUME Init, NEW g \in Gateways PROVE Ordered(g)
  BY OrderSplit
<1>1. /\ beats[g] = NoEntry /\ snapshot[g] = NoEntry /\ mgmt[g] = NoUpdate
      /\ telem.gateway # g /\ inflight.gateway # g
  BY GatewaysAssumption DEF Init, Empty, NoCall, NoUpdate
<1>2. Queued(g) = {} /\ now = 0
  BY DEF Init, Queued
<1>3. ReportedTimes(g) = {0}
  BY <1>1, <1>2 DEF ReportedTimes, NoUpdate
<1> QED
  BY <1>1, <1>2, <1>3
  DEF Ordered, InOrder, NoneAfter, Tracked, NoEntry

(* Every step keeps what is reported of a gateway in the order of its      *)
(* LastSeenAt.  Telemetry reports the clock read of the call, which is no  *)
(* earlier than the entry; Tick reports the entry of its snapshot, which   *)
(* nobody else has reported on since, for it is Online in the map too.     *)
LEMMA OrderNext ==
  ASSUME TypeOK, LoopOK, AllKnown, OrderOK, [Next]_vars
  PROVE  OrderOK'
<1> USE GatewaysAssumption, BoundsAssumption
<1> USE DEF heldVars, procVars, tickVars, dispVars, mgmtVars
<1> SUFFICES ASSUME NEW g \in Gateways \ decom' PROVE Ordered(g)'
  BY DEF OrderOK, Ordered
<1>1. decom \subseteq decom'
  BY DEF Next, TickStep, WorkerStep, vars, TelemetryArrives,
    HandleTelemetry, HandleDecommission, TickStart, TickSnapshot, TickSkip,
    TickCandidate, LifecyclePaused, LifecycleActive, LifecycleFailed,
    Proceed, NextEntry, PublishOk, PublishFailed, TickDispatch, TickMark,
    TickEnd, TimerStop, TakeJob, UpdateApplied, UpdateFailed, WorkerExit,
    Cancel, Close, AdvanceClock, Pause, Resume, Restart
<1>2. g \in Gateways /\ Ordered(g)
  BY <1>1, OrderSplit
<1>3. ~panicked => Known(g)
  BY <1>1 DEF AllKnown
<1>4. /\ ReportedTimes(g) \subseteq Nat
      /\ telem.at \in Nat /\ now \in Nat
      /\ beats[g].lastSeen \in Nat /\ snapshot[g].lastSeen \in Nat
  BY <1>2, TimeTypes
<1>5. UNCHANGED <<dispatchCh, inflight, mgmt>>
        => ReportedTimes(g)' = ReportedTimes(g) /\ InOrder(g)' = InOrder(g)
  BY DEF ReportedTimes, InOrder, Queued
<1> USE DEF Ordered, NoneAfter
<1>6. CASE Restart
  <2>1. /\ beats'[g] = NoEntry /\ snapshot'[g] = NoEntry
        /\ telem'.gateway # g /\ inflight'.gateway # g
        /\ UNCHANGED now
        /\ \/ mgmt'[g] = mgmt[g]
           \/ mgmt'[g] = inflight /\ inflight.gateway = g
    BY <1>2, <1>6, AppliedFacts DEF Restart, Empty, NoCall, NoUpdate
  <2>2. Queued(g)' = {}
    BY <1>6 DEF Restart, Queued
  <2>3. ReportedTimes(g)' \subseteq ReportedTimes(g) /\ InOrder(g)'
    BY <2>1, <2>2 DEF ReportedTimes, InOrder
  <2>4. InOrder(g)' /\ NoneAfter(g, now)'
    BY <1>2, <2>1, <2>3
  <2>5. ~Tracked(beats, g)' /\ snapshot'[g].knownStatus # Online
    BY <2>1 DEF Tracked, NoEntry
  <2> QED
    BY <2>1, <2>4, <2>5
<1>7. CASE \E h \in Gateways : TelemetryArrives(h)
  <2>1. /\ telem'.at = now
        /\ UNCHANGED <<now, beats, snapshot, dispatchCh, inflight, mgmt>>
    BY <1>7 DEF TelemetryArrives
  <2> QED
    BY <1>2, <1>4, <1>5, <2>1 DEF Tracked
<1>8. CASE HandleTelemetry
  <2> DEFINE h == telem.gateway
             u == [gateway |-> h, status |-> Online, lastSeenAt |-> telem.at]
  <2>1. h \in Gateways /\ u \in Updates
    BY <1>8 DEF HandleTelemetry, TypeOK, Calls, Updates
  <2>2. /\ beats'[g] = IF g = h THEN [knownStatus |-> Online,
                                      lastSeen |-> telem.at] ELSE beats[g]
        /\ telem'.gateway # g
        /\ UNCHANGED <<now, snapshot, inflight, mgmt>>
        /\ \/ UNCHANGED dispVars /\ beats[h].knownStatus = Online
           \/ Dispatch(u) /\ beats[h].knownStatus # Online
    BY <1>2, <1>8, <2>1 DEF HandleTelemetry, TypeOK, NoCall
  <2>3. u.gateway = g => NoneAfter(g, u.lastSeenAt)
    BY <1>2
  <2>4. /\ InOrder(g)'
        /\ ReportedTimes(g)' \subseteq
             ReportedTimes(g) \cup IF h = g THEN {telem.at} ELSE {}
    <3>1. CASE Dispatch(u)
      BY <1>2, <2>1, <2>2, <2>3, <3>1, DispatchOrdered
    <3>2. CASE UNCHANGED dispVars
      BY <1>2, <1>5, <2>2, <3>2
    <3> QED
      BY <2>2, <3>1, <3>2
  <2>5. CASE h # g
    BY <1>2, <2>2, <2>4, <2>5 DEF Tracked
  <2>6. CASE h = g
    <3>1. \A s \in ReportedTimes(g)' : s <= telem.at /\ telem.at <= now
      BY <1>2, <1>4, <2>4, <2>6
    <3>2. ReportedTimes(g)' \subseteq Nat
      BY <1>4, <2>4
    <3>3. CASE snapshot[g].knownStatus # Online
      BY <1>2, <1>4, <2>2, <2>4, <2>6, <3>1, <3>2, <3>3 DEF Tracked
    <3>4. CASE snapshot[g].knownStatus = Online
      <4>1. beats[g].knownStatus = Online
        BY <1>3, <1>8, <3>4 DEF Known, HandleTelemetry
      <4>2. ReportedTimes(g)' = ReportedTimes(g)
        BY <1>5, <2>2, <2>6, <4>1
      <4> QED
        BY <1>2, <1>4, <2>2, <2>4, <2>6, <3>1, <4>1, <4>2 DEF Tracked
    <3> QED
      BY <3>3, <3>4
  <2> QED
    BY <2>5, <2>6
<1>9. CASE \E h \in Removable : HandleDecommission(h)
  <2>1. /\ beats'[g] = beats[g]
        /\ UNCHANGED <<now, telem, snapshot, dispatchCh, inflight, mgmt>>
    BY <1>9 DEF HandleDecommission, TypeOK
  <2> QED
    BY <1>2, <1>5, <2>1 DEF Tracked
<1>10. CASE TickSnapshot
  <2>1. /\ snapshot' = beats
        /\ UNCHANGED <<now, telem, beats, dispatchCh, inflight, mgmt>>
    BY <1>10 DEF TickSnapshot
  <2> QED
    BY <1>2, <1>4, <1>5, <2>1 DEF Tracked
<1>11. CASE TickDispatch
  <2> DEFINE u == [gateway |-> cur, status |-> Offline,
                   lastSeenAt |-> snapshot[cur].lastSeen]
  <2>1. /\ cur \in Gateways /\ u \in Updates /\ ~panicked
        /\ snapshot[cur].knownStatus = Online
    BY <1>11 DEF TickDispatch, LoopOK, Updates, TypeOK, Entries
  <2>2. Dispatch(u) /\ UNCHANGED <<now, telem, beats, snapshot, inflight, mgmt>>
    BY <1>11 DEF TickDispatch
  <2>3. u.gateway = g => NoneAfter(g, u.lastSeenAt)
    BY <1>2, <2>1
  <2>4. /\ InOrder(g)'
        /\ ReportedTimes(g)' \subseteq
             ReportedTimes(g) \cup IF cur = g THEN {snapshot[g].lastSeen} ELSE {}
    BY <1>2, <2>1, <2>2, <2>3, DispatchOrdered
  <2>5. CASE cur # g
    BY <1>2, <2>2, <2>4, <2>5 DEF Tracked
  <2>6. CASE cur = g
    <3>1. Tracked(beats, g)
      BY <1>3, <2>1, <2>6 DEF Known, Tracked
    <3>2. snapshot[g].lastSeen <= beats[g].lastSeen /\ beats[g].lastSeen <= now
          /\ (telem.gateway = g => beats[g].lastSeen <= telem.at)
      BY <1>2, <2>1, <2>6, <3>1
    <3>3. snapshot[g].lastSeen <= now
          /\ (telem.gateway = g => snapshot[g].lastSeen <= telem.at)
      BY <1>4, <3>2
    <3>4. \A s \in ReportedTimes(g)' :
             /\ s <= now /\ s <= beats[g].lastSeen
             /\ s <= snapshot[g].lastSeen
             /\ telem.gateway = g => s <= telem.at
      BY <1>2, <1>4, <2>1, <2>4, <2>6, <3>1, <3>2, <3>3
    <3>5. UNCHANGED <<now, telem, beats, snapshot>>
      BY <2>2
    <3> QED
      BY <1>2, <2>4, <3>2, <3>4, <3>5 DEF Tracked
  <2> QED
    BY <2>5, <2>6
<1>12. CASE TickMark
  <2>1. /\ beats'[g].lastSeen = beats[g].lastSeen
        /\ Tracked(beats', g) => Tracked(beats, g)
        /\ snapshot'[g] \in {snapshot[g], NoEntry}
        /\ UNCHANGED <<now, telem, dispatchCh, inflight, mgmt>>
    BY <1>2, <1>12 DEF TickMark, NextEntry, TypeOK, Entries, Tracked
  <2> QED
    BY <1>2, <1>5, <2>1 DEF NoEntry, Tracked
<1>13. CASE \/ LifecyclePaused \/ PublishFailed
            \/ \E h \in Gateways : TickSkip(h)
  <2>1. /\ snapshot'[g] \in {snapshot[g], NoEntry}
        /\ UNCHANGED <<now, telem, beats, dispatchCh, inflight, mgmt>>
    BY <1>2, <1>13 DEF LifecyclePaused, PublishFailed, TickSkip, NextEntry,
                       TypeOK
  <2> QED
    BY <1>2, <1>5, <2>1 DEF NoEntry, Tracked
<1>14. CASE TakeJob \/ UpdateApplied \/ UpdateFailed
  <2>1. InOrder(g)' /\ ReportedTimes(g)' \subseteq ReportedTimes(g)
    BY <1>2, <1>14, WorkerOrdered
  <2>2. UNCHANGED <<now, telem, beats, snapshot>>
    BY <1>14 DEF TakeJob, UpdateApplied, UpdateFailed
  <2> QED
    BY <1>2, <2>1, <2>2 DEF Tracked
<1>15. CASE AdvanceClock
  <2>1. /\ now <= now' /\ now' \in Nat
        /\ UNCHANGED <<telem, beats, snapshot, dispatchCh, inflight, mgmt>>
    BY <1>4, <1>15 DEF AdvanceClock
  <2> QED
    BY <1>2, <1>4, <1>5, <2>1 DEF Tracked
<1>16. CASE UNCHANGED <<now, telem, beats, snapshot, dispatchCh, inflight,
                        mgmt>>
  BY <1>2, <1>5, <1>16 DEF Tracked
<1> QED
  BY <1>6, <1>7, <1>8, <1>9, <1>10, <1>11, <1>12, <1>13, <1>14, <1>15, <1>16
  DEF vars, Next, TickStep, WorkerStep, Proceed, TickStart, TickCandidate,
    LifecycleActive, LifecycleFailed, PublishOk, TickEnd, TimerStop,
    WorkerExit, Cancel, Close, Pause, Resume

(* The order is inductive together with the knowledge of the tracker.      *)
LEMMA OrderInvariant == Spec => []OrderOK
<1>1. TypeOK /\ LoopOK /\ AllKnown /\ OrderOK /\ [Next]_vars => OrderOK'
  BY OrderNext
<1> QED
  BY OrderInit, KnownInvariant, <1>1, PTL DEF Spec

(* The management API is written with what the worker has in hand only,    *)
(* also when the process dies with its request on the way.                 *)
LEMMA MgmtForward ==
  ASSUME TypeOK, OrderOK, [Next]_vars, NEW g \in Gateways \ decom
  PROVE  mgmt'[g].lastSeenAt >= mgmt[g].lastSeenAt
<1>1. CASE UpdateApplied \/ UpdateFailed \/ Restart
  <2>1. \/ mgmt'[g] = mgmt[g]
        \/ mgmt'[g] = inflight /\ inflight.gateway = g
    BY <1>1, AppliedFacts DEF UpdateApplied, UpdateFailed, Restart
  <2>2. inflight.gateway = g => mgmt[g].lastSeenAt <= inflight.lastSeenAt
    BY DEF OrderOK, InOrder
  <2>3. mgmt[g].lastSeenAt \in Nat /\ mgmt'[g].lastSeenAt \in Nat
    BY <2>1, TimeTypes DEF ReportedTimes
  <2> QED
    BY <2>1, <2>2, <2>3
<1>2. CASE mgmt' = mgmt
  <2>1. mgmt[g].lastSeenAt \in Nat
    BY TimeTypes DEF ReportedTimes
  <2> QED
    BY <1>2, <2>1
<1> QED
  BY <1>1, <1>2
  DEF Next, TickStep, WorkerStep, vars, mgmtVars, TelemetryArrives,
    HandleTelemetry, HandleDecommission, TickStart, TickSnapshot, TickSkip,
    TickCandidate, LifecyclePaused, LifecycleActive, LifecycleFailed,
    Proceed, NextEntry, PublishOk, PublishFailed, TickDispatch, TickMark,
    TickEnd, TimerStop, TakeJob, WorkerExit, Cancel, Close, AdvanceClock,
    Pause, Resume

(* The LastSeenAt that the management API holds for a gateway never goes   *)
(* back, in any interleaving of telemetry, ticks, the worker and restarts, *)
(* unless the gateway was decommissioned.                                  *)
THEOREM LastSeenMovesForward == Spec => LastSeenNeverGoesBack
<1>1. TypeOK /\ OrderOK /\ [Next]_vars =>
        [\A g \in Gateways \ decom :
           mgmt'[g].lastSeenAt >= mgmt[g].lastSeenAt]_vars
  BY MgmtForward
<1> QED
  BY TypeCorrect, OrderInvariant, <1>1, PTL DEF Spec, LastSeenNeverGoesBack

(* The inductive invariant that the runs check holds in every behaviour.   *)
THEOREM TrackerInvariant == Spec => []TrackerInv
<1>1. Init => DrainOK
  BY DEF Init, DrainOK
<1>2. TypeOK /\ DrainOK /\ [Next]_vars => DrainOK'
  BY DrainNext
<1>3. TypeOK /\ LoopOK /\ AllKnown /\ PausedSilenced
        /\ NewestUpdateWins /\ DrainOK /\ OrderOK => TrackerInv
  BY KnownSplit DEF TrackerInv
<1> QED
  BY <1>1, <1>2, <1>3, KnownInvariant, SilencedWhilePaused,
     NewestUpdateIsNotOvertaken, OrderInvariant, PTL DEF Spec

=============================================================================
