--------------------------- MODULE ServiceProofs ----------------------------
(***************************************************************************)
(* Theorems about main, its migrations, its configuration and its          *)
(* decommission consumer, for every environment, every listing of          *)
(* migrations, every set of events and any number of restarts.             *)
(***************************************************************************)
EXTENDS Service, ConfigLoaderProofs, MigrationsProofs

-----------------------------------------------------------------------------
(* Operators.                                                              *)

(* An interval that is positive and fits a Duration keeps its sign.        *)
LEMMA MillisInRange ==
  ASSUME NEW ms \in 1..(MaxInt \div NanosPerMilli)
  PROVE  Millis(ms) > 0
<1> DEFINE q == MaxInt \div NanosPerMilli
           n == ms * NanosPerMilli
           w == 2 * (MaxInt + 1)
<1>1. MaxInt \in Nat /\ NanosPerMilli \in Nat \ {0} /\ q \in Nat
  BY WidthsAssumption
<1>2. q * NanosPerMilli <= MaxInt
  BY <1>1
<1>3. n \in Nat /\ n > 0 /\ n <= q * NanosPerMilli
  BY <1>1
<1>4. n \in 1..MaxInt
  BY <1>1, <1>2, <1>3
<1> HIDE DEF n
<1>5. n + MaxInt + 1 \in 0..(w - 1)
  BY <1>1, <1>4
<1>6. (n + MaxInt + 1) % w = n + MaxInt + 1
  BY <1>1, <1>5
<1>7. Wrap(n, MaxInt) = n
  BY <1>1, <1>4, <1>6 DEF Wrap
<1>8. QED
  BY <1>4, <1>7 DEF Millis, n

(* A call deferred now goes in front of those deferred before.             *)
LEMMA Push ==
  ASSUME NEW n \in 0..4
  PROVE  <<AcquireOrder[n + 1]>> \o Deferred(n) = Deferred(n + 1)
BY DEF AcquireOrder, Deferred

(* The call deferred last is the first to go.                              *)
LEMMA Pop ==
  ASSUME NEW n \in 1..5
  PROVE  /\ Deferred(n) # <<>> /\ Head(Deferred(n)) = AcquireOrder[n]
         /\ Tail(Deferred(n)) = Deferred(n - 1)
<1>1. Deferred(n) \in Seq(Resources) /\ Len(Deferred(n)) = n
  BY DEF AcquireOrder, Deferred, Resources
<1>2. Deferred(n) # <<>> /\ Head(Deferred(n)) = AcquireOrder[n]
  BY <1>1 DEF Deferred
<1>3. /\ Tail(Deferred(n)) \in Seq(Resources) /\ Len(Tail(Deferred(n))) = n - 1
      /\ \A i \in 1..(n - 1) : Tail(Deferred(n))[i] = Deferred(n)[i + 1]
  BY <1>1, <1>2
<1>4. \A i \in 1..(n - 1) : Deferred(n)[i + 1] = Deferred(n - 1)[i]
  BY DEF Deferred
<1>5. Deferred(n - 1) \in Seq(Resources) /\ Len(Deferred(n - 1)) = n - 1
  BY DEF AcquireOrder, Deferred, Resources
<1>6. QED
  BY <1>2, <1>3, <1>4, <1>5

-----------------------------------------------------------------------------
(* The decommission consumer.                                              *)

(* Nothing has been delivered, and nothing closed.                         *)
LEMMA EventsInitially == Init => EventsInv
BY EventsAssumption DEF Init, DecommissionInit, EventsInv, DecommissionTypeOK,
                        ClosedEventsAreDone

(* No step of the process, of its decommission consumer or of JetStream    *)
(* closes an event whose work is not done.                                 *)
LEMMA EventsNext ==
  ASSUME EventsInv, [Next]_vars
  PROVE  EventsInv'
<1> USE EventsAssumption DEF EventsInv
<1>1. CASE UNCHANGED decommissionVars
  <2>1. /\ eventState' = eventState /\ decSub' = decSub /\ inbox' = inbox
        /\ event' = event /\ eventPc' = eventPc /\ handled' = handled
    BY <1>1 DEF decommissionVars, clientVars
  <2>2. DecommissionTypeOK'
    BY <2>1 DEF DecommissionTypeOK
  <2>3. ClosedEventsAreDone'
    BY <2>1 DEF ClosedEventsAreDone
  <2>4. QED
    BY <2>1, <2>2, <2>3
<1>2. CASE BeginDecommission
  BY <1>2 DEF BeginDecommission, SubscribeEvents, SubscribeEventsFails,
              DecommissionTypeOK, ClosedEventsAreDone
<1>3. CASE Kill \/ Restart
  <2>1. /\ eventState' = eventState /\ handled' = handled /\ decSub' = "none"
        /\ inbox' = <<>> /\ event' = NoEvent /\ eventPc' = "extract"
    BY <1>3 DEF Kill, Restart, ClientLost
  <2>2. <<>> \in Seq(Events)
    OBVIOUS
  <2>3. DecommissionTypeOK'
    BY <2>1, <2>2 DEF DecommissionTypeOK
  <2>4. ClosedEventsAreDone'
    BY <2>1 DEF ClosedEventsAreDone
  <2>5. QED
    BY <2>1, <2>3, <2>4
<1>4. CASE EventNotAnswered
  BY <1>4 DEF EventNotAnswered, EventAckWait, clientVars, DecommissionTypeOK,
              ClosedEventsAreDone
<1>5. ASSUME NEW e \in Events, DeliverEvent(e) PROVE EventsInv'
  BY <1>5 DEF DeliverEvent, DecommissionTypeOK, ClosedEventsAreDone
<1>6. CASE HandleMsg
  <2>1. Head(inbox) \in Events /\ Tail(inbox) \in Seq(Events)
    BY <1>6 DEF HandleMsg, DecommissionTypeOK
  <2>2. QED
    BY <1>6, <2>1 DEF HandleMsg, DecommissionTypeOK, ClosedEventsAreDone
<1>7. CASE RejectEvent
  BY <1>7 DEF RejectEvent, EventAnswer, DecommissionTypeOK, ClosedEventsAreDone
<1>8. CASE RemoveGateway
  BY <1>8 DEF RemoveGateway, DecommissionTypeOK, ClosedEventsAreDone
<1>9. CASE AckEvent
  BY <1>9 DEF AckEvent, EventAnswer, DecommissionTypeOK, ClosedEventsAreDone
<1>10. CASE DrainEvents
  BY <1>10 DEF DrainEvents, DecommissionTypeOK, ClosedEventsAreDone
<1>11. CASE EventsDrained
  BY <1>11 DEF EventsDrained, DecommissionTypeOK, ClosedEventsAreDone
<1>12. CASE ListenForEvents
  BY <1>5, <1>6, <1>7, <1>8, <1>9, <1>10, <1>11, <1>12
     DEF ListenForEvents, HandleMsgStep
<1>13. \/ UNCHANGED decommissionVars \/ BeginDecommission \/ Kill \/ Restart
       \/ EventNotAnswered \/ ListenForEvents
  <2>1. RunStep => UNCHANGED decommissionVars
    BY DEF RunStep, LoadConfig, BuildDSN, ConnectNATS, ParsePoolConfig,
           NotifyContext, NewPool, ApplyMigrations, NewTracker,
           StartMetricsServer, GoStatements, SubscribeTelemetry,
           TelemetryReturns, CloseResource, DeferredReturns, Exit
  <2>2. BeginTick \/ BeginCache \/ Dispatch \/ WorkerStep \/ PingStarts
        \/ PingEnds \/ Signal => UNCHANGED decommissionVars
    BY DEF BeginTick, BeginCache, Begin, Dispatch, WorkerStep, PingStarts,
           PingEnds, Signal
  <2>3. QED
    BY <2>1, <2>2 DEF Next, vars
<1>14. QED
  BY <1>1, <1>2, <1>3, <1>4, <1>12, <1>13

-----------------------------------------------------------------------------
(* The deferred calls.                                                     *)

(* The five resources are distinct, and there are no others.               *)
LEMMA OrderFacts ==
  /\ \A i \in 1..5 : AcquireOrder[i] \in Resources
  /\ \A i, j \in 1..5 : AcquireOrder[i] = AcquireOrder[j] => i = j
  /\ \A r \in Resources : \E i \in 1..5 : AcquireOrder[i] = r
  /\ AcquireOrder[1] = "nats" /\ AcquireOrder[2] = "signal" /\ AcquireOrder[3] = "pool"
  /\ AcquireOrder[4] = "tracker" /\ AcquireOrder[5] = "http"
BY DEF AcquireOrder, Resources

(* The step of run tells how many resources are open.                      *)
LEMMA OpenAt ==
  ASSUME NEW n \in 0..5, StackOK(n), ~Leaving
  PROVE  /\ mainPc \in {"config", "dsn", "nats"} => n = 0
         /\ mainPc \in {"jetstream", "signal"} => n = 1
         /\ mainPc = "pool" => n = 2
         /\ mainPc \in {"migrations", "tracker"} => n = 3
         /\ mainPc = "http" => n = 4
         /\ mainPc \in {"go", "subscribe", "telemetry"} => n = 5
BY DEF StackOK, StepsWith

(* A step that touches neither the resources nor the deferred calls.       *)
LEMMA StackKept ==
  ASSUME NEW n \in 0..5, StackOK(n), defers' = defers, res' = res,
         Leaving => Leaving',
         mainPc' = mainPc \/ Leaving' \/ mainPc' \in StepsWith[n + 1]
  PROVE  StackOK(n)'
<1>1. (Leaving \/ mainPc \in StepsWith[n + 1])'
  BY DEF StackOK
<1>2. QED
  BY <1>1 DEF StackOK

(* A step of run that acquires the next resource moves the stack on by one *)
(* call.                                                                   *)
LEMMA StackPushed ==
  ASSUME NEW n \in 0..4, StackOK(n), ~Leaving, res \in [Resources -> {"none", "open", "closed"}],
         NEW pc, pc \in StepsWith[n + 2], Acquire(AcquireOrder[n + 1], pc)
  PROVE  StackOK(n + 1)'
<1>1. defers' = Deferred(n + 1)
  BY Push DEF Acquire, StackOK
<1>2. mainPc' \in StepsWith[(n + 1) + 1]
  BY DEF Acquire
<1>3. ASSUME NEW i \in 1..5
      PROVE  res'[AcquireOrder[i]] = IF i = n + 1 THEN "open" ELSE res[AcquireOrder[i]]
  BY OrderFacts DEF Acquire
<1>4. ASSUME NEW i \in 1..5
      PROVE  /\ i <= n + 1 => res'[AcquireOrder[i]] = "open"
             /\ i > n + 1 => res'[AcquireOrder[i]] = "none"
  BY <1>3 DEF StackOK
<1>5. QED
  BY <1>1, <1>2, <1>4 DEF StackOK

(* A step of run defers one call more, a return of a deferred call leaves  *)
(* one less; the resources below the top of the stack stay open.           *)
LEMMA StackNext ==
  ASSUME TypeOK, DefersOK, [Next]_vars
  PROVE  DefersOK'
<1>1. PICK n \in 0..5 : StackOK(n)
  BY DEF DefersOK
<1>2. res \in [Resources -> {"none", "open", "closed"}]
  BY DEF TypeOK
<1>3. ASSUME NEW pc \in StepsWith[n + 1], ~Leaving, Continue(pc) PROVE DefersOK'
  BY <1>1, <1>3, StackKept DEF Continue, DefersOK
<1>4. ASSUME NEW how, Unwind(how) PROVE DefersOK'
  <2>1. StackOK(n)'
    BY <1>1, <1>4, StackKept DEF Unwind, Leaving
  <2>2. QED
    BY <2>1 DEF DefersOK
<1>5. ASSUME NEW how, Die(how) PROVE DefersOK'
  <2>1. StackOK(n)'
    BY <1>1, <1>5, StackKept DEF Die, Leaving
  <2>2. QED
    BY <2>1 DEF DefersOK
<1>6. ASSUME NEW pc, n \in 0..4, ~Leaving, pc \in StepsWith[n + 2],
             Acquire(AcquireOrder[n + 1], pc)
      PROVE  DefersOK'
  <2>1. StackOK(n + 1)' /\ n + 1 \in 0..5
    BY <1>1, <1>2, <1>6, StackPushed
  <2>2. QED
    BY <2>1 DEF DefersOK
<1>7. CASE defers' = defers /\ res' = res /\ mainPc' = mainPc
  <2>1. StackOK(n)'
    BY <1>1, <1>7, StackKept DEF Leaving
  <2>2. QED
    BY <2>1 DEF DefersOK
<1>8. CASE Kill \/ Restart
  <2>1. /\ defers' = <<>> /\ res' = [r \in Resources |-> "none"]
        /\ mainPc' \in {"exited", "config"}
    BY <1>8 DEF Kill, Restart
  <2>2. Deferred(0) = <<>>
    BY DEF Deferred
  <2>3. StackOK(0)'
    BY <2>1, <2>2, OrderFacts DEF StackOK, StepsWith, Leaving
  <2>4. QED
    BY <2>3 DEF DefersOK
<1>9. CASE CloseResource
  <2>1. n \in 1..5 /\ defers = Deferred(n)
    <3>1. defers # <<>> /\ defers = Deferred(n)
      BY <1>1, <1>9 DEF CloseResource, StackOK
    <3>2. Deferred(0) = <<>>
      BY DEF Deferred
    <3>3. QED
      BY <3>1, <3>2
  <2>2. Head(defers) = AcquireOrder[n]
    BY <2>1, Pop
  <2>3. res' = [res EXCEPT ![AcquireOrder[n]] = "closed"]
    BY <1>9, <2>2 DEF CloseResource
  <2>4. defers' = defers /\ mainPc' = "unwind" /\ Leaving /\ Leaving'
    BY <1>9 DEF CloseResource, Leaving
  <2>5. \A i \in 1..5 : res'[AcquireOrder[i]] =
                          IF i = n THEN "closed" ELSE res[AcquireOrder[i]]
    BY <1>2, <2>1, <2>3, OrderFacts
  <2>6. StackOK(n)'
    BY <1>1, <2>1, <2>4, <2>5 DEF StackOK
  <2>7. QED
    BY <2>6 DEF DefersOK
<1>10. CASE DeferredReturns
  <2>1. n \in 1..5 /\ defers = Deferred(n)
    <3>1. defers # <<>> /\ defers = Deferred(n)
      BY <1>1, <1>10 DEF DeferredReturns, StackOK
    <3>2. Deferred(0) = <<>>
      BY DEF Deferred
    <3>3. QED
      BY <3>1, <3>2
  <2>2. res[AcquireOrder[n]] = "closed" /\ defers' = Deferred(n - 1)
    BY <1>10, <2>1, Pop DEF DeferredReturns
  <2>3. res' = res /\ mainPc' = "unwind" /\ Leaving /\ Leaving'
    BY <1>10 DEF DeferredReturns, Leaving
  <2>4. StackOK(n - 1)'
    <3>1. ASSUME NEW i \in 1..5
          PROVE  /\ i < n - 1 => res'[AcquireOrder[i]] = "open"
                 /\ i = n - 1 => res'[AcquireOrder[i]] = "open"
                 /\ i > n - 1 => res'[AcquireOrder[i]] \in {"none", "closed"}
      BY <1>1, <2>1, <2>2, <2>3 DEF StackOK
    <3>2. QED
      BY <2>2, <2>3, <3>1 DEF StackOK
  <2>5. n - 1 \in 0..5
    BY <2>1
  <2>6. QED
    BY <2>4, <2>5 DEF DefersOK
<1>11. CASE LoadConfig \/ BuildDSN
  <2>1. Continue("dsn") \/ Continue("nats") \/ Unwind("error")
    BY <1>11 DEF LoadConfig, BuildDSN
  <2>2. ~Leaving /\ mainPc \in {"config", "dsn"}
    BY <1>11 DEF LoadConfig, BuildDSN, Leaving
  <2>3. "dsn" \in StepsWith[n + 1] /\ "nats" \in StepsWith[n + 1]
    BY <1>1, <2>2, OpenAt DEF StepsWith
  <2>4. QED
    BY <1>3, <1>4, <2>1, <2>2, <2>3
<1>12. CASE ConnectNATS
  <2>1. Acquire("nats", "jetstream") \/ Unwind("error")
    BY <1>12 DEF ConnectNATS
  <2>2. ~Leaving /\ n = 0
    BY <1>1, <1>12, OpenAt DEF ConnectNATS, Leaving
  <2>3. "jetstream" \in StepsWith[n + 2] /\ AcquireOrder[n + 1] = "nats"
    BY <2>2 DEF StepsWith, AcquireOrder
  <2>4. QED
    BY <1>4, <1>6, <2>1, <2>2, <2>3
<1>13. CASE ParsePoolConfig
  <2>1. Continue("signal") \/ Unwind("error")
    BY <1>13 DEF ParsePoolConfig
  <2>2. ~Leaving /\ n = 1
    BY <1>1, <1>13, OpenAt DEF ParsePoolConfig, Leaving
  <2>3. "signal" \in StepsWith[n + 1]
    BY <2>2 DEF StepsWith
  <2>4. QED
    BY <1>3, <1>4, <2>1, <2>2, <2>3
<1>14. CASE NotifyContext
  <2>1. Acquire("signal", "pool")
    BY <1>14 DEF NotifyContext
  <2>2. ~Leaving /\ n = 1
    BY <1>1, <1>14, OpenAt DEF NotifyContext, Leaving
  <2>3. "pool" \in StepsWith[n + 2] /\ AcquireOrder[n + 1] = "signal"
    BY <2>2 DEF StepsWith, AcquireOrder
  <2>4. QED
    BY <1>6, <2>1, <2>2, <2>3
<1>15. CASE NewPool
  <2>1. Acquire("pool", "migrations") \/ Unwind("error")
    BY <1>15 DEF NewPool
  <2>2. ~Leaving /\ n = 2
    BY <1>1, <1>15, OpenAt DEF NewPool, Leaving
  <2>3. "migrations" \in StepsWith[n + 2] /\ AcquireOrder[n + 1] = "pool"
    BY <2>2 DEF StepsWith, AcquireOrder
  <2>4. QED
    BY <1>4, <1>6, <2>1, <2>2, <2>3
<1>16. CASE ApplyMigrations
  <2>1. Continue("migrations") \/ Continue("tracker") \/ Unwind("error")
    BY <1>16 DEF ApplyMigrations
  <2>2. ~Leaving /\ n = 3
    BY <1>1, <1>16, OpenAt DEF ApplyMigrations, Leaving
  <2>3. "migrations" \in StepsWith[n + 1] /\ "tracker" \in StepsWith[n + 1]
    BY <2>2 DEF StepsWith
  <2>4. QED
    BY <1>3, <1>4, <2>1, <2>2, <2>3
<1>17. CASE NewTracker
  <2>1. Acquire("tracker", "http") \/ Unwind("panic")
    BY <1>17 DEF NewTracker
  <2>2. ~Leaving /\ n = 3
    BY <1>1, <1>17, OpenAt DEF NewTracker, Leaving
  <2>3. "http" \in StepsWith[n + 2] /\ AcquireOrder[n + 1] = "tracker"
    BY <2>2 DEF StepsWith, AcquireOrder
  <2>4. QED
    BY <1>4, <1>6, <2>1, <2>2, <2>3
<1>18. CASE StartMetricsServer
  <2>1. Acquire("http", "go")
    BY <1>18 DEF StartMetricsServer
  <2>2. ~Leaving /\ n = 4
    BY <1>1, <1>18, OpenAt DEF StartMetricsServer, Leaving
  <2>3. "go" \in StepsWith[n + 2] /\ AcquireOrder[n + 1] = "http"
    BY <2>2 DEF StepsWith, AcquireOrder
  <2>4. QED
    BY <1>6, <2>1, <2>2, <2>3
<1>19. CASE GoStatements \/ SubscribeTelemetry \/ TelemetryReturns
  <2>1. \/ Continue("subscribe") \/ Continue("telemetry")
        \/ Unwind("error") \/ Unwind("ok")
    BY <1>19 DEF GoStatements, SubscribeTelemetry, TelemetryReturns
  <2>2. ~Leaving /\ n = 5
    BY <1>1, <1>19, OpenAt
       DEF GoStatements, SubscribeTelemetry, TelemetryReturns, Leaving
  <2>3. "subscribe" \in StepsWith[n + 1] /\ "telemetry" \in StepsWith[n + 1]
    BY <2>2 DEF StepsWith
  <2>4. QED
    BY <1>3, <1>4, <2>1, <2>2, <2>3
<1>20. CASE Exit
  <2>1. defers' = defers /\ res' = res /\ Leaving'
    BY <1>20 DEF Exit, Leaving
  <2>2. StackOK(n)'
    BY <1>1, <2>1, StackKept
  <2>3. QED
    BY <2>2 DEF DefersOK
<1>21. CASE BeginTick \/ BeginCache
  BY <1>5, <1>7, <1>21 DEF BeginTick, BeginCache, Begin, mainVars
<1>22. CASE Dispatch
  BY <1>5, <1>7, <1>22 DEF Dispatch
<1>23. CASE \/ BeginDecommission \/ WorkerStep \/ PingStarts \/ PingEnds
            \/ ListenForEvents \/ EventNotAnswered \/ Signal \/ UNCHANGED vars
  BY <1>7, <1>23 DEF BeginDecommission, WorkerStep, PingStarts, PingEnds,
                     ListenForEvents, EventNotAnswered, Signal, vars,
                     serviceVars, mainVars
<1>24. QED
  BY <1>8, <1>9, <1>10, <1>11, <1>12, <1>13, <1>14, <1>15, <1>16, <1>17,
     <1>18, <1>19, <1>20, <1>21, <1>22, <1>23 DEF Next, RunStep

-----------------------------------------------------------------------------
(* Types.                                                                  *)

(* The stack is a sequence of resources.                                   *)
LEMMA DeferredType ==
  ASSUME NEW n \in 0..5
  PROVE  Deferred(n) \in Seq(Resources)
<1>1. \A i \in 1..n : n + 1 - i \in 1..5
  OBVIOUS
<1>2. Deferred(n) \in [1..n -> Resources]
  BY <1>1, OrderFacts DEF Deferred
<1>3. QED
  BY <1>2

(* ctx and the subscription are Boolean: a fact without arithmetic.        *)
LEMMA FlagsNext ==
  ASSUME ctxDone \in BOOLEAN, subscribed \in BOOLEAN, [Next]_vars
  PROVE  ctxDone' \in BOOLEAN /\ subscribed' \in BOOLEAN
<1>1. CASE CloseResource
  BY <1>1 DEF CloseResource, aroundVars
<1>2. CASE DeferredReturns \/ Exit \/ LoadConfig \/ BuildDSN \/ ConnectNATS
  BY <1>2 DEF DeferredReturns, Exit, LoadConfig, BuildDSN, ConnectNATS, aroundVars
<1>3. CASE ParsePoolConfig \/ NotifyContext \/ NewPool \/ ApplyMigrations \/ NewTracker
  BY <1>3 DEF ParsePoolConfig, NotifyContext, NewPool, ApplyMigrations, NewTracker,
              aroundVars
<1>4. CASE \/ StartMetricsServer \/ GoStatements \/ SubscribeTelemetry
           \/ TelemetryReturns
  BY <1>4 DEF StartMetricsServer, GoStatements, SubscribeTelemetry, TelemetryReturns,
              aroundVars
<1>5. CASE \/ BeginTick \/ BeginCache \/ BeginDecommission \/ Dispatch \/ WorkerStep
           \/ PingStarts \/ PingEnds
  BY <1>5 DEF BeginTick, BeginCache, Begin, BeginDecommission, Dispatch, WorkerStep,
              PingStarts, PingEnds, aroundVars
<1>6. CASE \/ ListenForEvents \/ EventNotAnswered \/ Signal \/ Kill \/ Restart
           \/ UNCHANGED vars
  BY <1>6 DEF ListenForEvents, EventNotAnswered, Signal, Kill, Restart, vars,
              serviceVars, aroundVars
<1>7. QED
  BY <1>1, <1>2, <1>3, <1>4, <1>5, <1>6 DEF Next, RunStep

(* Every step keeps the types, and the dispatch queue its capacity.        *)
LEMMA TypeNext ==
  ASSUME TypeOK, DefersOK, ConfigOK, TrackerOK, EventsInv, [Next]_vars
  PROVE  TypeOK'
<1>1. defers' \in Seq(Resources)
  <2>1. DefersOK'
    BY StackNext
  <2>2. PICK n \in 0..5 : defers' = Deferred(n)
    BY <2>1 DEF DefersOK, StackOK
  <2>3. QED
    BY <2>2, DeferredType
<1>2. DecommissionTypeOK'
  BY EventsNext DEF EventsInv
<1>3. ctxDone' \in BOOLEAN /\ subscribed' \in BOOLEAN
  BY FlagsNext DEF TypeOK
<1> USE ServiceAssumption, <1>1, <1>2, <1>3 DEF TypeOK, trackerVars, aroundVars
<1>4. CASE LoadConfig
  <2>1. env \in Environment
    BY <1>4 DEF LoadConfig, ConfigOK
  <2>2. Load(env).cfg \in [NumericKeys -> Int] /\ UsedKeys \subseteq NumericKeys
    BY <2>1, LoadType DEF UsedKeys, NumericKeys, Numeric
  <2>3. cfg' = cfg \/ cfg' \in [UsedKeys -> Int]
    BY <1>4, <2>2 DEF LoadConfig
  <2>4. jobs' = jobs /\ (jobs > 0 => cfg' = cfg)
    <3>1. mainPc = "config" => res["tracker"] = "none"
      <4>1. PICK n \in 0..5 : StackOK(n)
        BY DEF DefersOK
      <4>2. CASE mainPc = "config"
        <5>1. ~Leaving /\ n = 0
          BY <4>1, <4>2, OpenAt DEF Leaving
        <5>2. QED
          BY <4>1, <5>1, OrderFacts DEF StackOK
      <4>3. QED
        BY <4>2
    <3>2. QED
      BY <1>4, <3>1 DEF LoadConfig, TrackerOK
  <2>5. QED
    BY <1>4, <2>3, <2>4 DEF LoadConfig, Continue, Unwind
<1>5. CASE BuildDSN \/ ParsePoolConfig \/ ApplyMigrations \/ GoStatements
  BY <1>5 DEF BuildDSN, ParsePoolConfig, ApplyMigrations, GoStatements, Continue, Unwind
<1>6. CASE ConnectNATS \/ NotifyContext \/ NewPool \/ StartMetricsServer
  BY <1>6 DEF ConnectNATS, NotifyContext, NewPool, StartMetricsServer, Acquire, Unwind
<1>7. CASE NewTracker
  BY <1>7 DEF NewTracker, Acquire, Unwind
<1>8. CASE SubscribeTelemetry \/ TelemetryReturns
  BY <1>8 DEF SubscribeTelemetry, TelemetryReturns, Continue, Unwind
<1>9. CASE CloseResource \/ DeferredReturns \/ Exit
  BY <1>9 DEF CloseResource, DeferredReturns, Exit
<1>10. CASE BeginTick \/ BeginCache
  <2>1. /\ launched' \subseteq launched /\ UNCHANGED <<env, cfg, res>>
        /\ \/ mainPc' = mainPc /\ outcome' = outcome
           \/ mainPc' = "exited" /\ outcome' = "crash"
    BY <1>10 DEF BeginTick, BeginCache, Begin, Die, mainVars
  <2>2. UNCHANGED <<worker, jobs, pings, restarts>>
    BY <1>10 DEF BeginTick, BeginCache, Begin
  <2>3. QED
    BY <2>1, <2>2
<1>11. CASE BeginDecommission
  BY <1>11 DEF BeginDecommission, mainVars
<1>12. CASE Dispatch
  <2>1. CASE res["tracker"] = "closed"
    BY <1>12, <2>1 DEF Dispatch, Die
  <2>2. CASE res["tracker"] = "open"
    <3>1. cfg \in [UsedKeys -> Int] /\ "GATEWAY_BUFFER_SIZE" \in UsedKeys
      BY <2>2 DEF TrackerOK, ConfigOK, UsedKeys
    <3>2. cfg["GATEWAY_BUFFER_SIZE"] \in Int
      BY <3>1
    <3>3. jobs' \in Nat /\ (jobs' > 0 => jobs' <= cfg["GATEWAY_BUFFER_SIZE"])
      BY <1>12, <2>2, <3>2 DEF Dispatch, QueueHasRoom
    <3>4. QED
      BY <1>12, <2>2, <3>3 DEF Dispatch
  <2>3. QED
    BY <1>12, <2>1, <2>2 DEF Dispatch
<1>13. CASE WorkerStep
  <2>1. cfg["GATEWAY_BUFFER_SIZE"] \in Int
    <3>1. worker # "none"
      BY <1>13 DEF WorkerStep
    <3>2. cfg \in [UsedKeys -> Int] /\ "GATEWAY_BUFFER_SIZE" \in UsedKeys
      BY <3>1 DEF ConfigOK, UsedKeys
    <3>3. QED
      BY <3>2
  <2>2. jobs' \in Nat /\ (jobs' > 0 => jobs' <= cfg["GATEWAY_BUFFER_SIZE"])
    BY <1>13, <2>1 DEF WorkerStep
  <2>3. QED
    BY <1>13, <2>2 DEF WorkerStep, mainVars
<1>14. CASE PingStarts \/ PingEnds
  <2>1. pings' \in 0..MaxPings
    BY <1>14 DEF PingStarts, PingEnds
  <2>2. UNCHANGED <<env, cfg, mainPc, outcome, res, launched, worker, jobs, restarts>>
    BY <1>14 DEF PingStarts, PingEnds, mainVars
  <2>3. QED
    BY <2>1, <2>2
<1>15. CASE ListenForEvents \/ EventNotAnswered
  <2>1. UNCHANGED <<env, cfg, mainPc, outcome, res, launched, worker, jobs, pings,
                    restarts>>
    BY <1>15 DEF ListenForEvents, EventNotAnswered, serviceVars, mainVars
  <2>2. QED
    BY <2>1
<1>16. CASE Signal
  BY <1>16 DEF Signal, mainVars
<1>17. CASE Kill
  <2>1. jobs' \in Nat /\ ~(jobs' > 0) /\ pings' \in 0..MaxPings
    BY <1>17 DEF Kill
  <2>2. res' \in [Resources -> {"none", "open", "closed"}]
    BY <1>17 DEF Kill
  <2>3. QED
    BY <1>17, <2>1, <2>2 DEF Kill
<1>18. CASE Restart
  <2>1. jobs' \in Nat /\ ~(jobs' > 0) /\ pings' \in 0..MaxPings
        /\ restarts' \in 0..MaxRestarts
    BY <1>18 DEF Restart
  <2>2. res' \in [Resources -> {"none", "open", "closed"}] /\ env' \in Environments
    BY <1>18 DEF Restart
  <2>3. QED
    BY <1>18, <2>1, <2>2 DEF Restart
<1>19. CASE UNCHANGED vars
  BY <1>19 DEF vars, serviceVars, mainVars
<1>20. QED
  BY <1>4, <1>5, <1>6, <1>7, <1>8, <1>9, <1>10, <1>11, <1>12, <1>13, <1>14,
     <1>15, <1>16, <1>17, <1>18, <1>19 DEF Next, RunStep

-----------------------------------------------------------------------------
(* How a process ends, what it is configured with, and what it waits for.  *)

(* A process is running until it leaves, and it is gone by itself only     *)
(* when no deferred call is left.                                          *)
LEMMA OutcomeNext ==
  ASSUME OutcomeOK, [Next]_vars
  PROVE  OutcomeOK'
<1> USE DEF OutcomeOK, Leaving
<1>1. CASE LoadConfig \/ BuildDSN \/ ParsePoolConfig \/ ApplyMigrations
  BY <1>1 DEF LoadConfig, BuildDSN, ParsePoolConfig, ApplyMigrations, Continue, Unwind
<1>2. CASE ConnectNATS \/ NotifyContext \/ NewPool \/ NewTracker \/ StartMetricsServer
  BY <1>2 DEF ConnectNATS, NotifyContext, NewPool, NewTracker, StartMetricsServer,
              Acquire, Unwind
<1>3. CASE GoStatements \/ SubscribeTelemetry \/ TelemetryReturns
  BY <1>3 DEF GoStatements, SubscribeTelemetry, TelemetryReturns, Continue, Unwind
<1>4. CASE CloseResource \/ DeferredReturns \/ Exit
  BY <1>4 DEF CloseResource, DeferredReturns, Exit
<1>5. CASE BeginTick \/ BeginCache \/ Dispatch
  BY <1>5 DEF BeginTick, BeginCache, Begin, Dispatch, Die, mainVars
<1>6. CASE Kill \/ Restart
  BY <1>6 DEF Kill, Restart
<1>7. CASE \/ BeginDecommission \/ WorkerStep \/ PingStarts \/ PingEnds
           \/ ListenForEvents \/ EventNotAnswered \/ Signal \/ UNCHANGED vars
  <2>1. UNCHANGED <<mainPc, outcome, defers>>
    BY <1>7 DEF BeginDecommission, WorkerStep, PingStarts, PingEnds, ListenForEvents,
                EventNotAnswered, Signal, vars, serviceVars, mainVars
  <2>2. QED
    BY <2>1
<1>8. QED
  BY <1>1, <1>2, <1>3, <1>4, <1>5, <1>6, <1>7 DEF Next, RunStep

(* Every value of the configuration is there before a step of run, a       *)
(* goroutine or the worker looks at it.                                    *)
LEMMA ConfigNext ==
  ASSUME ConfigOK, DefersOK, TrackerOK, [Next]_vars
  PROVE  ConfigOK'
<1> USE DEF ConfigOK, Leaving
<1>1. CASE LoadConfig
  <2>1. env \in Environment
    BY <1>1, ServiceAssumption DEF LoadConfig
  <2>2. Load(env).cfg \in [NumericKeys -> Int] /\ UsedKeys \subseteq NumericKeys
    BY <2>1, LoadType DEF UsedKeys, NumericKeys, Numeric
  <2>3. worker' = "none"
    <3>1. PICK n \in 0..5 : StackOK(n)
      BY DEF DefersOK
    <3>2. n = 0
      BY <1>1, <3>1, OpenAt DEF LoadConfig
    <3>3. res["tracker"] = "none"
      BY <1>1, <3>1, <3>2, OrderFacts DEF StackOK, LoadConfig
    <3>4. QED
      BY <1>1, <3>3 DEF TrackerOK, LoadConfig, trackerVars
  <2>4. QED
    BY <1>1, <2>2, <2>3 DEF LoadConfig, Continue, Unwind
<1>2. CASE BuildDSN \/ ParsePoolConfig \/ ApplyMigrations \/ GoStatements
  BY <1>2 DEF BuildDSN, ParsePoolConfig, ApplyMigrations, GoStatements, Continue,
              Unwind, trackerVars
<1>3. CASE ConnectNATS \/ NotifyContext \/ NewPool \/ NewTracker \/ StartMetricsServer
  BY <1>3 DEF ConnectNATS, NotifyContext, NewPool, NewTracker, StartMetricsServer,
              Acquire, Unwind, trackerVars
<1>4. CASE \/ SubscribeTelemetry \/ TelemetryReturns \/ CloseResource
           \/ DeferredReturns \/ Exit
  BY <1>4 DEF SubscribeTelemetry, TelemetryReturns, CloseResource, DeferredReturns,
              Exit, Continue, Unwind, trackerVars
<1>5. CASE BeginTick \/ BeginCache
  BY <1>5 DEF BeginTick, BeginCache, Begin, Die, mainVars, trackerVars
<1>6. CASE Dispatch
  BY <1>6 DEF Dispatch, Die, trackerVars, TrackerOK
<1>7. CASE WorkerStep
  BY <1>7 DEF WorkerStep, mainVars
<1>8. CASE Kill \/ Restart
  BY <1>8, ServiceAssumption DEF Kill, Restart
<1>9. CASE \/ BeginDecommission \/ PingStarts \/ PingEnds \/ ListenForEvents
           \/ EventNotAnswered \/ Signal \/ UNCHANGED vars
  <2>1. UNCHANGED <<env, cfg, mainPc, worker>>
    BY <1>9 DEF BeginDecommission, PingStarts, PingEnds, ListenForEvents,
                EventNotAnswered, Signal, vars, serviceVars, mainVars, trackerVars
  <2>2. QED
    BY <2>1
<1>10. QED
  BY <1>1, <1>2, <1>3, <1>4, <1>5, <1>6, <1>7, <1>8, <1>9 DEF Next, RunStep

(* What becomes of a deferred call when another one is deferred, and when  *)
(* the latest one returns.                                                 *)
LEMMA AwaitedPushed ==
  ASSUME defers \in Seq(Resources), NEW r \in Resources, defers' = <<r>> \o defers
  PROVE  Awaited(r)' /\ \A q \in Resources : Awaited(q) => Awaited(q)'
<1>1. /\ Len(defers') = Len(defers) + 1 /\ defers'[1] = r
      /\ \A i \in 1..Len(defers) : defers'[i + 1] = defers[i]
  OBVIOUS
<1>2. 1 \in 1..Len(defers') /\ \A i \in 1..Len(defers) : i + 1 \in 1..Len(defers')
  BY <1>1
<1>3. QED
  BY <1>1, <1>2 DEF Awaited

(* A call that is still deferred stays so when another one returns.        *)
LEMMA AwaitedPopped ==
  ASSUME defers \in Seq(Resources), defers # <<>>, defers' = Tail(defers),
         NEW r \in Resources, Awaited(r), Head(defers) # r
  PROVE  Awaited(r)'
<1>1. PICK i \in 1..Len(defers) : defers[i] = r
  BY DEF Awaited
<1>2. i # 1
  BY <1>1
<1>3. i - 1 \in 1..Len(defers') /\ defers'[i - 1] = r
  BY <1>1, <1>2
<1>4. QED
  BY <1>3 DEF Awaited

(* A resource that is open is waiting to be closed.                        *)
LEMMA OpenIsAwaited ==
  ASSUME DefersOK, NEW r \in Resources, res[r] = "open"
  PROVE  Awaited(r)
<1>1. PICK n \in 0..5 : StackOK(n)
  BY DEF DefersOK
<1>2. PICK i \in 1..5 : AcquireOrder[i] = r
  BY OrderFacts
<1>3. i <= n
  BY <1>1, <1>2 DEF StackOK
<1>4. n + 1 - i \in 1..n /\ n + 1 - (n + 1 - i) = i
  BY <1>3
<1>5. Len(defers) = n /\ defers[n + 1 - i] = r
  BY <1>1, <1>2, <1>4 DEF StackOK, Deferred
<1>6. QED
  BY <1>4, <1>5 DEF Awaited

(* No step of run before it unwinds drops a deferred call.                 *)
LEMMA RunStepKeeps ==
  ASSUME TypeOK, RunStep, ~CloseResource, ~DeferredReturns, NEW r \in Resources,
         Awaited(r)
  PROVE  Awaited(r)'
<1>1. CASE defers' = defers
  BY <1>1 DEF Awaited
<1>2. ASSUME NEW q \in Resources, NEW pc, Acquire(q, pc) PROVE Awaited(r)'
  BY <1>2, AwaitedPushed DEF Acquire, TypeOK
<1>3. CASE \/ LoadConfig \/ BuildDSN \/ ParsePoolConfig \/ ApplyMigrations
           \/ GoStatements \/ SubscribeTelemetry \/ TelemetryReturns \/ Exit
  BY <1>1, <1>3 DEF LoadConfig, BuildDSN, ParsePoolConfig, ApplyMigrations, GoStatements,
                    SubscribeTelemetry, TelemetryReturns, Exit, Continue, Unwind
<1>4. CASE ConnectNATS \/ NotifyContext \/ NewPool \/ NewTracker \/ StartMetricsServer
  <2>1. \/ Unwind("error") \/ Unwind("panic")
        \/ Acquire("nats", "jetstream") \/ Acquire("signal", "pool")
        \/ Acquire("pool", "migrations") \/ Acquire("tracker", "http")
        \/ Acquire("http", "go")
    BY <1>4 DEF ConnectNATS, NotifyContext, NewPool, NewTracker, StartMetricsServer
  <2>2. /\ "nats" \in Resources /\ "signal" \in Resources /\ "pool" \in Resources
        /\ "tracker" \in Resources /\ "http" \in Resources
    BY DEF Resources
  <2>3. CASE Unwind("error") \/ Unwind("panic")
    BY <1>1, <2>3 DEF Unwind
  <2>4. QED
    BY <1>2, <2>1, <2>2, <2>3
<1>5. QED
  BY <1>3, <1>4 DEF RunStep

(* The worker outlives every use of its queue, and Close waits for it.     *)
LEMMA TrackerNext ==
  ASSUME TypeOK, TrackerOK, [Next]_vars
  PROVE  TrackerOK'
<1> DEFINE kept == /\ worker' = worker /\ jobs' = jobs
                   /\ res'["tracker"] = res["tracker"]
                   /\ Awaited("tracker") => Awaited("tracker")'
<1>a. "tracker" \in Resources
  BY DEF Resources
<1>1. ASSUME kept PROVE TrackerOK'
  BY <1>1 DEF TrackerOK
<1>2. CASE defers' = defers /\ res' = res /\ worker' = worker /\ jobs' = jobs
  <2>1. Awaited("tracker") => Awaited("tracker")'
    BY <1>2 DEF Awaited
  <2>2. QED
    BY <1>1, <1>2, <2>1
<1>3. CASE RunStep /\ ~CloseResource /\ ~DeferredReturns /\ ~NewTracker
  <2>1. worker' = worker /\ jobs' = jobs
    BY <1>3 DEF RunStep, LoadConfig, BuildDSN, ConnectNATS, ParsePoolConfig,
           NotifyContext, NewPool, ApplyMigrations, StartMetricsServer,
           GoStatements, SubscribeTelemetry, TelemetryReturns, Exit, trackerVars
  <2>2. res'["tracker"] = res["tracker"]
    <3>1. res \in [Resources -> {"none", "open", "closed"}]
      BY DEF TypeOK
    <3>2. QED
      BY <1>3, <1>a, <3>1 DEF RunStep, LoadConfig, BuildDSN, ConnectNATS,
             ParsePoolConfig, NotifyContext, NewPool, ApplyMigrations,
             StartMetricsServer, GoStatements, SubscribeTelemetry,
             TelemetryReturns, Exit, Continue, Unwind, Acquire
  <2>3. Awaited("tracker") => Awaited("tracker")'
    BY <1>3, <1>a, RunStepKeeps
  <2>4. QED
    BY <1>1, <2>1, <2>2, <2>3
<1>4. CASE NewTracker
  <2>1. CASE Unwind("panic") /\ UNCHANGED worker
    BY <1>2, <1>4, <2>1 DEF NewTracker, Unwind
  <2>2. CASE Acquire("tracker", "http") /\ worker' = "idle"
    <3>1. Awaited("tracker")'
      BY <2>2, <1>a, AwaitedPushed DEF Acquire, TypeOK
    <3>2. res'["tracker"] = "open"
      BY <2>2, <1>a DEF Acquire, TypeOK
    <3>3. QED
      BY <2>2, <3>1, <3>2 DEF TrackerOK
  <2>3. QED
    BY <1>4, <2>1, <2>2 DEF NewTracker
<1>5. CASE CloseResource
  <2>1. /\ worker' = worker /\ jobs' = jobs /\ defers' = defers
        /\ defers # <<>> /\ res[Head(defers)] = "open"
        /\ res' = [res EXCEPT ![Head(defers)] = "closed"]
    BY <1>5 DEF CloseResource, trackerVars
  <2>2. \/ res'["tracker"] = res["tracker"]
        \/ res["tracker"] = "open" /\ res'["tracker"] = "closed"
    BY <2>1, <1>a DEF TypeOK
  <2>3. Awaited("tracker") => Awaited("tracker")'
    BY <2>1 DEF Awaited
  <2>4. QED
    BY <2>1, <2>2, <2>3 DEF TrackerOK
<1>6. CASE DeferredReturns
  <2>1. /\ worker' = worker /\ jobs' = jobs /\ res' = res
        /\ defers # <<>> /\ defers' = Tail(defers) /\ ~Waits(Head(defers))
    BY <1>6 DEF DeferredReturns, trackerVars
  <2>2. CASE Head(defers) = "tracker"
    <3>1. worker = "done"
      BY <2>1, <2>2 DEF Waits
    <3>2. QED
      BY <2>1, <3>1 DEF TrackerOK
  <2>3. CASE Head(defers) # "tracker"
    <3>1. Awaited("tracker") => Awaited("tracker")'
      BY <2>1, <2>3, <1>a, AwaitedPopped DEF TypeOK
    <3>2. QED
      BY <1>1, <2>1, <3>1
  <2>4. QED
    BY <2>2, <2>3
<1>7. CASE Dispatch
  <2>1. CASE res["tracker"] = "closed"
    BY <1>2, <1>7, <2>1 DEF Dispatch, Die, trackerVars
  <2>2. CASE res["tracker"] = "open"
    <3>1. /\ defers' = defers /\ res' = res /\ worker \in {"idle", "sending"}
          /\ worker' \in {"idle", "sending"}
      BY <1>7, <2>2 DEF Dispatch, TrackerOK, TypeOK
    <3>2. Awaited("tracker")'
      BY <3>1 DEF TrackerOK, Awaited
    <3>3. QED
      BY <2>2, <3>1, <3>2 DEF TrackerOK
  <2>3. QED
    BY <1>7, <2>1, <2>2 DEF Dispatch
<1>8. CASE WorkerStep
  <2>1. defers' = defers /\ res' = res
    BY <1>8 DEF WorkerStep, mainVars
  <2>2. Awaited("tracker") => Awaited("tracker")'
    BY <2>1 DEF Awaited
  <2>3. QED
    BY <1>8, <2>1, <2>2 DEF WorkerStep, TrackerOK
<1>9. CASE Kill \/ Restart
  <2>1. worker' = "none" /\ jobs' = 0 /\ res'["tracker"] = "none"
    BY <1>9, <1>a DEF Kill, Restart
  <2>2. QED
    BY <2>1 DEF TrackerOK
<1>10. CASE BeginTick \/ BeginCache
  BY <1>2, <1>10 DEF BeginTick, BeginCache, Begin, Die, mainVars, trackerVars
<1>11. CASE \/ BeginDecommission \/ PingStarts \/ PingEnds \/ ListenForEvents
            \/ EventNotAnswered \/ Signal \/ UNCHANGED vars
  BY <1>2, <1>11 DEF BeginDecommission, PingStarts, PingEnds, ListenForEvents,
         EventNotAnswered, Signal, vars, serviceVars, mainVars, trackerVars
<1>12. QED
  BY <1>3, <1>4, <1>5, <1>6, <1>7, <1>8, <1>9, <1>10, <1>11 DEF Next, RunStep

(* Handlers start while the server is open, and Shutdown waits for them.   *)
LEMMA PingsNext ==
  ASSUME TypeOK, DefersOK, PingsOK, [Next]_vars
  PROVE  PingsOK'
<1>a. "http" \in Resources
  BY DEF Resources
<1>1. ASSUME pings' > 0 => pings > 0, Awaited("http") => Awaited("http")'
      PROVE  PingsOK'
  BY <1>1 DEF PingsOK
<1>2. CASE defers' = defers /\ pings' = pings
  BY <1>1, <1>2 DEF Awaited
<1>3. CASE RunStep /\ ~CloseResource /\ ~DeferredReturns
  <2>1. pings' = pings
    BY <1>3 DEF RunStep, LoadConfig, BuildDSN, ConnectNATS, ParsePoolConfig,
           NotifyContext, NewPool, ApplyMigrations, NewTracker, StartMetricsServer,
           GoStatements, SubscribeTelemetry, TelemetryReturns, Exit, aroundVars
  <2>2. Awaited("http") => Awaited("http")'
    BY <1>3, <1>a, RunStepKeeps
  <2>3. QED
    BY <1>1, <2>1, <2>2
<1>4. CASE DeferredReturns
  <2>1. /\ pings' = pings /\ defers # <<>> /\ defers' = Tail(defers)
        /\ ~Waits(Head(defers))
    BY <1>4 DEF DeferredReturns, aroundVars
  <2>2. CASE Head(defers) = "http"
    BY <2>1, <2>2 DEF Waits, PingsOK
  <2>3. CASE Head(defers) # "http"
    <3>1. Awaited("http") => Awaited("http")'
      BY <2>1, <2>3, <1>a, AwaitedPopped DEF TypeOK
    <3>2. QED
      BY <1>1, <2>1, <3>1
  <2>4. QED
    BY <2>2, <2>3
<1>5. CASE PingStarts
  <2>1. Awaited("http")
    BY <1>5, <1>a, OpenIsAwaited DEF PingStarts
  <2>2. Awaited("http")'
    BY <1>5, <2>1 DEF PingStarts, mainVars, Awaited
  <2>3. QED
    BY <2>2 DEF PingsOK
<1>6. CASE PingEnds
  <2>1. defers' = defers /\ pings > 0
    BY <1>6 DEF PingEnds, mainVars
  <2>2. QED
    BY <1>1, <2>1 DEF Awaited
<1>7. CASE Kill \/ Restart
  BY <1>7 DEF Kill, Restart, PingsOK
<1>8. CASE BeginTick \/ BeginCache \/ Dispatch \/ CloseResource
  BY <1>2, <1>8 DEF BeginTick, BeginCache, Begin, Die, Dispatch, CloseResource,
                    mainVars, aroundVars
<1>9. CASE \/ BeginDecommission \/ WorkerStep \/ ListenForEvents
           \/ EventNotAnswered \/ Signal \/ UNCHANGED vars
  BY <1>2, <1>9 DEF BeginDecommission, WorkerStep, ListenForEvents,
         EventNotAnswered, Signal, vars, serviceVars, mainVars, aroundVars
<1>10. QED
  BY <1>3, <1>4, <1>5, <1>6, <1>7, <1>8, <1>9 DEF Next, RunStep

-----------------------------------------------------------------------------
(* Migrations.                                                             *)

(* A file that is executed follows those that precede it in the database,  *)
(* and the rest of the files remains.                                      *)
LEMMA ExecFileKeepsOrder ==
  ASSUME MigratingOK, SchemaInOrder, mainPc = "migrations",
         mainPc' \in {"migrations", "unwind"}, ExecFile
  PROVE  MigratingOK' /\ SchemaInOrder'
<1> DEFINE m == Len(remaining)
           f == remaining[1]
<1>1. /\ schema \subseteq FileNames /\ remaining \in Seq(FileNames)
      /\ \A g \in FileNames : g \in schema \/ \E j \in 1..m : remaining[j] = g
      /\ \A i \in 1..m : \A g \in FileNames :
           g < remaining[i] => g \in schema \/ \E j \in 1..(i - 1) : remaining[j] = g
  BY DEF MigratingOK
<1>2. /\ remaining # <<>> /\ remaining' = Tail(remaining)
      /\ schema' = schema \cup {f} /\ FileNames' = FileNames
  BY DEF ExecFile, FileNames
<1>3. /\ m \in Nat \ {0} /\ f \in FileNames /\ remaining' \in Seq(FileNames)
      /\ Len(remaining') = m - 1
      /\ \A i \in 1..(m - 1) : remaining'[i] = remaining[i + 1]
  BY <1>1, <1>2
<1>4. ASSUME NEW k \in 0..m, NEW g \in FileNames,
             g \in schema \/ \E j \in 1..k : remaining[j] = g
      PROVE  g \in schema' \/ \E j \in 1..(k - 1) : remaining'[j] = g
  <2>1. CASE g \in schema \/ g = f
    BY <1>2, <2>1
  <2>2. CASE g \notin schema /\ g # f
    <3>1. PICK j \in 1..k : remaining[j] = g
      BY <1>4, <2>2
    <3>2. j # 1 /\ j \in 2..k
      BY <2>2, <3>1
    <3>3. j - 1 \in 1..(k - 1) /\ j - 1 \in 1..(m - 1) /\ (j - 1) + 1 = j
      BY <1>3, <3>2
    <3>4. remaining'[j - 1] = g
      BY <1>3, <3>1, <3>3
    <3>5. QED
      BY <3>3, <3>4
  <2>3. QED
    BY <2>1, <2>2
<1>5. ASSUME NEW g \in FileNames
      PROVE  g \in schema' \/ \E j \in 1..Len(remaining') : remaining'[j] = g
  BY <1>1, <1>3, <1>4
<1>6. ASSUME NEW i \in 1..Len(remaining'), NEW g \in FileNames, g < remaining'[i]
      PROVE  g \in schema' \/ \E j \in 1..(i - 1) : remaining'[j] = g
  <2>1. i + 1 \in 1..m /\ i \in 0..m /\ (i + 1) - 1 = i /\ g < remaining[i + 1]
    BY <1>3, <1>6
  <2>2. g \in schema \/ \E j \in 1..i : remaining[j] = g
    BY <1>1, <2>1
  <2>3. QED
    BY <1>4, <2>1, <2>2
<1>7. MigratingOK'
  BY <1>1, <1>2, <1>3, <1>5, <1>6 DEF MigratingOK
<1>8. ASSUME NEW h \in schema', NEW g \in FileNames, g < h PROVE g \in schema'
  <2>1. CASE h = f
    <3>1. g \in schema \/ \E j \in 1..(1 - 1) : remaining[j] = g
      BY <1>1, <1>3, <1>8, <2>1
    <3>2. QED
      BY <1>2, <3>1
  <2>2. CASE h \in schema
    BY <1>2, <1>8, <2>2 DEF SchemaInOrder
  <2>3. QED
    BY <1>2, <2>1, <2>2
<1>9. QED
  BY <1>2, <1>7, <1>8 DEF SchemaInOrder

(* The goroutines start behind the last file.                              *)
LEMMA MigratingNext ==
  ASSUME MigratingOK, StartsOnFullSchema, [Next]_vars
  PROVE  MigratingOK' /\ StartsOnFullSchema'
<1> DEFINE later == {"tracker", "http", "go", "subscribe", "telemetry"}
           full == FileNames \subseteq schema
<1>1. FileNames' = FileNames
  BY DEF FileNames
<1>2. ASSUME schema' = schema, remaining' = remaining,
             mainPc' = "migrations" => mainPc = "migrations",
             mainPc' \in later => full
      PROVE  MigratingOK'
  BY <1>1, <1>2 DEF MigratingOK
<1>3. ASSUME schema' = schema, launched' # {} \/ subscribed' => full
      PROVE  StartsOnFullSchema'
  BY <1>1, <1>3 DEF StartsOnFullSchema, SchemaInOrder
<1>4. ASSUME schema' = schema, launched' \subseteq launched, subscribed' = subscribed
      PROVE  StartsOnFullSchema'
  BY <1>3, <1>4 DEF StartsOnFullSchema
<1>5. mainPc \in later => full
  BY DEF MigratingOK
<1>6. ASSUME UNCHANGED migrationVars, launched' \subseteq launched,
             subscribed' = subscribed, mainPc' # "migrations",
             mainPc' \in later => mainPc \in later
      PROVE  MigratingOK' /\ StartsOnFullSchema'
  BY <1>2, <1>4, <1>5, <1>6 DEF migrationVars
<1>7. CASE /\ UNCHANGED migrationVars /\ launched' \subseteq launched
           /\ subscribed' = subscribed /\ mainPc' = mainPc
  BY <1>2, <1>4, <1>5, <1>7 DEF migrationVars
<1>8. CASE LoadConfig \/ BuildDSN \/ ParsePoolConfig
  BY <1>6, <1>8 DEF LoadConfig, BuildDSN, ParsePoolConfig, Continue, Unwind, aroundVars
<1>9. CASE ConnectNATS \/ NotifyContext
  BY <1>6, <1>9 DEF ConnectNATS, NotifyContext, Acquire, Unwind, aroundVars
<1>10. CASE NewPool
  <2>1. launched' = launched /\ subscribed' = subscribed /\ schema' = schema
    BY <1>10 DEF NewPool, aroundVars, ApplyStart, migrationVars
  <2>2. StartsOnFullSchema'
    BY <1>4, <2>1
  <2>3. CASE Unwind("error") /\ UNCHANGED migrationVars
    BY <1>2, <2>2, <2>3 DEF Unwind, migrationVars
  <2>4. CASE mainPc' = "migrations" /\ ApplyStart
    <3>1. remaining' = Files /\ schema' = schema
      BY <2>4 DEF ApplyStart
    <3>2. QED
      BY <1>1, <2>2, <2>4, <3>1, FilesInOrder DEF MigratingOK
  <2>5. QED
    BY <1>10, <2>3, <2>4 DEF NewPool, Acquire
<1>11. CASE ApplyMigrations
  <2>1. launched' = launched /\ subscribed' = subscribed /\ mainPc = "migrations"
    BY <1>11 DEF ApplyMigrations, aroundVars
  <2>2. CASE ExecFile /\ (Continue(mainPc) \/ Unwind("error"))
    <3>1. MigratingOK' /\ SchemaInOrder'
      BY <2>1, <2>2, ExecFileKeepsOrder DEF Continue, Unwind, StartsOnFullSchema
    <3>2. schema \subseteq schema'
      BY <2>2 DEF ExecFile
    <3>3. QED
      BY <1>1, <2>1, <3>1, <3>2 DEF StartsOnFullSchema
  <2>3. CASE Unwind("error") /\ UNCHANGED migrationVars
    BY <1>2, <1>4, <2>1, <2>3 DEF Unwind, migrationVars
  <2>4. CASE remaining = <<>> /\ Continue("tracker") /\ UNCHANGED migrationVars
    <3>1. full
      BY <2>1, <2>4 DEF MigratingOK
    <3>2. QED
      BY <1>2, <1>4, <2>1, <2>4, <3>1 DEF Continue, migrationVars
  <2>5. QED
    BY <1>11, <2>2, <2>3, <2>4 DEF ApplyMigrations
<1>12. CASE NewTracker \/ StartMetricsServer
  BY <1>6, <1>12 DEF NewTracker, StartMetricsServer, Acquire, Unwind, aroundVars
<1>13. CASE GoStatements
  <2>1. /\ mainPc = "go" /\ mainPc' = "subscribe" /\ schema' = schema
        /\ remaining' = remaining
    BY <1>13 DEF GoStatements, Continue, migrationVars
  <2>2. QED
    BY <1>2, <1>3, <1>5, <2>1
<1>14. CASE SubscribeTelemetry
  <2>1. /\ mainPc = "subscribe" /\ mainPc' \in {"telemetry", "unwind"}
        /\ schema' = schema /\ remaining' = remaining
    BY <1>14 DEF SubscribeTelemetry, Continue, Unwind, migrationVars
  <2>2. QED
    BY <1>2, <1>3, <1>5, <2>1
<1>15. CASE TelemetryReturns \/ CloseResource \/ DeferredReturns \/ Exit
  BY <1>6, <1>15 DEF TelemetryReturns, CloseResource, DeferredReturns, Exit, Unwind,
                     aroundVars
<1>16. CASE BeginTick \/ BeginCache
  <2>1. /\ UNCHANGED migrationVars /\ launched' \subseteq launched
        /\ subscribed' = subscribed /\ (mainPc' = mainPc \/ mainPc' = "exited")
    BY <1>16 DEF BeginTick, BeginCache, Begin, Die, mainVars
  <2>2. QED
    BY <1>6, <1>7, <2>1
<1>17. CASE Dispatch
  <2>1. /\ UNCHANGED migrationVars /\ launched' = launched
        /\ subscribed' = subscribed /\ (mainPc' = mainPc \/ mainPc' = "exited")
    BY <1>17 DEF Dispatch, Die, aroundVars
  <2>2. QED
    BY <1>6, <1>7, <2>1
<1>18. CASE Kill \/ Restart
  <2>1. /\ schema' = schema /\ launched' = {} /\ subscribed' = FALSE
        /\ mainPc' \in {"exited", "config"}
    BY <1>18 DEF Kill, Restart
  <2>2. MigratingOK'
    BY <1>1, <2>1 DEF MigratingOK
  <2>3. QED
    BY <1>3, <2>1, <2>2
<1>19. CASE \/ BeginDecommission \/ WorkerStep \/ PingStarts \/ PingEnds
            \/ ListenForEvents \/ EventNotAnswered \/ Signal \/ UNCHANGED vars
  BY <1>7, <1>19 DEF BeginDecommission, WorkerStep, PingStarts, PingEnds,
         ListenForEvents, EventNotAnswered, Signal, vars, serviceVars, mainVars,
         aroundVars
<1>20. QED
  BY <1>8, <1>9, <1>10, <1>11, <1>12, <1>13, <1>14, <1>15, <1>16, <1>17, <1>18,
     <1>19 DEF Next, RunStep

-----------------------------------------------------------------------------
(* Panics.                                                                 *)

(* Each panic has its reason.  The configuration of a process that has     *)
(* panicked does not change any more.                                      *)
LEMMA PanicsNext ==
  ASSUME TypeOK, OutcomeOK, ConfigOK, PanicsOnlyOutOfRange, [Next]_vars
  PROVE  PanicsOnlyOutOfRange'
<1> DEFINE max == MaxInt \div NanosPerMilli
           inRange == /\ cfg["GATEWAY_BUFFER_SIZE"] >= 0
                      /\ cfg["HEARTBEAT_TICK_MS"] \in 1..max
                      /\ cfg["ALERT_CONFIG_REFRESH_MS"] \in 1..max
<1>1. ASSUME outcome' = outcome, cfg' = cfg, 
             res["tracker"] = "closed" => res'["tracker"] = "closed"
      PROVE  PanicsOnlyOutOfRange'
  BY <1>1 DEF PanicsOnlyOutOfRange
<1>2. CASE outcome' \notin {"panic", "crash"}
  BY <1>2 DEF PanicsOnlyOutOfRange
<1>3. CASE outcome' = outcome /\ cfg' = cfg /\ res' = res
  BY <1>1, <1>3
<1>4. CASE LoadConfig \/ BuildDSN \/ ParsePoolConfig \/ ApplyMigrations
  <2>1. outcome' \in {"running", "error"}
    BY <1>4 DEF LoadConfig, BuildDSN, ParsePoolConfig, ApplyMigrations, Continue,
                Unwind, OutcomeOK, Leaving
  <2>2. QED
    BY <1>2, <2>1
<1>5. CASE ConnectNATS \/ NotifyContext \/ NewPool \/ StartMetricsServer
  <2>1. outcome' \in {"running", "error"}
    BY <1>5 DEF ConnectNATS, NotifyContext, NewPool, StartMetricsServer, Acquire,
                Unwind, OutcomeOK, Leaving
  <2>2. QED
    BY <1>2, <2>1
<1>6. CASE NewTracker
  <2>1. CASE cfg["GATEWAY_BUFFER_SIZE"] < 0
    <3>1. cfg \in [UsedKeys -> Int] /\ "GATEWAY_BUFFER_SIZE" \in UsedKeys
      BY <1>6 DEF NewTracker, ConfigOK, Leaving, UsedKeys
    <3>2. cfg["GATEWAY_BUFFER_SIZE"] \in Int
      BY <3>1
    <3>3. ~inRange
      BY <2>1, <3>2
    <3>4. cfg' = cfg
      BY <1>6 DEF NewTracker
    <3>5. QED
      BY <3>3, <3>4 DEF PanicsOnlyOutOfRange
  <2>2. CASE outcome' = "running"
    BY <1>2, <2>2
  <2>3. outcome = "running"
    BY <1>6 DEF NewTracker, OutcomeOK, Leaving
  <2>4. QED
    BY <1>6, <2>1, <2>2, <2>3 DEF NewTracker, Acquire
<1>7. CASE GoStatements \/ SubscribeTelemetry \/ TelemetryReturns
  <2>1. outcome' \in {"running", "error", "ok"}
    BY <1>7 DEF GoStatements, SubscribeTelemetry, TelemetryReturns, Continue, Unwind,
                OutcomeOK, Leaving
  <2>2. QED
    BY <1>2, <2>1
<1>8. CASE CloseResource
  <2>1. /\ outcome' = outcome /\ cfg' = cfg
        /\ res' = [res EXCEPT ![Head(defers)] = "closed"]
    BY <1>8 DEF CloseResource
  <2>2. res["tracker"] = "closed" => res'["tracker"] = "closed"
    BY <2>1 DEF TypeOK, Resources
  <2>3. QED
    BY <1>1, <2>1, <2>2
<1>9. CASE BeginTick
  <2>1. CASE TickInterval(cfg) > 0
    BY <1>3, <1>9, <2>1 DEF BeginTick, Begin, mainVars
  <2>2. CASE ~(TickInterval(cfg) > 0)
    <3>1. cfg' = cfg
      BY <1>9, <2>2 DEF BeginTick, Begin
    <3>2. cfg["HEARTBEAT_TICK_MS"] \notin 1..max
      BY <2>2, MillisInRange DEF TickInterval
    <3>3. QED
      BY <3>1, <3>2 DEF PanicsOnlyOutOfRange
  <2>3. QED
    BY <2>1, <2>2
<1>10. CASE BeginCache
  <2>1. CASE RefreshInterval(cfg) > 0
    BY <1>3, <1>10, <2>1 DEF BeginCache, Begin, mainVars
  <2>2. CASE ~(RefreshInterval(cfg) > 0)
    <3>1. cfg' = cfg
      BY <1>10, <2>2 DEF BeginCache, Begin
    <3>2. cfg["ALERT_CONFIG_REFRESH_MS"] \notin 1..max
      BY <2>2, MillisInRange DEF RefreshInterval
    <3>3. QED
      BY <3>1, <3>2 DEF PanicsOnlyOutOfRange
  <2>3. QED
    BY <2>1, <2>2
<1>11. CASE Dispatch
  <2>1. CASE res["tracker"] = "closed"
    <3>1. res' = res
      BY <1>11, <2>1 DEF Dispatch, Die
    <3>2. QED
      BY <2>1, <3>1 DEF PanicsOnlyOutOfRange
  <2>2. CASE res["tracker"] = "open"
    BY <1>3, <1>11, <2>2 DEF Dispatch
  <2>3. QED
    BY <1>11, <2>1, <2>2 DEF Dispatch
<1>12. CASE Kill \/ Restart
  BY <1>2, <1>12 DEF Kill, Restart
<1>13. CASE \/ DeferredReturns \/ Exit \/ BeginDecommission \/ WorkerStep
            \/ PingStarts \/ PingEnds \/ ListenForEvents \/ EventNotAnswered
            \/ Signal \/ UNCHANGED vars
  BY <1>3, <1>13 DEF DeferredReturns, Exit, BeginDecommission, WorkerStep, PingStarts,
         PingEnds, ListenForEvents, EventNotAnswered, Signal, vars, serviceVars,
         mainVars
<1>14. QED
  BY <1>4, <1>5, <1>6, <1>7, <1>8, <1>9, <1>10, <1>11, <1>12, <1>13
     DEF Next, RunStep

-----------------------------------------------------------------------------
(* The invariant.                                                          *)

(* The invariant holds before the first start.                             *)
LEMMA ServiceInitially == Init => ServiceInv
<1> SUFFICES ASSUME Init PROVE ServiceInv
  OBVIOUS
<1>1. EventsInv
  BY EventsInitially
<1>2. TypeOK
  <2>1. /\ jobs \in Nat /\ ~(jobs > 0) /\ pings \in 0..MaxPings
        /\ restarts \in 0..MaxRestarts
    BY ServiceAssumption DEF Init
  <2>2. res \in [Resources -> {"none", "open", "closed"}] /\ defers \in Seq(Resources)
    BY DEF Init
  <2>3. ctxDone \in BOOLEAN /\ subscribed \in BOOLEAN
    BY DEF Init
  <2>4. QED
    BY <1>1, <2>1, <2>2, <2>3 DEF Init, TypeOK, EventsInv
<1>3. DefersOK
  <2>1. Deferred(0) = <<>>
    BY DEF Deferred
  <2>2. StackOK(0)
    BY <2>1, OrderFacts DEF Init, StackOK, StepsWith, Leaving
  <2>3. QED
    BY <2>2 DEF DefersOK
<1>4. OutcomeOK /\ ConfigOK
  BY DEF Init, OutcomeOK, ConfigOK, Leaving
<1>5. TrackerOK /\ PingsOK
  BY DEF Init, TrackerOK, PingsOK, Resources
<1>6. MigratingOK /\ StartsOnFullSchema
  BY DEF Init, MigrationsInit, MigratingOK, StartsOnFullSchema, SchemaInOrder
<1>7. PanicsOnlyOutOfRange
  BY DEF Init, PanicsOnlyOutOfRange
<1>8. QED
  BY <1>1, <1>2, <1>3, <1>4, <1>5, <1>6, <1>7 DEF ServiceInv

(* Every step keeps the invariant: the parts lean on each other, the       *)
(* pool's users on the stack, the queue on the configuration.              *)
LEMMA ServiceNext ==
  ASSUME ServiceInv, [Next]_vars
  PROVE  ServiceInv'
<1> USE DEF ServiceInv
<1>1. EventsInv' /\ DefersOK' /\ OutcomeOK'
  BY EventsNext, StackNext, OutcomeNext
<1>2. TypeOK' /\ ConfigOK'
  BY TypeNext, ConfigNext
<1>3. TrackerOK' /\ PingsOK'
  BY TrackerNext, PingsNext
<1>4. MigratingOK' /\ StartsOnFullSchema' /\ PanicsOnlyOutOfRange'
  BY MigratingNext, PanicsNext
<1>5. QED
  BY <1>1, <1>2, <1>3, <1>4

(* The inductive invariant of the service holds in every reachable state.  *)
THEOREM ServiceInvariant == Spec => []ServiceInv
<1>1. Init => ServiceInv
  BY ServiceInitially
<1>2. ServiceInv /\ [Next]_vars => ServiceInv'
  BY ServiceNext
<1>3. QED
  BY <1>1, <1>2, PTL DEF Spec

(* Every variable of main has its type, and the queue of status updates    *)
(* never holds more than GATEWAY_BUFFER_SIZE.                              *)
THEOREM TypeCorrect == Spec => []TypeOK
<1>1. ServiceInv => TypeOK
  BY DEF ServiceInv
<1>2. QED
  BY <1>1, ServiceInvariant, PTL

(* Whatever is wrong with the environment, Load reports the first of it.   *)
THEOREM ConfigurationReported == Spec => []ConfigurationIsReported
<1>1. ServiceInv => ConfigurationIsReported
  <2>1. ASSUME TypeOK, env # NoEnvironment PROVE LoadReports(env)
    <3>1. env \in Environment
      BY <2>1, ServiceAssumption DEF TypeOK
    <3>2. QED
      BY <3>1, LoadReportsFirstError
  <2>2. QED
    BY <2>1 DEF ServiceInv, ConfigurationIsReported
<1>2. QED
  BY <1>1, ServiceInvariant, PTL

(* An event that JetStream will not deliver again was handled, or is       *)
(* malformed and was not, through crashes, restarts and lost answers.      *)
THEOREM ClosedEventsDone == Spec => []ClosedEventsAreDone
<1>1. ServiceInv => ClosedEventsAreDone
  BY DEF ServiceInv, EventsInv
<1>2. QED
  BY <1>1, ServiceInvariant, PTL

(* The goroutines of run start on a database that has every migration, and *)
(* no migration is there without those before it.                          *)
THEOREM FullSchemaAtStart == Spec => []StartsOnFullSchema
<1>1. ServiceInv => StartsOnFullSchema
  BY DEF ServiceInv
<1>2. QED
  BY <1>1, ServiceInvariant, PTL

(* Only the numbers listed make the process panic before the tracker is    *)
(* closed.                                                                 *)
THEOREM PanicsOutOfRange == Spec => []PanicsOnlyOutOfRange
<1>1. ServiceInv => PanicsOnlyOutOfRange
  BY DEF ServiceInv
<1>2. QED
  BY <1>1, ServiceInvariant, PTL

(* What is waiting to be closed, or was opened before it, is not yet gone: *)
(* resource i is open while the call that closes a later one is awaited.   *)
LEMMA OpenBelow ==
  ASSUME DefersOK, NEW i \in 1..5, NEW k \in 1..5, i < k, Awaited(AcquireOrder[k])
  PROVE  res[AcquireOrder[i]] = "open"
<1>1. PICK n \in 0..5 : StackOK(n)
  BY DEF DefersOK
<1>2. PICK j \in 1..Len(defers) : defers[j] = AcquireOrder[k]
  BY DEF Awaited
<1>3. Len(defers) = n /\ \A j2 \in 1..n : defers[j2] = AcquireOrder[n + 1 - j2]
  BY <1>1 DEF StackOK, Deferred
<1>4. j \in 1..n /\ AcquireOrder[n + 1 - j] = AcquireOrder[k]
  BY <1>2, <1>3
<1>5. n + 1 - j \in 1..5
  BY <1>4
<1>6. n + 1 - j = k
  BY <1>4, <1>5, OrderFacts
<1>7. i < n
  BY <1>4, <1>6
<1>8. QED
  BY <1>1, <1>7 DEF StackOK

(* The worker sends only while the NATS connection is open, and a handler  *)
(* pings only an open pool: the order of the defer statements.             *)
THEOREM UsedOnlyWhileOpen == Spec => []UsedWhileOpen
<1>1. ASSUME ServiceInv PROVE UsedWhileOpen
  <2>1. ASSUME worker = "sending" PROVE res["nats"] = "open"
    <3>1. Awaited("tracker")
      BY <1>1, <2>1 DEF ServiceInv, TrackerOK
    <3>2. res[AcquireOrder[1]] = "open"
      BY <1>1, <3>1, OpenBelow, OrderFacts DEF ServiceInv
    <3>3. QED
      BY <3>2, OrderFacts
  <2>2. ASSUME pings > 0 PROVE res["pool"] = "open"
    <3>1. Awaited("http")
      BY <1>1, <2>2 DEF ServiceInv, PingsOK
    <3>2. res[AcquireOrder[3]] = "open"
      BY <1>1, <3>1, OpenBelow, OrderFacts DEF ServiceInv
    <3>3. QED
      BY <3>2, OrderFacts
  <2>3. QED
    BY <2>1, <2>2 DEF UsedWhileOpen
<1>2. QED
  BY <1>1, ServiceInvariant, PTL

(* A process that ends by itself, by an error, a panic in run or a signal, *)
(* has closed all it opened and sent every update that was queued.         *)
THEOREM NothingOpenAtExit == Spec => []ExitLeavesNothingOpen
<1>1. ASSUME ServiceInv, mainPc = "exited", outcome \in {"ok", "error", "panic"}
      PROVE  /\ \A r \in Resources : res[r] # "open"
             /\ jobs = 0 /\ worker # "sending"
  <2>1. defers = <<>>
    BY <1>1 DEF ServiceInv, OutcomeOK
  <2>2. \A r \in Resources : ~Awaited(r)
    BY <2>1 DEF Awaited
  <2>3. \A r \in Resources : res[r] # "open"
    BY <1>1, <2>2, OpenIsAwaited DEF ServiceInv
  <2>4. worker \notin {"idle", "sending"}
    BY <1>1, <2>2 DEF ServiceInv, TrackerOK, Resources
  <2>5. jobs = 0
    BY <1>1, <2>4 DEF ServiceInv, TrackerOK, TypeOK
  <2>6. QED
    BY <2>3, <2>4, <2>5
<1>2. ServiceInv => ExitLeavesNothingOpen
  BY <1>1 DEF ExitLeavesNothingOpen
<1>3. QED
  BY <1>2, ServiceInvariant, PTL

=============================================================================
