------------------------------- MODULE Service ------------------------------
(***************************************************************************)
(* cmd/consumer/main.go: run builds the service step by step, starts its   *)
(* goroutines, blocks in the telemetry consumer, and on every way out runs *)
(* the deferred calls, the latest first.  It is composed of the            *)
(* configuration it loads, the migrations it applies and the decommission  *)
(* consumer it starts; the tracker appears as its queue and worker, the    *)
(* telemetry consumer as a source of updates, the health endpoint as the   *)
(* pings it makes.                                                         *)
(* A process is followed by others, which find the database and JetStream  *)
(* as it left them.                                                        *)
(***************************************************************************)
EXTENDS ConfigLoader, DecommissionConsumer, Migrations

CONSTANTS
  Environments,  \* what the variables may be when the first process starts
  Successors,    \* bound: those of Environments that later processes get
  NoEnvironment, \* Load has returned
  NoConfig,      \* Load has not returned
  MaxPings,      \* bound: requests to /healthz at once
  MaxRestarts    \* bound: processes after the first one

ASSUME ServiceAssumption ==
  /\ Environments \subseteq Environment /\ Successors \subseteq Environments
  /\ MaxPings \in Nat /\ MaxRestarts \in Nat

VARIABLES
  env, cfg,
  mainPc,     \* the step of run that comes next
  outcome,    \* "running"; then how the process ended: "ok", "error" (exit
              \* status 1), "panic" (in run), "crash" (in another goroutine),
              \* "killed"
  res,        \* what run acquires: "none", "open" or "closed"
  defers,     \* deferred calls, by the resource they close, latest first
  ctxDone,    \* the signal context is done
  launched,   \* goroutines of go statements that have not begun
  subscribed, \* the telemetry subscription was made
  jobs,       \* status updates queued in dispatchCh
  worker,     \* dispatchWorker: "none", "idle", "sending", "done"
  pings,      \* /healthz handlers in pool.Ping
  restarts

mainVars    == <<env, cfg, mainPc, outcome, res, defers>>
trackerVars == <<jobs, worker>>
aroundVars  == <<launched, subscribed, pings, restarts>>
serviceVars == <<mainVars, ctxDone, trackerVars, aroundVars>>
vars == <<serviceVars, decommissionVars, migrationVars>>

Resources == {"nats", "signal", "pool", "tracker", "http"}

(* The numbers that decide what run does.                                  *)
UsedKeys == {"DB_PORT", "NATS_CONNECT_TIMEOUT_SECONDS", "DB_MAX_CONNS",
             "GATEWAY_BUFFER_SIZE", "HEARTBEAT_TICK_MS",
             "ALERT_CONFIG_REFRESH_MS"}

Alive == mainPc # "exited"

Init ==
  /\ env \in Environments /\ cfg = NoConfig
  /\ mainPc = "config" /\ outcome = "running"
  /\ res = [r \in Resources |-> "none"] /\ defers = <<>>
  /\ ctxDone = FALSE /\ launched = {} /\ subscribed = FALSE
  /\ jobs = 0 /\ worker = "none" /\ pings = 0 /\ restarts = 0
  /\ DecommissionInit /\ MigrationsInit

-----------------------------------------------------------------------------
(* run, from top to bottom.                                                *)

Continue(pc) == mainPc' = pc /\ UNCHANGED <<outcome, res, defers>>

Acquire(r, pc) ==
  /\ mainPc' = pc
  /\ res' = [res EXCEPT ![r] = "open"]
  /\ defers' = <<r>> \o defers
  /\ UNCHANGED outcome

Unwind(how) == mainPc' = "unwind" /\ outcome' = how /\ UNCHANGED <<res, defers>>

LoadConfig ==
  /\ mainPc = "config"
  /\ LET l == Load(env) IN
     IF l.err = NoError
     THEN cfg' = [k \in UsedKeys |-> l.cfg[k]] /\ Continue("dsn")
     ELSE UNCHANGED cfg /\ Unwind("error")
  /\ env' = NoEnvironment
  /\ UNCHANGED <<ctxDone, trackerVars, aroundVars, decommissionVars,
                 migrationVars>>

(* GetDatabaseDSN reads the password file.                                 *)
BuildDSN ==
  /\ mainPc = "dsn"
  /\ Continue("nats") \/ Unwind("error")
  /\ UNCHANGED <<env, cfg, ctxDone, trackerVars, aroundVars,
                 decommissionVars, migrationVars>>

(* Mutant of ConnectNATS: the drain is not deferred.                       *)
ConnectNATSWithoutDefer ==
  /\ mainPc = "nats"
  /\ \/ /\ cfg["NATS_CONNECT_TIMEOUT_SECONDS"] >= 0
        /\ mainPc' = "jetstream" /\ res' = [res EXCEPT !["nats"] = "open"]
        /\ UNCHANGED <<outcome, defers>>
     \/ Unwind("error")
  /\ UNCHANGED <<env, cfg, ctxDone, trackerVars, aroundVars,
                 decommissionVars, migrationVars>>

(* A negative timeout has passed before the dial begins.                   *)
ConnectNATS ==
  /\ mainPc = "nats"
  /\ \/ cfg["NATS_CONNECT_TIMEOUT_SECONDS"] >= 0 /\ Acquire("nats", "jetstream")
     \/ Unwind("error")
  /\ UNCHANGED <<env, cfg, ctxDone, trackerVars, aroundVars,
                 decommissionVars, migrationVars>>

(* The JetStream context, then pgx's parser, which checks the port.        *)
ParsePoolConfig ==
  /\ mainPc = "jetstream"
  /\ \/ cfg["DB_PORT"] > 0 /\ Continue("signal")
     \/ Unwind("error")
  /\ UNCHANGED <<env, cfg, ctxDone, trackerVars, aroundVars,
                 decommissionVars, migrationVars>>

NotifyContext ==
  /\ mainPc = "signal" /\ Acquire("signal", "pool")
  /\ UNCHANGED <<env, cfg, ctxDone, trackerVars, aroundVars,
                 decommissionVars, migrationVars>>

(* The pool refuses a size below 1, also one that int32 made of a large    *)
(* number.                                                                 *)
NewPool ==
  /\ mainPc = "pool"
  /\ \/ MaxConns(cfg) >= 1 /\ Acquire("pool", "migrations") /\ ApplyStart
     \/ Unwind("error") /\ UNCHANGED migrationVars
  /\ UNCHANGED <<env, cfg, ctxDone, trackerVars, aroundVars,
                 decommissionVars>>

(* Apply returns the first error: a file that failed or met another        *)
(* instance running the same script, one that was committed although its   *)
(* answer was lost, or ctx is done.                                        *)
ApplyMigrations ==
  /\ mainPc = "migrations"
  /\ \/ remaining # <<>> /\ ~ctxDone /\ ExecFile /\ Continue(mainPc)
     \/ /\ remaining # <<>> /\ Unwind("error")
        /\ ExecFile \/ UNCHANGED migrationVars
     \/ remaining = <<>> /\ Continue("tracker") /\ UNCHANGED migrationVars
  /\ UNCHANGED <<env, cfg, ctxDone, trackerVars, aroundVars,
                 decommissionVars>>

(* Mutant of NewTracker: Close is deferred below the drain of NATS.        *)
NewTrackerClosedLast ==
  /\ mainPc = "tracker"
  /\ IF cfg["GATEWAY_BUFFER_SIZE"] < 0
     THEN Unwind("panic") /\ UNCHANGED worker
     ELSE /\ mainPc' = "http" /\ res' = [res EXCEPT !["tracker"] = "open"]
          /\ defers' = Append(defers, "tracker")
          /\ UNCHANGED outcome
          /\ worker' = "idle"
  /\ UNCHANGED <<env, cfg, ctxDone, jobs, aroundVars, decommissionVars,
                 migrationVars>>

(* NewHeartbeatTracker makes the channel, which panics for a negative      *)
(* size, and starts the worker.                                            *)
NewTracker ==
  /\ mainPc = "tracker"
  /\ IF cfg["GATEWAY_BUFFER_SIZE"] < 0
     THEN Unwind("panic") /\ UNCHANGED worker
     ELSE Acquire("tracker", "http") /\ worker' = "idle"
  /\ UNCHANGED <<env, cfg, ctxDone, jobs, aroundVars, decommissionVars,
                 migrationVars>>

StartMetricsServer ==
  /\ mainPc = "http" /\ Acquire("http", "go")
  /\ UNCHANGED <<env, cfg, ctxDone, trackerVars, aroundVars,
                 decommissionVars, migrationVars>>

GoStatements ==
  /\ mainPc = "go" /\ Continue("subscribe")
  /\ launched' = {"cache", "tick", "decommission"}
  /\ UNCHANGED <<env, cfg, ctxDone, trackerVars, subscribed, pings, restarts,
                 decommissionVars, migrationVars>>

(* The telemetry consumer's Run: the subscription, and its return.         *)
SubscribeTelemetry ==
  /\ mainPc = "subscribe"
  /\ \/ Continue("telemetry") /\ subscribed' = TRUE
     \/ Unwind("error") /\ UNCHANGED subscribed
  /\ UNCHANGED <<env, cfg, ctxDone, trackerVars, launched, pings, restarts,
                 decommissionVars, migrationVars>>

(* Mutant of TelemetryReturns: Run waits for a message to notice ctx.      *)
TelemetryReturnsWhenIdle ==
  /\ mainPc = "telemetry" /\ ctxDone /\ jobs > 0 /\ Unwind("ok")
  /\ UNCHANGED <<env, cfg, ctxDone, trackerVars, aroundVars,
                 decommissionVars, migrationVars>>

TelemetryReturns ==
  /\ mainPc = "telemetry" /\ ctxDone /\ Unwind("ok")
  /\ UNCHANGED <<env, cfg, ctxDone, trackerVars, aroundVars,
                 decommissionVars, migrationVars>>

-----------------------------------------------------------------------------
(* The deferred calls.  Shutdown waits for the handlers, Close for the     *)
(* worker, the pool for its connections; stop and Drain wait for nothing.  *)

Waits(r) ==
  \/ r \in {"http", "pool"} /\ pings > 0
  \/ r = "tracker" /\ worker # "done"

CloseResource ==
  /\ mainPc = "unwind" /\ defers # <<>> /\ res[Head(defers)] = "open"
  /\ res' = [res EXCEPT ![Head(defers)] = "closed"]
  /\ ctxDone' = (ctxDone \/ Head(defers) = "signal")
  /\ UNCHANGED <<env, cfg, mainPc, outcome, defers, trackerVars, aroundVars,
                 decommissionVars, migrationVars>>

DeferredReturns ==
  /\ mainPc = "unwind" /\ defers # <<>> /\ res[Head(defers)] = "closed"
  /\ ~Waits(Head(defers))
  /\ defers' = Tail(defers)
  /\ UNCHANGED <<env, cfg, mainPc, outcome, res, ctxDone, trackerVars,
                 aroundVars, decommissionVars, migrationVars>>

Exit ==
  /\ mainPc = "unwind" /\ defers = <<>> /\ mainPc' = "exited"
  /\ UNCHANGED <<env, cfg, outcome, res, defers, ctxDone, trackerVars,
                 aroundVars, decommissionVars, migrationVars>>

-----------------------------------------------------------------------------
(* The other goroutines.                                                   *)

(* A panic outside run, or a signal that is not caught: nothing is closed. *)
Die(how) == mainPc' = "exited" /\ outcome' = how /\ UNCHANGED <<res, defers>>

(* NewTicker panics unless its interval is positive; for the cache that is *)
(* after the initial fetch.                                                *)
Begin(g, interval) ==
  /\ Alive /\ g \in launched
  /\ launched' = launched \ {g}
  /\ IF interval > 0 THEN UNCHANGED mainVars
                     ELSE Die("crash") /\ UNCHANGED <<env, cfg>>
  /\ UNCHANGED <<ctxDone, trackerVars, subscribed, pings, restarts,
                 decommissionVars, migrationVars>>

BeginTick  == Begin("tick", TickInterval(cfg))
BeginCache == Begin("cache", RefreshInterval(cfg))

BeginDecommission ==
  /\ Alive /\ "decommission" \in launched
  /\ launched' = launched \ {"decommission"}
  /\ SubscribeEvents \/ SubscribeEventsFails
  /\ UNCHANGED <<mainVars, ctxDone, trackerVars, subscribed, pings, restarts,
                 migrationVars>>

(* Mutant of QueueHasRoom: one update more than the channel holds.         *)
QueueTakesOneMore == jobs <= cfg["GATEWAY_BUFFER_SIZE"]

QueueHasRoom == jobs < cfg["GATEWAY_BUFFER_SIZE"]

(* A status update, from a tick or from a telemetry callback; neither is   *)
(* waited for at shutdown.                                                 *)
Dispatch ==
  /\ Alive /\ subscribed
  /\ \/ /\ res["tracker"] = "closed" /\ Die("crash")
        /\ UNCHANGED trackerVars
     \/ /\ res["tracker"] = "open" /\ QueueHasRoom
        /\ jobs' = jobs + 1
        /\ UNCHANGED <<worker, mainPc, outcome, res, defers>>
     \/ /\ res["tracker"] = "open" /\ cfg["GATEWAY_BUFFER_SIZE"] = 0
        /\ worker = "idle" /\ worker' = "sending"
        /\ UNCHANGED <<jobs, mainPc, outcome, res, defers>>
  /\ UNCHANGED <<env, cfg, ctxDone, aroundVars, decommissionVars,
                 migrationVars>>

WorkerStep ==
  /\ Alive
  /\ \/ worker = "idle" /\ jobs > 0 /\ worker' = "sending" /\ jobs' = jobs - 1
     \/ worker = "sending" /\ worker' = "idle" /\ UNCHANGED jobs
     \/ /\ worker = "idle" /\ jobs = 0 /\ res["tracker"] = "closed"
        /\ worker' = "done" /\ UNCHANGED jobs
  /\ UNCHANGED <<mainVars, ctxDone, aroundVars, decommissionVars,
                 migrationVars>>

PingStarts ==
  /\ Alive /\ res["http"] = "open" /\ pings < MaxPings
  /\ pings' = pings + 1
  /\ UNCHANGED <<mainVars, ctxDone, trackerVars, launched, subscribed,
                 restarts, decommissionVars, migrationVars>>

PingEnds ==
  /\ Alive /\ pings > 0
  /\ pings' = pings - 1
  /\ UNCHANGED <<mainVars, ctxDone, trackerVars, launched, subscribed,
                 restarts, decommissionVars, migrationVars>>

ListenForEvents ==
  /\ Alive
  /\ \/ \E e \in Events : DeliverEvent(e)
     \/ HandleMsgStep
     \/ ctxDone /\ DrainEvents
     \/ EventsDrained
  /\ UNCHANGED <<serviceVars, migrationVars>>

-----------------------------------------------------------------------------
(* The outside.  The last process of a behaviour is not told to stop.      *)

EventNotAnswered ==
  /\ \E e \in Events : EventAckWait(e)
  /\ UNCHANGED <<serviceVars, migrationVars>>

Signal ==
  /\ Alive /\ res["signal"] = "open" /\ ~ctxDone /\ restarts < MaxRestarts
  /\ ctxDone' = TRUE
  /\ UNCHANGED <<mainVars, trackerVars, aroundVars, decommissionVars,
                 migrationVars>>

(* Nobody can look at what was in memory.                                  *)
Kill ==
  /\ Alive /\ restarts < MaxRestarts
  /\ mainPc' = "exited" /\ outcome' = "killed"
  /\ res' = [r \in Resources |-> "none"] /\ defers' = <<>>
  /\ env' = NoEnvironment /\ cfg' = NoConfig
  /\ ctxDone' = FALSE /\ launched' = {} /\ subscribed' = FALSE
  /\ jobs' = 0 /\ worker' = "none" /\ pings' = 0
  /\ ClientLost /\ remaining' = <<>>
  /\ UNCHANGED <<restarts, eventState, handled, schema>>

(* A new process, possibly with another configuration.                     *)
Restart ==
  /\ ~Alive /\ restarts < MaxRestarts
  /\ restarts' = restarts + 1
  /\ env' \in Successors /\ cfg' = NoConfig
  /\ mainPc' = "config" /\ outcome' = "running"
  /\ res' = [r \in Resources |-> "none"] /\ defers' = <<>>
  /\ ctxDone' = FALSE /\ launched' = {} /\ subscribed' = FALSE
  /\ jobs' = 0 /\ worker' = "none" /\ pings' = 0
  /\ ClientLost /\ remaining' = <<>>
  /\ UNCHANGED <<eventState, handled, schema>>

RunStep ==
  \/ LoadConfig \/ BuildDSN \/ ConnectNATS \/ ParsePoolConfig
  \/ NotifyContext \/ NewPool \/ ApplyMigrations \/ NewTracker
  \/ StartMetricsServer \/ GoStatements \/ SubscribeTelemetry
  \/ TelemetryReturns \/ CloseResource \/ DeferredReturns \/ Exit

Next ==
  \/ RunStep
  \/ BeginTick \/ BeginCache \/ BeginDecommission
  \/ Dispatch \/ WorkerStep \/ PingStarts \/ PingEnds
  \/ ListenForEvents \/ EventNotAnswered
  \/ Signal \/ Kill \/ Restart

Spec == Init /\ [][Next]_vars

(* Goroutines run, a request of the worker ends, and JetStream delivers    *)
(* and redelivers; an answer to an event arrives now and then.  A ping has *)
(* no deadline of its own and need not end.                                *)
Fairness ==
  /\ WF_vars(RunStep) /\ WF_vars(WorkerStep)
  /\ WF_vars(BeginTick) /\ WF_vars(BeginCache) /\ WF_vars(BeginDecommission)
  /\ WF_vars(ListenForEvents /\ HandleMsgStep)
  /\ \A e \in Events :
       /\ WF_vars(ListenForEvents /\ DeliverEvent(e))
       /\ WF_vars(EventNotAnswered /\ EventAckWait(e))
       /\ SF_vars(ListenForEvents /\ event = e /\ Closed(e)')

LiveSpec == Spec /\ Fairness
-----------------------------------------------------------------------------
(* The type of every variable of main; the queue stays within its size.    *)
TypeOK ==
  /\ env = NoEnvironment \/ env \in Environments
  /\ cfg = NoConfig \/ cfg \in [UsedKeys -> Int]
  /\ mainPc \in {"config", "dsn", "nats", "jetstream", "signal", "pool",
                 "migrations", "tracker", "http", "go", "subscribe",
                 "telemetry", "unwind", "exited"}
  /\ outcome \in {"running", "ok", "error", "panic", "crash", "killed"}
  /\ res \in [Resources -> {"none", "open", "closed"}]
  /\ defers \in Seq(Resources)
  /\ ctxDone \in BOOLEAN /\ subscribed \in BOOLEAN
  /\ launched \subseteq {"cache", "tick", "decommission"}
  /\ worker \in {"none", "idle", "sending", "done"}
  /\ jobs \in Nat /\ (jobs > 0 => jobs <= cfg["GATEWAY_BUFFER_SIZE"])
  /\ pings \in 0..MaxPings /\ restarts \in 0..MaxRestarts
  /\ DecommissionTypeOK

(* "Load reads and validates configuration": see LoadReports.              *)
ConfigurationIsReported == env # NoEnvironment => LoadReports(env)

(* Whatever step of run fails, and also when it panics, nothing it opened  *)
(* is left open when the process ends by itself, and no update that was    *)
(* queued is left unsent.                                                  *)
ExitLeavesNothingOpen ==
  mainPc = "exited" /\ outcome \in {"ok", "error", "panic"} =>
    /\ \A r \in Resources : res[r] # "open"
    /\ jobs = 0 /\ worker # "sending"

(* "drain dispatch channel before NATS drains", and its like: the worker   *)
(* sends over a connection that is not being drained, and a health check   *)
(* uses a pool that is open, at every moment of start and shutdown.        *)
UsedWhileOpen ==
  /\ worker = "sending" => res["nats"] = "open"
  /\ pings > 0 => res["pool"] = "open"

(* The goroutines start on a database that has every migration, and a      *)
(* start that stopped halfway left no hole.                                *)
StartsOnFullSchema ==
  /\ SchemaInOrder
  /\ launched # {} \/ subscribed => FileNames \subseteq schema

(* Of the numbers that Load lets through, these make the process panic: a  *)
(* negative buffer, and an interval that is not positive or too long for a *)
(* Duration.  With all others it never does, until the tracker is closed.  *)
PanicsOnlyOutOfRange ==
  LET MaxMillis == MaxInt \div NanosPerMilli
      InRange   == /\ cfg["GATEWAY_BUFFER_SIZE"] >= 0
                   /\ cfg["HEARTBEAT_TICK_MS"] \in 1..MaxMillis
                   /\ cfg["ALERT_CONFIG_REFRESH_MS"] \in 1..MaxMillis
  IN outcome \in {"panic", "crash"} /\ InRange => res["tracker"] = "closed"

(* The rest is why the above holds.  Once n resources are open the calls   *)
(* that close them are deferred in the opposite order, and run stands at   *)
(* one of StepsWith[n + 1] or is on its way out.                           *)
AcquireOrder == <<"nats", "signal", "pool", "tracker", "http">>

Deferred(n) == [i \in 1..n |-> AcquireOrder[n + 1 - i]]

StepsWith ==
  <<{"config", "dsn", "nats"}, {"jetstream", "signal"}, {"pool"},
    {"migrations", "tracker"}, {"http"}, {"go", "subscribe", "telemetry"}>>

Leaving == mainPc \in {"unwind", "exited"}

StackOK(n) ==
  /\ defers = Deferred(n)
  /\ Leaving \/ mainPc \in StepsWith[n + 1]
  /\ \A i \in 1..5 :
       LET state == res[AcquireOrder[i]] IN
       /\ i < n => state = "open"
       /\ i = n => state = "open"  \/ (state = "closed" /\ Leaving)
       /\ i > n => state = "none"  \/ (state = "closed" /\ Leaving)

DefersOK == \E n \in 0..5 : StackOK(n)

(* Only the deferred calls end a process by itself.                        *)
OutcomeOK ==
  /\ ~Leaving => outcome = "running"
  /\ mainPc = "unwind" => outcome \in {"ok", "error", "panic"}
  /\ mainPc = "exited" => \/ outcome \in {"crash", "killed"}
                          \/ outcome \in {"ok", "error", "panic"} /\ defers = <<>>

(* There is a configuration whenever somebody looks at it.                 *)
ConfigOK ==
  /\ mainPc = "config" => env \in Environments
  /\ (~Leaving /\ mainPc # "config") \/ worker # "none"
       => cfg \in [UsedKeys -> Int]

(* Close is deferred until the worker is gone, which leaves no job behind, *)
(* and Shutdown until the last handler returned.                           *)
Awaited(r) == \E i \in 1..Len(defers) : defers[i] = r

TrackerOK ==
  /\ worker = "none" <=> res["tracker"] = "none"
  /\ worker = "done" => res["tracker"] = "closed"
  /\ worker \in {"none", "done"} => jobs = 0
  /\ worker \in {"idle", "sending"} => Awaited("tracker")

PingsOK == pings > 0 => Awaited("http")

(* The files that remain are those the database lacks, in order; there is  *)
(* none left when run goes on.                                             *)
MigratingOK ==
  /\ schema \subseteq FileNames
  /\ mainPc = "migrations" =>
       /\ remaining \in Seq(FileNames)
       /\ \A g \in FileNames :
            \/ g \in schema
            \/ \E j \in 1..Len(remaining) : remaining[j] = g
       /\ \A i \in 1..Len(remaining) : \A g \in FileNames :
            g < remaining[i] => \/ g \in schema
                               \/ \E j \in 1..(i - 1) : remaining[j] = g
  /\ mainPc \in {"tracker", "http", "go", "subscribe", "telemetry"}
       => FileNames \subseteq schema

(* The inductive invariant.                                                *)
ServiceInv ==
  /\ TypeOK /\ DefersOK /\ OutcomeOK /\ ConfigOK /\ TrackerOK /\ PingsOK
  /\ MigratingOK /\ StartsOnFullSchema /\ PanicsOnlyOutOfRange
  /\ EventsInv

(* Once ctx is done, by a signal or because run is on its way out, the     *)
(* process ends, unless a health check never does: Shutdown is called with *)
(* context.Background(), and waits for it.  Nothing else holds it up.      *)
ShutsDown == ctxDone ~> (mainPc = "exited" \/ [](pings > 0))

(* While the service listens, every decommission event is handled or found *)
(* malformed, and settled for good, through lost answers and restarts.     *)
Listening == mainPc = "telemetry" /\ decSub = "active"
EventsSettled ==
  <>[]Listening => \A e \in Events : <>[]Closed(e)

=============================================================================
