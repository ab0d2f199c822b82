------------------------------ MODULE Pipeline ------------------------------
(***************************************************************************)
(* TelemetryConsumer together with the heartbeat map it feeds: every       *)
(* delivery of a message, repeated ones included, is a heartbeat of its    *)
(* gateway at the time of the delivery.  What the other modules state of   *)
(* the map and of the messages apart, this one states of both: what        *)
(* refused batches and redeliveries do to the liveness of gateways.        *)
(*                                                                         *)
(* The tracker is HeartbeatTracker without its concurrency and its queue   *)
(* of updates: a call is one step, a tick looks at one gateway, and that   *)
(* in one step from the deadline to the mark.  Of lastSeen only the age is *)
(* kept, of the alert stream only who was alerted.                         *)
(***************************************************************************)
EXTENDS TelemetryConsumer

CONSTANTS
  Gateways,   \* the (tenant, gateway) keys of the beats map
  Sender,     \* the gateway that sent a message
  Timeout,    \* what TimeoutFor returns, in steps of the clock
  Grace       \* gracePeriod, in steps of the clock

ASSUME SenderAssumption == Sender \in [Msgs \ Bad -> Gateways]
ASSUME TimeoutAssumption == Timeout \in Nat \ {0} /\ Grace \in Nat

VARIABLES
  beats,      \* knownStatus of an entry, or "absent"
  age,        \* time since lastSeen, counted up to Timeout
  grace,      \* what is left of the grace period
  paused,     \* the management API: gateways that are paused
  alerted,    \* gateways with an alert in the stream since they were last
              \* decommissioned
  gone        \* history: gateways decommissioned when everything they sent
              \* had been heard

trackerVars  == <<beats, age, grace, alerted, gone>>
pipelineVars == <<vars, trackerVars, paused>>

PipelineInit ==
  /\ Init
  /\ beats = [g \in Gateways |-> "absent"]
  /\ age = [g \in Gateways |-> 0] /\ grace = Grace
  /\ paused = {} /\ alerted = {} /\ gone = {}

(* HandleTelemetry registers the gateway, or refreshes its entry.          *)
HandleTelemetry(g) ==
  /\ beats' = [beats EXCEPT ![g] = "online"]
  /\ age' = [age EXCEPT ![g] = 0]
  /\ UNCHANGED <<grace, alerted, gone>>

(* processMessage with the call it makes.                                  *)
ProcessAndHear ==
  /\ ProcessMessage
  /\ IF inCall \in Bad
     THEN UNCHANGED trackerVars
     ELSE HandleTelemetry(Sender[inCall])
  /\ UNCHANGED paused

HandleDecommission(g) ==
  /\ beats' = [beats EXCEPT ![g] = "absent"]
  /\ alerted' = alerted \ {g}
  /\ gone' = IF \A m \in DOMAIN Sender : Sender[m] = g => m \in heard
             THEN gone \cup {g} ELSE gone
  /\ UNCHANGED <<vars, age, grace, paused>>

(* An entry that a tick after the grace period finds past its deadline.    *)
Candidate(g) == grace = 0 /\ beats[g] = "online" /\ age[g] = Timeout

(* GetGatewayLifecycle: the state of the gateway, or an error, which is    *)
(* all there is once ctx is cancelled.                                     *)
Lifecycle(g) ==
  {"error"} \cup IF ctxDone THEN {}
                 ELSE {IF g \in paused THEN "paused" ELSE "active"}

(* The lifecycle gate: "paused" leaves the entry as it is, an error does   *)
(* not (fail-open).                                                        *)
Passes(g, answer) ==
  Candidate(g) /\ answer \in Lifecycle(g) /\ answer # "paused"

(* Alert accepted: report, mark.                                           *)
TickMarks(g, answer) ==
  /\ Passes(g, answer)
  /\ beats' = [beats EXCEPT ![g] = "offline"]
  /\ alerted' = alerted \cup {g}
  /\ UNCHANGED <<vars, age, grace, paused, gone>>

(* Publish returned an error, the alert in the stream or not: no mark, and *)
(* the next tick tries again.                                              *)
TickPublishFails(g, answer) ==
  /\ Passes(g, answer)
  /\ alerted' \in {alerted, alerted \cup {g}}
  /\ UNCHANGED <<vars, beats, age, grace, paused, gone>>

AdvanceClock ==
  /\ grace > 0 \/ \E g \in Gateways : beats[g] = "online" /\ age[g] < Timeout
  /\ grace' = IF grace > 0 THEN grace - 1 ELSE 0
  /\ age' = [g \in Gateways |->
               IF beats[g] = "online" /\ age[g] < Timeout
               THEN age[g] + 1 ELSE age[g]]
  /\ UNCHANGED <<vars, beats, paused, alerted, gone>>

(* An operator pauses a gateway, or resumes it.                            *)
Pause(g)  == paused' = paused \cup {g} /\ UNCHANGED <<vars, trackerVars>>
Resume(g) == paused' = paused \ {g} /\ UNCHANGED <<vars, trackerVars>>

(* The map is lost with the process, and the grace period starts again.    *)
RestartPipeline ==
  /\ Restart
  /\ beats' = [g \in Gateways |-> "absent"]
  /\ age' = [g \in Gateways |-> 0] /\ grace' = Grace
  /\ UNCHANGED <<paused, alerted, gone>>

PipelineNext ==
  \/ ProcessAndHear
  \/ RestartPipeline
  \/ AdvanceClock
  \/ \E g \in Gateways : HandleDecommission(g) \/ Pause(g) \/ Resume(g)
  \/ \E g \in Gateways, answer \in {"active", "error"} :
       TickMarks(g, answer) \/ TickPublishFails(g, answer)
  \/ /\ \/ \E m \in Msgs : Deliver(m) \/ AckWaitExpires(m)
        \/ EnqueuePending \/ EnqueueCancelled
        \/ LoopStep
        \/ Cancel \/ SubscriptionDrained
     /\ UNCHANGED <<trackerVars, paused>>

PipelineSpec == PipelineInit /\ [][PipelineNext]_pipelineVars

(* Besides what TelemetryConsumer needs: time passes, the timer ticks, and *)
(* for a gateway that stays a candidate the management API and the alert   *)
(* stream answer one tick in the end.  A gateway that is paused is not     *)
(* helped by this.                                                         *)
PipelineLiveSpec ==
  /\ PipelineSpec /\ Fairness
  /\ WF_pipelineVars(AdvanceClock)
  /\ \A g \in Gateways : WF_pipelineVars(TickMarks(g, "active"))

-----------------------------------------------------------------------------
(* A gateway that has sent all it will ever send, and is not paused any    *)
(* more, does not look alive for ever: its messages are redelivered, each  *)
(* delivery a fresh heartbeat, only until they are settled, and then the   *)
(* silence is noticed, whatever alerts were refused on the way.            *)
SilentGatewayNoticed ==
  \A g \in Gateways : <>[](g \notin paused) => <>[](beats[g] # "online")

-----------------------------------------------------------------------------
(* What a comment and a test say, and the code does not do.                *)

(* "Subsequent Tick calls will ignore this gateway": no alert is published *)
(* for a gateway that was decommissioned after all it had sent was heard.  *)
(* (A redelivery registers it again.)                                      *)
DecommissionedNotAlerted == gone \cap alerted = {}

=============================================================================
