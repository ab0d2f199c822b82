------------------------ MODULE DecommissionConsumer ------------------------
(***************************************************************************)
(* internal/adapter/driving/nats_decommission_consumer.go: a durable       *)
(* JetStream subscription with manual acknowledgement whose callback       *)
(* removes a gateway from the heartbeat map and then acknowledges the      *)
(* event.  NATS hands events to the client, which keeps them in the inbox  *)
(* of the subscription until the callback gets to them.                    *)
(* The goroutine of Run is started, told to stop and killed by main: see   *)
(* the module Service.                                                     *)
(***************************************************************************)
EXTENDS Integers, Sequences

CONSTANTS
  Events,      \* the decommission events of the stream
  Malformed,   \* those whose subject has not four tokens
  NoEvent      \* "the callback is not running"

ASSUME EventsAssumption == Malformed \subseteq Events /\ NoEvent \notin Events

VARIABLES
  eventState,  \* JetStream: "ready" to deliver, "outstanding", "acked", "termed"
  decSub,      \* "none", "active", "failed", or "draining" once Run returned
  inbox,       \* events received and not yet given to the callback
  event,       \* the event handleMsg works on, or NoEvent
  eventPc,     \* "extract", or "ack" once HandleDecommission returned
  handled      \* history: events given to HandleDecommission

clientVars       == <<decSub, inbox, event, eventPc>>
decommissionVars == <<eventState, clientVars, handled>>

Closed(e) == eventState[e] \in {"acked", "termed"}
InProcess(e) == event = e \/ \E i \in 1..Len(inbox) : inbox[i] = e

DecommissionInit ==
  /\ eventState = [e \in Events |-> "ready"]
  /\ decSub = "none" /\ inbox = <<>>
  /\ event = NoEvent /\ eventPc = "extract"
  /\ handled = {}

(* The client's memory when the process is gone.                           *)
ClientLost ==
  /\ decSub' = "none" /\ inbox' = <<>>
  /\ event' = NoEvent /\ eventPc' = "extract"

-----------------------------------------------------------------------------
(* Run.                                                                    *)

SubscribeEvents ==
  /\ decSub = "none" /\ decSub' = "active"
  /\ UNCHANGED <<eventState, inbox, event, eventPc, handled>>

(* Run returns the error.  One reason is that the subscription of the      *)
(* process being replaced is still bound to the durable consumer.          *)
SubscribeEventsFails ==
  /\ decSub = "none" /\ decSub' = "failed"
  /\ UNCHANGED <<eventState, inbox, event, eventPc, handled>>

(* ctx is done: sub.Drain, which returns at once.  Nothing more arrives;   *)
(* the callback goes on with the inbox for as long as the process lives.   *)
DrainEvents ==
  /\ decSub = "active" /\ decSub' = "draining"
  /\ UNCHANGED <<eventState, inbox, event, eventPc, handled>>

(* Draining is over.  nats.go then deletes a durable consumer that this    *)
(* subscription created, and the next one is given every event again.      *)
(* (Which subscription created it is not kept: any may have.)              *)
EventsDrained ==
  /\ decSub = "draining" /\ inbox = <<>> /\ event = NoEvent
  /\ decSub' = "closed"
  /\ \/ eventState' = [e \in Events |-> "ready"]
     \/ UNCHANGED eventState
  /\ UNCHANGED <<inbox, event, eventPc, handled>>

-----------------------------------------------------------------------------
(* JetStream.                                                              *)

(* Mutant of DeliverEvent: the consumer is created without acknowledgement. *)
DeliverEventAckNone(e) ==
  /\ decSub = "active" /\ eventState[e] = "ready"
  /\ eventState' = [eventState EXCEPT ![e] = "acked"]
  /\ inbox' = Append(inbox, e)
  /\ UNCHANGED <<decSub, event, eventPc, handled>>

DeliverEvent(e) ==
  /\ decSub = "active" /\ eventState[e] = "ready"
  /\ eventState' = [eventState EXCEPT ![e] = "outstanding"]
  /\ inbox' = Append(inbox, e)
  /\ UNCHANGED <<decSub, event, eventPc, handled>>

(* AckWait passed without an answer, and the process holds no copy of the  *)
(* event (redelivery of an event still in the inbox changes nothing).      *)
EventAckWait(e) ==
  /\ eventState[e] = "outstanding" /\ ~InProcess(e)
  /\ eventState' = [eventState EXCEPT ![e] = "ready"]
  /\ UNCHANGED <<clientVars, handled>>

(* Ack and Term are sent without confirmation: each arrives or is lost.    *)
EventAnswer(e, state) ==
  \/ eventState' = [eventState EXCEPT ![e] = state]
  \/ UNCHANGED eventState

-----------------------------------------------------------------------------
(* handleMsg.                                                              *)

HandleMsg ==
  /\ event = NoEvent /\ inbox # <<>>
  /\ event' = Head(inbox) /\ inbox' = Tail(inbox)
  /\ eventPc' = "extract"
  /\ UNCHANGED <<eventState, decSub, handled>>

(* Mutant of RejectEvent: a malformed event is only logged.                *)
RejectEventSilently ==
  /\ event \in Malformed /\ eventPc = "extract"
  /\ event' = NoEvent
  /\ UNCHANGED <<eventState, decSub, inbox, eventPc, handled>>

RejectEvent ==
  /\ event \in Malformed /\ eventPc = "extract"
  /\ EventAnswer(event, "termed")
  /\ event' = NoEvent
  /\ UNCHANGED <<decSub, inbox, eventPc, handled>>

RemoveGateway ==
  /\ event \in Events \ Malformed /\ eventPc = "extract"
  /\ handled' = handled \cup {event}
  /\ eventPc' = "ack"
  /\ UNCHANGED <<eventState, decSub, inbox, event>>

AckEvent ==
  /\ event # NoEvent /\ eventPc = "ack"
  /\ EventAnswer(event, "acked")
  /\ event' = NoEvent /\ eventPc' = "extract"
  /\ UNCHANGED <<decSub, inbox, handled>>

HandleMsgStep == HandleMsg \/ RejectEvent \/ RemoveGateway \/ AckEvent

-----------------------------------------------------------------------------
DecommissionTypeOK ==
  /\ eventState \in [Events -> {"ready", "outstanding", "acked", "termed"}]
  /\ decSub \in {"none", "active", "failed", "draining", "closed"}
  /\ inbox \in Seq(Events)
  /\ event \in Events \cup {NoEvent} /\ eventPc \in {"extract", "ack"}
  /\ handled \subseteq Events

(* An event that JetStream will not deliver again has done its work: it    *)
(* was handled if acknowledged, and malformed if terminated; a malformed   *)
(* one is never handled.  Crashes between the two and lost answers do not  *)
(* change that.                                                            *)
ClosedEventsAreDone ==
  \A e \in Events : /\ eventState[e] = "acked"  => e \in handled
                    /\ eventState[e] = "termed" => e \in Malformed
                    /\ e \in handled => e \notin Malformed

(* The inductive invariant: an event is not acknowledged before            *)
(* HandleDecommission returned.                                            *)
EventsInv ==
  /\ DecommissionTypeOK /\ ClosedEventsAreDone
  /\ eventPc = "ack" => event \in handled

=============================================================================
