-------------------------- MODULE TelemetryConsumer -------------------------
(***************************************************************************)
(* The telemetry consumer of internal/adapter/driving/                     *)
(* nats_telemetry_consumer.go between a JetStream durable consumer with    *)
(* manual acknowledgement and the telemetry table:                         *)
(*   - the subscription callback, which runs processMessage and then       *)
(*     enqueuePending, one message at a time;                              *)
(*   - flushLoop, which fills a buffer from the pending channel, writes it *)
(*     as one batch and settles (Ack, NakWithDelay, Term) each message.    *)
(* A message may be delivered again while an earlier delivery of it is     *)
(* still in the process, so what travels here are deliveries.              *)
(*                                                                         *)
(* The stream keeps every message until it is settled: its max_age of 30   *)
(* days is left out.                                                       *)
(***************************************************************************)
EXTENDS Integers, Sequences, FiniteSets

CONSTANTS
  Msgs,         \* the messages of the stream
  Bad,          \* those with a wrong subject or an invalid body
  Refused,      \* those whose row the table never takes, though they parse
  NoMsg,        \* "the callback is not running"
  BatchSize,    \* batchSize; the pending channel holds twice as many
  MaxCopies,    \* bound: deliveries of one message in the process at once
  MaxRestarts,  \* bound: crashes and redeployments of the process
  Many          \* bound: rows and deliveries of a message are counted up to it

ASSUME MsgsAssumption ==
  Bad \subseteq Msgs /\ Refused \subseteq Msgs \ Bad /\ NoMsg \notin Msgs
ASSUME SizesAssumption ==
  /\ BatchSize \in Nat \ {0}
  /\ MaxCopies \in Nat \ {0}
  /\ MaxRestarts \in Nat
  /\ Many \in Nat \ {0}

VARIABLES
  server,    \* JetStream: "ready" to deliver, "outstanding", "acked", "termed"
  durable,   \* the durable consumer: "created" by the subscription of this
             \* process, "found" by it, or "deleted"
  rows,      \* telemetry table: rows per message, counted up to Many
  inCall,    \* the message whose callback is running, or NoMsg
  callPc,    \* "process" or "enqueue"
  pending,   \* the pending channel
  buf,       \* the buffer of flushLoop, settled from its head on
  loopPc,    \* where flushLoop is
  last,      \* this flush is the one before flushLoop returns
  writeErr,  \* of the last batch: "nil", "db" or "ctx" (context cancelled)
  ctxDone,   \* ctx is cancelled
  restarts,
  heard,     \* history: messages handed to HandleTelemetry
  delivered, \* history: deliveries per message, counted up to Many
  uncommitted \* history: messages without a row, of a batch whose commit
              \* failed although WriteBatch returned nil

callVars   == <<inCall, callPc>>
loopVars   == <<buf, loopPc, last, writeErr>>
remoteVars == <<server, durable, rows>>
pastVars   == <<heard, delivered, uncommitted>>
vars == <<remoteVars, callVars, pending, loopVars, ctxDone, restarts, pastVars>>

UpToMany(n) == IF n > Many THEN Many ELSE n
Settled(m) == server[m] \in {"acked", "termed"}

Elements(s) == {s[i] : i \in 1..Len(s)}
Occurrences(s, m) == Cardinality({i \in 1..Len(s) : s[i] = m})

Copies(m) ==
  Occurrences(pending, m) + Occurrences(buf, m) + IF inCall = m THEN 1 ELSE 0

Init ==
  /\ server = [m \in Msgs |-> "ready"] /\ durable \in {"created", "found"}
  /\ rows = [m \in Msgs |-> 0]
  /\ inCall = NoMsg /\ callPc = "process"
  /\ pending = <<>> /\ buf = <<>>
  /\ loopPc = "select" /\ last = FALSE /\ writeErr = "nil"
  /\ ctxDone = FALSE /\ restarts = 0
  /\ heard = {} /\ delivered = [m \in Msgs |-> 0] /\ uncommitted = {}

-----------------------------------------------------------------------------
(* The server.  Ready messages are delivered in any order: redeliveries    *)
(* overtake first deliveries.  Delivery goes on after ctx is cancelled, as *)
(* Drain lets the callbacks of messages already received run.              *)

Deliver(m) ==
  /\ server[m] = "ready" /\ durable # "deleted" /\ inCall = NoMsg
  /\ server' = [server EXCEPT ![m] = "outstanding"]
  /\ inCall' = m /\ callPc' = "process"
  /\ delivered' = [delivered EXCEPT ![m] = UpToMany(@ + 1)]
  /\ UNCHANGED <<durable, rows, pending, loopVars, ctxDone, restarts, heard,
                 uncommitted>>

(* AckWait passed without an answer.                                       *)
AckWaitExpires(m) ==
  /\ server[m] = "outstanding" /\ Copies(m) < MaxCopies
  /\ durable # "deleted"
  /\ server' = [server EXCEPT ![m] = "ready"]
  /\ UNCHANGED <<durable, rows, callVars, pending, loopVars, ctxDone,
                 restarts, pastVars>>

(* What the three answers do when they arrive; a settled message stays so. *)
Answer(m, state) ==
  server' = IF Settled(m) THEN server ELSE [server EXCEPT ![m] = state]

(* Ack, NakWithDelay and Term are published without waiting for a reply    *)
(* and their errors are ignored: each one arrives or is lost.              *)
Ack(m)  == Answer(m, "acked")  \/ UNCHANGED server
Nak(m)  == Answer(m, "ready")  \/ UNCHANGED server
Term(m) == Answer(m, "termed") \/ UNCHANGED server

-----------------------------------------------------------------------------
(* The callback.                                                           *)

(* Mutant of ProcessMessage: the handler is called before validation.      *)
ProcessMessageUnchecked ==
  /\ inCall # NoMsg /\ callPc = "process"
  /\ callPc' = "enqueue"
  /\ heard' = heard \cup {inCall}
  /\ UNCHANGED <<remoteVars, inCall, pending, loopVars, ctxDone, restarts,
                 delivered, uncommitted>>

(* processMessage: a message that cannot be parsed never reaches the       *)
(* handler; any other one refreshes the heartbeat before it is stored.     *)
(* The error HandleTelemetry may return by its signature it never returns  *)
(* (heartbeat_tracker.go:159), so every error here is a permanent one.     *)
ProcessMessage ==
  /\ inCall # NoMsg /\ callPc = "process"
  /\ callPc' = "enqueue"
  /\ heard' = IF inCall \in Bad THEN heard ELSE heard \cup {inCall}
  /\ UNCHANGED <<remoteVars, inCall, pending, loopVars, ctxDone, restarts,
                 delivered, uncommitted>>

(* Mutant of EnqueuePending: the channel takes one message too many.       *)
EnqueueOneTooMany ==
  /\ inCall # NoMsg /\ callPc = "enqueue"
  /\ Len(pending) <= 2 * BatchSize
  /\ pending' = Append(pending, inCall)
  /\ inCall' = NoMsg /\ callPc' = "process"
  /\ UNCHANGED <<remoteVars, loopVars, ctxDone, restarts, pastVars>>

(* enqueuePending blocks until there is room, or until ctx is cancelled;   *)
(* when both hold either may be chosen.                                    *)
EnqueuePending ==
  /\ inCall # NoMsg /\ callPc = "enqueue"
  /\ Len(pending) < 2 * BatchSize
  /\ pending' = Append(pending, inCall)
  /\ inCall' = NoMsg /\ callPc' = "process"
  /\ UNCHANGED <<remoteVars, loopVars, ctxDone, restarts, pastVars>>

(* Mutant of EnqueueCancelled: at shutdown every message is terminated.    *)
EnqueueCancelledTerms ==
  /\ inCall # NoMsg /\ callPc = "enqueue" /\ ctxDone
  /\ Term(inCall)
  /\ inCall' = NoMsg /\ callPc' = "process"
  /\ UNCHANGED <<durable, rows, pending, loopVars, ctxDone, restarts,
                 pastVars>>

EnqueueCancelled ==
  /\ inCall # NoMsg /\ callPc = "enqueue" /\ ctxDone
  /\ IF inCall \in Bad THEN Term(inCall) ELSE Nak(inCall)
  /\ inCall' = NoMsg /\ callPc' = "process"
  /\ UNCHANGED <<durable, rows, pending, loopVars, ctxDone, restarts,
                 pastVars>>

-----------------------------------------------------------------------------
(* flushLoop: select between the pending channel, ctx.Done and the ticker. *)

Receive ==
  /\ loopPc = "select" /\ pending # <<>>
  /\ buf' = Append(buf, Head(pending)) /\ pending' = Tail(pending)
  /\ loopPc' = IF Len(buf') >= BatchSize THEN "flush" ELSE "select"
  /\ UNCHANGED <<remoteVars, callVars, last, writeErr, ctxDone, restarts,
                 pastVars>>

FlushTick ==
  /\ loopPc = "select" /\ buf # <<>>
  /\ loopPc' = "flush"
  /\ UNCHANGED <<remoteVars, callVars, pending, buf, last, writeErr, ctxDone,
                 restarts, pastVars>>

(* Mutant of FlushLoopDone: a break that leaves the select and not the     *)
(* loop.                                                                   *)
FlushLoopBreaksSelect ==
  /\ loopPc = "select" /\ ctxDone
  /\ loopPc' = IF buf = <<>> THEN "select" ELSE "flush"
  /\ UNCHANGED <<remoteVars, callVars, pending, buf, last, writeErr, ctxDone,
                 restarts, pastVars>>

(* The last flush; what is left in the pending channel stays there.        *)
FlushLoopDone ==
  /\ loopPc = "select" /\ ctxDone
  /\ last' = TRUE
  /\ loopPc' = IF buf = <<>> THEN "stopped" ELSE "flush"
  /\ UNCHANGED <<remoteVars, callVars, pending, buf, writeErr, ctxDone,
                 restarts, pastVars>>

Valid == Elements(buf) \ Bad

(* writeBatch, up to the call of WriteBatch: no call without valid rows,   *)
(* and a cancelled context fails the call before it reaches the database.  *)
WriteBatchStart ==
  /\ loopPc = "flush"
  /\ IF Valid = {} \/ ctxDone
     THEN loopPc' = "settle" /\ writeErr' = IF Valid = {} THEN "nil" ELSE "ctx"
     ELSE loopPc' = "write" /\ writeErr' = "nil"
  /\ UNCHANGED <<remoteVars, callVars, pending, buf, last, ctxDone, restarts,
                 pastVars>>

(* One implicit transaction: every valid row of the batch, or none.  A row *)
(* that does not fit its columns (key_version is an INTEGER, KeyVersion an *)
(* int) fails the batch it is in.                                          *)
Storable == Valid \cap Refused = {}

Stored ==
  [m \in Msgs |->
     IF m \in Valid THEN UpToMany(rows[m] + Occurrences(buf, m)) ELSE rows[m]]

WriteBatchReturns(err, table, lost) ==
  /\ loopPc = "write"
  /\ rows' = table /\ writeErr' = err
  /\ uncommitted' = {m \in uncommitted \cup lost : table[m] = 0}
  /\ loopPc' = "settle"
  /\ UNCHANGED <<server, durable, callVars, pending, buf, last, ctxDone,
                 restarts, heard, delivered>>

WriteBatchOk == Storable /\ WriteBatchReturns("nil", Stored, {})

(* Every Exec returned nil, then the commit failed: its error is that of   *)
(* BatchResults.Close, which WriteBatch drops.                             *)
WriteBatchUncommitted == Storable /\ WriteBatchReturns("nil", rows, Valid)

(* Mutant of WriteBatchFails: a failed batch is written again at once.     *)
WriteBatchRetriesInPlace ==
  /\ loopPc = "write"
  /\ rows' \in {rows, Stored}
  /\ UNCHANGED <<server, durable, callVars, pending, loopVars, ctxDone,
                 restarts, pastVars>>

(* The batch was refused, or committed without the process learning of it. *)
WriteBatchFails ==
  \E table \in IF Storable THEN {rows, Stored} ELSE {rows} :
    WriteBatchReturns("db", table, {})

(* Mutant of Settle: the error of the batch is not looked at.              *)
SettleAcks ==
  /\ loopPc = "settle" /\ buf # <<>>
  /\ LET m == Head(buf) IN IF m \in Bad THEN Term(m) ELSE Ack(m)
  /\ buf' = Tail(buf)
  /\ UNCHANGED <<durable, rows, callVars, pending, loopPc, last, writeErr,
                 ctxDone, restarts, pastVars>>

(* Mutant of Settle: the Ack after a stored batch is forgotten.            *)
SettleWithoutAck ==
  /\ loopPc = "settle" /\ buf # <<>>
  /\ LET m == Head(buf) IN
     IF m \in Bad THEN Term(m)
     ELSE IF writeErr # "nil" THEN Nak(m) ELSE UNCHANGED server
  /\ buf' = Tail(buf)
  /\ UNCHANGED <<durable, rows, callVars, pending, loopPc, last, writeErr,
                 ctxDone, restarts, pastVars>>

(* The loop over the batch: one answer per message.                        *)
Settle ==
  /\ loopPc = "settle" /\ buf # <<>>
  /\ LET m == Head(buf) IN
     IF m \in Bad THEN Term(m) ELSE IF writeErr # "nil" THEN Nak(m) ELSE Ack(m)
  /\ buf' = Tail(buf)
  /\ UNCHANGED <<durable, rows, callVars, pending, loopPc, last, writeErr,
                 ctxDone, restarts, pastVars>>

FlushDone ==
  /\ loopPc = "settle" /\ buf = <<>>
  /\ loopPc' = IF last THEN "stopped" ELSE "select"
  /\ writeErr' = "nil"
  /\ UNCHANGED <<remoteVars, callVars, pending, buf, last, ctxDone, restarts,
                 pastVars>>

-----------------------------------------------------------------------------
(* SIGTERM, and the death of the process, whether after Run returned or in *)
(* the middle of anything; a new process then takes over the durable.  The *)
(* last process of a behaviour is not told to stop.                        *)

Cancel ==
  /\ ~ctxDone /\ restarts < MaxRestarts
  /\ ctxDone' = TRUE
  /\ UNCHANGED <<remoteVars, callVars, pending, loopVars, restarts, pastVars>>

(* Run's deferred sub.Drain, once the callback has returned.  nats.go then *)
(* deletes a durable consumer that this subscription created: the next     *)
(* process creates it anew and is given the whole stream again.  The       *)
(* process may be gone before that.                                        *)
SubscriptionDrained ==
  /\ loopPc = "stopped" /\ inCall = NoMsg /\ durable = "created"
  /\ durable' = "deleted"
  /\ server' = [m \in Msgs |-> "ready"]
  /\ UNCHANGED <<rows, callVars, pending, loopVars, ctxDone, restarts,
                 pastVars>>

Restart ==
  /\ restarts < MaxRestarts
  /\ restarts' = restarts + 1
  /\ inCall' = NoMsg /\ callPc' = "process"
  /\ pending' = <<>> /\ buf' = <<>>
  /\ loopPc' = "select" /\ last' = FALSE /\ writeErr' = "nil"
  /\ ctxDone' = FALSE
  /\ durable' = IF durable = "deleted" THEN "created" ELSE "found"
  /\ UNCHANGED <<server, rows, pastVars>>

CallbackStep == ProcessMessage \/ EnqueuePending \/ EnqueueCancelled

LoopStep ==
  \/ Receive \/ FlushTick \/ FlushLoopDone
  \/ WriteBatchStart
  \/ WriteBatchOk \/ WriteBatchUncommitted \/ WriteBatchFails
  \/ Settle \/ FlushDone

Next ==
  \/ \E m \in Msgs : Deliver(m) \/ AckWaitExpires(m)
  \/ CallbackStep
  \/ LoopStep
  \/ Cancel \/ SubscriptionDrained \/ Restart

Spec == Init /\ [][Next]_vars

(* The goroutines run, and a select does not pass over ctx.Done for ever   *)
(* (Go picks among the ready cases at random).  JetStream delivers what is *)
(* ready and redelivers what is not answered, and a process that stopped   *)
(* is started again.  The outside is not against one message for ever: a   *)
(* batch with it is accepted now and then, and one of its answers arrives. *)
Fairness ==
  /\ WF_vars(CallbackStep) /\ WF_vars(LoopStep) /\ SF_vars(FlushLoopDone)
  /\ WF_vars(Restart /\ loopPc = "stopped")
  /\ \A m \in Msgs :
       /\ SF_vars(Deliver(m)) /\ WF_vars(AckWaitExpires(m))
       /\ SF_vars(Settle /\ Settled(m)' /\ m = Head(buf))
  /\ \A m \in Msgs \ Bad : SF_vars(WriteBatchOk /\ m \in Valid)

LiveSpec == Spec /\ Fairness

-----------------------------------------------------------------------------
(* The type of every variable; the pending channel and the buffer stay     *)
(* within their capacities.                                                *)
TypeOK ==
  /\ server \in [Msgs -> {"ready", "outstanding", "acked", "termed"}]
  /\ durable \in {"created", "found", "deleted"}
  /\ rows \in [Msgs -> 0..Many]
  /\ inCall \in Msgs \cup {NoMsg} /\ callPc \in {"process", "enqueue"}
  /\ pending \in Seq(Msgs) /\ Len(pending) <= 2 * BatchSize
  /\ buf \in Seq(Msgs) /\ Len(buf) <= BatchSize
  /\ loopPc \in {"select", "flush", "write", "settle", "stopped"}
  /\ last \in BOOLEAN
  /\ writeErr \in {"nil", "db", "ctx"}
  /\ ctxDone \in BOOLEAN /\ restarts \in 0..MaxRestarts
  /\ heard \subseteq Msgs
  /\ delivered \in [Msgs -> 0..Many]
  /\ uncommitted \subseteq Msgs

(* A message that JetStream will not deliver again because it was          *)
(* acknowledged is in the table, whatever was lost, retried or cut short   *)
(* by a crash; the one way to lose it is a commit that failed with no      *)
(* error from any Exec.                                                    *)
LostOnlyByCommit ==
  \A m \in Msgs : server[m] = "acked" => rows[m] > 0 \/ m \in uncommitted

(* Only a malformed message is terminated, and "Term()d message must not   *)
(* produce a DB row": not even by another delivery of it, or at shutdown.  *)
TermedIsMalformed ==
  \A m \in Msgs : server[m] = "termed" => m \in Bad /\ rows[m] = 0

(* At least once, and no more: the table has no unique key, so a message   *)
(* has as many rows as JetStream deliveries of it were stored, and one     *)
(* delivery never makes two.                                               *)
OneRowPerDelivery == \A m \in Msgs : rows[m] <= delivered[m]

(* A stored row has refreshed the heartbeat of its gateway, and a message  *)
(* that is rejected never does.                                            *)
StoredIsHeard == \A m \in Msgs : /\ rows[m] > 0 => m \in heard
                                 /\ m \in heard => m \notin Bad

(* What makes the four inductive.  The buffer has room whenever flushLoop  *)
(* selects, and the callback waits for the channel with a message in hand. *)
PlacesOK ==
  /\ loopPc = "select" => Len(buf) < BatchSize
  /\ callPc = "enqueue" => inCall # NoMsg

(* Between a batch written without error and the last of its answers,      *)
(* whatever is still to be acknowledged is in the table, or was lost by    *)
(* the commit.                                                             *)
BatchIsStored ==
  loopPc = "settle" /\ writeErr = "nil" =>
    \A m \in Valid : rows[m] > 0 \/ m \in uncommitted

(* What waits to be stored has been handed to HandleTelemetry.             *)
Held == Elements(pending) \cup Elements(buf)
        \cup IF callPc = "enqueue" THEN {inCall} ELSE {}

HeldIsHeard == Held \ Bad \subseteq heard

(* A copy that can still make a row is one delivery, and a delivery that   *)
(* made a row is no longer a copy.                                         *)
Unwritten(m) ==
  Occurrences(pending, m)
  + (IF loopPc \in {"select", "flush", "write"} THEN Occurrences(buf, m) ELSE 0)
  + (IF inCall = m THEN 1 ELSE 0)

CopiesCounted ==
  \A m \in Msgs : delivered[m] < Many => rows[m] + Unwritten(m) <= delivered[m]

(* The inductive invariant of the proofs.                                  *)
TelemetryInv ==
  /\ TypeOK /\ PlacesOK
  /\ LostOnlyByCommit /\ BatchIsStored
  /\ StoredIsHeard /\ HeldIsHeard
  /\ TermedIsMalformed /\ CopiesCounted

(* Every message of the stream is in the end acknowledged or terminated,   *)
(* and left alone from then on, in spite of refused batches, lost answers, *)
(* messages left in the pending channel at shutdown, crashes and a durable *)
(* consumer that starts over.                                              *)
EveryMessageSettled == \A m \in Msgs : <>[]Settled(m)

-----------------------------------------------------------------------------
(* What the README says, and the code does not do.                         *)

(* "write every message verbatim to TimescaleDB": what is acknowledged,    *)
(* and so will not come again, is in the table.                            *)
AckedIsStored == \A m \in Msgs : server[m] = "acked" => rows[m] > 0

(* "write every message verbatim to TimescaleDB": whatever the table can   *)
(* take is stored in the end, also when another message of the stream      *)
(* cannot be.  (A failed commit, which loses it as well, is another way.)  *)
StorableIsStored ==
  \A m \in Msgs \ (Bad \cup Refused) : <>(rows[m] > 0 \/ m \in uncommitted)

=============================================================================
