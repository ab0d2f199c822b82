---------------------------- MODULE RequestReply ----------------------------
(***************************************************************************)
(* One call of requestWithRetry (internal/adapter/driven/nats_rr_client.go)*)
(* to the management API: attempts with a timeout each, backoff sleeps     *)
(* that ctx cancels, and a reply inbox per attempt, so that the reply to   *)
(* an attempt that timed out is not taken for the reply to a later one.    *)
(* A module that calls it EXTENDS this one, starts a call with StartCall,  *)
(* reads the outcome when rrPc is "ok" or "failed" and ends it with        *)
(* EndCall.                                                                *)
(***************************************************************************)
EXTENDS Integers, Sequences

CONSTANTS
  RRMaxRetries,  \* maxRetries: retries after the first attempt
  RRTimeout,     \* timeout of one attempt
  RRBackoff,     \* the sequence of backoff delays
  Garbage        \* a reply the caller cannot decode or accept

ASSUME RRAssumption ==
  /\ RRMaxRetries \in Nat /\ RRTimeout \in Nat
  /\ RRBackoff \in Seq(Nat) /\ RRBackoff # <<>>

VARIABLES
  ctxDone,    \* the caller's context is cancelled
  remote,     \* what the management API would answer now
  rrPc,       \* "idle", "send", "await", "sleep", "ok" or "failed"
  attempt,    \* attempts are numbered from 0
  requests,   \* attempts whose request the API has not handled
  replies,    \* replies on their way: attempt and body
  result,     \* the reply that was accepted
  spent,      \* history: time the call has taken
  sinceSent   \* history: values of remote since this attempt was sent

rrVars == <<rrPc, attempt, requests, replies, result, spent, sinceSent>>

RRInit ==
  /\ rrPc = "idle" /\ attempt = 0
  /\ requests = {} /\ replies = {} /\ result = Garbage
  /\ spent = 0 /\ sinceSent = {}

StartCall ==
  /\ rrPc = "idle"
  /\ rrPc' = "send" /\ attempt' = 0
  /\ requests' = {} /\ replies' = {} /\ result' = Garbage
  /\ spent' = 0 /\ sinceSent' = {}

(* The outcome has been used; nobody listens to this call's inboxes now.   *)
EndCall ==
  /\ rrPc \in {"ok", "failed"}
  /\ rrPc' = "idle" /\ attempt' = 0
  /\ requests' = {} /\ replies' = {} /\ result' = Garbage
  /\ spent' = 0 /\ sinceSent' = {}

-----------------------------------------------------------------------------
(* Mutant of GiveUpOrSleep: one attempt more than maxRetries allows.       *)
GiveUpOneLater == rrPc' = IF attempt > RRMaxRetries THEN "failed" ELSE "sleep"

GiveUpOrSleep == rrPc' = IF attempt = RRMaxRetries THEN "failed" ELSE "sleep"

(* RequestWithContext sends nothing when the context is already cancelled. *)
SendRequest ==
  /\ rrPc = "send"
  /\ IF ctxDone
     THEN GiveUpOrSleep /\ UNCHANGED <<requests, sinceSent>>
     ELSE /\ rrPc' = "await"
          /\ requests' = requests \cup {attempt}
          /\ sinceSent' = {remote}
  /\ UNCHANGED <<ctxDone, remote, attempt, replies, result, spent>>

(* The API handles a request, at any time, and may refuse it or answer     *)
(* something else.                                                         *)
ServerAnswers(a, body) ==
  /\ a \in requests
  /\ requests' = requests \ {a}
  /\ replies' = replies \cup {[attempt |-> a, body |-> body]}
  /\ UNCHANGED <<ctxDone, remote, rrPc, attempt, result, spent, sinceSent>>

Durations == {0, RRTimeout}

(* Mutant of ReplyArrives: the reply to an earlier attempt is accepted.    *)
LateReplyArrives ==
  /\ rrPc = "await"
  /\ \E r \in replies, d \in Durations :
       result' = r.body /\ spent' = spent + d
  /\ rrPc' = "ok"
  /\ UNCHANGED <<ctxDone, remote, attempt, requests, replies, sinceSent>>

ReplyArrives ==
  /\ rrPc = "await"
  /\ \E r \in replies, d \in Durations :
       /\ r.attempt = attempt
       /\ result' = r.body
       /\ spent' = spent + d
  /\ rrPc' = "ok"
  /\ UNCHANGED <<ctxDone, remote, attempt, requests, replies, sinceSent>>

(* The attempt timed out, found nobody listening, or ctx was cancelled.    *)
AttemptFails ==
  /\ rrPc = "await"
  /\ GiveUpOrSleep
  /\ \E d \in Durations : spent' = spent + d
  /\ UNCHANGED <<ctxDone, remote, attempt, requests, replies, result,
                 sinceSent>>

(* backoff[min(attempt, len(backoff)-1)], with Go's index from 0.          *)
Delay == RRBackoff[IF attempt < Len(RRBackoff) THEN attempt + 1
                   ELSE Len(RRBackoff)]

SleepOver ==
  /\ rrPc = "sleep"
  /\ rrPc' = "send" /\ attempt' = attempt + 1 /\ spent' = spent + Delay
  /\ UNCHANGED <<ctxDone, remote, requests, replies, result, sinceSent>>

SleepCancelled ==
  /\ rrPc = "sleep" /\ ctxDone
  /\ rrPc' = "failed" /\ spent' \in {spent, spent + Delay}
  /\ UNCHANGED <<ctxDone, remote, attempt, requests, replies, result,
                 sinceSent>>

RRStep ==
  SendRequest \/ ReplyArrives \/ AttemptFails \/ SleepOver \/ SleepCancelled

-----------------------------------------------------------------------------
(* The time all the backoff sleeps of a call take together.                *)
Backoffs[k \in 0..RRMaxRetries] ==
  IF k = 0 THEN 0
  ELSE Backoffs[k - 1] + RRBackoff[IF k < Len(RRBackoff) THEN k
                                   ELSE Len(RRBackoff)]

(* However attempts and sleeps follow each other, a call returns within    *)
(* maxRetries+1 timeouts and the backoff delays between them (27 seconds   *)
(* with the service's values): the longest Tick waits for one gateway.     *)
CallIsBounded ==
  spent <= (RRMaxRetries + 1) * RRTimeout + Backoffs[RRMaxRetries]

(* The rest is why that holds, attempt by attempt: nobody sleeps after the *)
(* last one.                                                               *)
BudgetOK ==
  /\ rrPc \in {"send", "await"} =>
       spent <= attempt * RRTimeout + Backoffs[attempt]
  /\ rrPc = "sleep" =>
       /\ attempt < RRMaxRetries
       /\ spent <= (attempt + 1) * RRTimeout + Backoffs[attempt]

(* A request and a reply belong to an attempt that was sent, and the reply *)
(* to the attempt that is waited for is younger than that attempt.         *)
ReplyOK ==
  /\ \A r \in replies : r.attempt \in 0..attempt
  /\ rrPc = "send" => /\ attempt \notin requests
                      /\ \A r \in replies : r.attempt # attempt
  /\ rrPc = "await" =>
       /\ remote \in sinceSent
       /\ \A r \in replies :
            r.attempt = attempt => r.body \in sinceSent \cup {Garbage}
  /\ rrPc = "ok" => result \in sinceSent \cup {Garbage}

RRTypeOK ==
  /\ rrPc \in {"idle", "send", "await", "sleep", "ok", "failed"}
  /\ attempt \in 0..RRMaxRetries /\ requests \subseteq 0..attempt
  /\ spent \in Nat

=============================================================================
