-------------------------- MODULE AlertConfigCache --------------------------
(***************************************************************************)
(* The alert configuration cache of internal/adapter/driven/               *)
(* alert_config_cache.go: an initial fetch with retries of its own, then a *)
(* periodic refresh; both go through one RequestReply call per try and     *)
(* swap in a snapshot from which TimeoutFor answers without a lock.        *)
(* A gateway's key is a pair here, tenantID + "/" + gatewayID in the code: *)
(* both are UUIDs, so that neither contains a "/".                         *)
(***************************************************************************)
EXTENDS RequestReply, SequencesExt

CONSTANTS
  Tenants, GatewayIds,
  NoId,             \* GatewayID is nil: the entry is the tenant's default
  Lists,            \* the configuration lists the management API may hold
  DefaultTimeout,   \* defaultTimeoutMs
  MaxRetries,       \* maxRetries of the initial fetch
  InitialBackoff, MaxBackoff,
  MaxChanges        \* bound: changes of the configuration at the API

ASSUME CacheAssumption ==
  /\ NoId \notin GatewayIds
  /\ Lists \subseteq Seq([tenant : Tenants, gateway : GatewayIds \cup {NoId},
                          timeout : Int])
  /\ Garbage \notin Lists
  /\ MaxRetries \in Nat /\ MaxChanges \in Nat
  /\ InitialBackoff \in Nat /\ MaxBackoff \in Nat

VARIABLES
  snapshot,   \* the snapshot pointer: byGateway and byTenant
  cachePc,    \* where Run is
  tries,      \* attempt of fetchWithBackoff
  delay,      \* its next backoff delay
  changes,    \* changes of remote so far
  source      \* history: the list the snapshot was built from

cacheVars == <<snapshot, cachePc, tries, delay, source>>
vars == <<ctxDone, remote, changes, rrVars, cacheVars>>

-----------------------------------------------------------------------------
(* refresh: one pass over the list; a later entry replaces an earlier one  *)
(* for the same key.                                                       *)

EmptySnapshot == [byGateway |-> <<>>, byTenant |-> <<>>]

Put(f, k, v) == [x \in DOMAIN f \cup {k} |-> IF x = k THEN v ELSE f[x]]

(* Mutant of AddConfig: an entry for a known key is ignored.               *)
AddConfigOnce(snap, cfg) ==
  IF cfg.gateway # NoId
  THEN [snap EXCEPT !.byGateway =
          Put(@, <<cfg.tenant, cfg.gateway>>, cfg.timeout)]
  ELSE IF cfg.tenant \in DOMAIN snap.byTenant THEN snap
  ELSE [snap EXCEPT !.byTenant = Put(@, cfg.tenant, cfg.timeout)]

AddConfig(snap, cfg) ==
  IF cfg.gateway # NoId
  THEN [snap EXCEPT !.byGateway =
          Put(@, <<cfg.tenant, cfg.gateway>>, cfg.timeout)]
  ELSE [snap EXCEPT !.byTenant = Put(@, cfg.tenant, cfg.timeout)]

BuildSnapshot(configs) == FoldLeft(AddConfig, EmptySnapshot, configs)

TimeoutFor(tenant, gateway) ==
  IF <<tenant, gateway>> \in DOMAIN snapshot.byGateway
  THEN snapshot.byGateway[<<tenant, gateway>>]
  ELSE IF tenant \in DOMAIN snapshot.byTenant
  THEN snapshot.byTenant[tenant]
  ELSE DefaultTimeout

-----------------------------------------------------------------------------
Init ==
  /\ ctxDone = FALSE /\ changes = 0
  /\ remote \in Lists
  /\ RRInit
  /\ snapshot = EmptySnapshot /\ source = <<>>
  /\ cachePc = "fetch" /\ tries = 0 /\ delay = InitialBackoff

Swap ==
  /\ snapshot' = BuildSnapshot(result)
  /\ source' = result

(* fetchWithBackoff.                                                       *)
FetchStart ==
  /\ cachePc = "fetch" /\ tries < MaxRetries
  /\ StartCall
  /\ cachePc' = "fetching"
  /\ UNCHANGED <<ctxDone, remote, changes, snapshot, tries, delay, source>>

FetchOk ==
  /\ cachePc = "fetching" /\ rrPc = "ok" /\ result # Garbage
  /\ EndCall /\ Swap
  /\ cachePc' = "ready"
  /\ UNCHANGED <<ctxDone, remote, changes, tries, delay>>

FetchFailed ==
  /\ cachePc = "fetching"
  /\ rrPc = "failed" \/ (rrPc = "ok" /\ result = Garbage)
  /\ EndCall
  /\ cachePc' = "wait"
  /\ UNCHANGED <<ctxDone, remote, changes, snapshot, tries, delay, source>>

(* Mutant of WaitOver: the cap is applied before doubling.                 *)
WaitOverUncapped ==
  /\ cachePc = "wait"
  /\ cachePc' = "fetch" /\ tries' = tries + 1
  /\ delay' = 2 * (IF delay > MaxBackoff THEN MaxBackoff ELSE delay)
  /\ UNCHANGED <<ctxDone, remote, changes, rrVars, snapshot, source>>

(* The wait comes after every failed try, the last one included.           *)
WaitOver ==
  /\ cachePc = "wait"
  /\ cachePc' = "fetch" /\ tries' = tries + 1
  /\ delay' = IF 2 * delay > MaxBackoff THEN MaxBackoff ELSE 2 * delay
  /\ UNCHANGED <<ctxDone, remote, changes, rrVars, snapshot, source>>

(* Mutant of FetchGivesUp: Run returns when the initial fetch fails.       *)
FetchFailureIsFatal ==
  /\ \/ cachePc = "wait" /\ ctxDone
     \/ cachePc = "fetch" /\ tries = MaxRetries
  /\ cachePc' = "stopped"
  /\ UNCHANGED <<ctxDone, remote, changes, rrVars, snapshot, tries, delay,
                 source>>

(* Either way Run goes on with the refresh loop.                           *)
FetchGivesUp ==
  /\ \/ cachePc = "wait" /\ ctxDone
     \/ cachePc = "fetch" /\ tries = MaxRetries
  /\ cachePc' = "ready"
  /\ UNCHANGED <<ctxDone, remote, changes, rrVars, snapshot, tries, delay,
                 source>>

(* Run: the refresh loop.                                                  *)
RefreshStart ==
  /\ cachePc = "ready"
  /\ StartCall
  /\ cachePc' = "refreshing"
  /\ UNCHANGED <<ctxDone, remote, changes, snapshot, tries, delay, source>>

RefreshOk ==
  /\ cachePc = "refreshing" /\ rrPc = "ok" /\ result # Garbage
  /\ EndCall /\ Swap
  /\ cachePc' = "ready"
  /\ UNCHANGED <<ctxDone, remote, changes, tries, delay>>

RefreshFailed ==
  /\ cachePc = "refreshing"
  /\ rrPc = "failed" \/ (rrPc = "ok" /\ result = Garbage)
  /\ EndCall
  /\ cachePc' = "ready"
  /\ UNCHANGED <<ctxDone, remote, changes, snapshot, tries, delay, source>>

(* Mutant of RunStops: a break that leaves the select and not the loop.    *)
RunBreaksSelect ==
  /\ cachePc = "ready" /\ ctxDone
  /\ UNCHANGED vars

RunStops ==
  /\ cachePc = "ready" /\ ctxDone
  /\ cachePc' = "stopped"
  /\ UNCHANGED <<ctxDone, remote, changes, rrVars, snapshot, tries, delay,
                 source>>

CacheStep ==
  \/ FetchStart \/ FetchOk \/ FetchFailed \/ WaitOver \/ FetchGivesUp
  \/ RefreshStart \/ RefreshOk \/ RefreshFailed \/ RunStops

-----------------------------------------------------------------------------
(* The environment.                                                        *)
ConfigChanges ==
  /\ changes < MaxChanges
  /\ changes' = changes + 1
  /\ remote' \in Lists \ {remote}
  /\ sinceSent' = sinceSent \cup IF rrPc = "await" THEN {remote'} ELSE {}
  /\ UNCHANGED <<ctxDone, rrPc, attempt, requests, replies, result, spent,
                 cacheVars>>

Cancel ==
  /\ ~ctxDone /\ ctxDone' = TRUE
  /\ UNCHANGED <<remote, changes, rrVars, cacheVars>>

Answered(body) == \E a \in requests : ServerAnswers(a, body)

Next ==
  \/ CacheStep
  \/ (RRStep \/ Answered(remote) \/ Answered(Garbage))
       /\ UNCHANGED <<changes, cacheVars>>
  \/ ConfigChanges \/ Cancel

Spec == Init /\ [][Next]_vars

(* The goroutine runs, and its select does not pass over ctx.Done for ever.*)
(* The management API is not for ever silent, late or wrong: now and then  *)
(* it answers an attempt in time and correctly.                            *)
Fairness ==
  /\ WF_vars(CacheStep) /\ SF_vars(RunStops)
  /\ WF_vars(RRStep /\ UNCHANGED <<changes, cacheVars>>)
  /\ SF_vars(Answered(remote) /\ rrPc = "await" /\ attempt \in requests
             /\ attempt \notin requests' /\ UNCHANGED <<changes, cacheVars>>)
  /\ SF_vars(ReplyArrives /\ result' # Garbage
             /\ UNCHANGED <<changes, cacheVars>>)

LiveSpec == Spec /\ Fairness

-----------------------------------------------------------------------------
(* TimeoutFor follows the list the snapshot was built from: the last entry *)
(* for the gateway, else the last entry of the tenant without a gateway,   *)
(* else the default; as long as nothing was fetched, always the default.   *)
Reference(list, tenant, gateway) ==
  LET At(g) == {i \in 1..Len(list) :
                  list[i].tenant = tenant /\ list[i].gateway = g}
  IN IF At(gateway) # {} THEN list[Max(At(gateway))].timeout
     ELSE IF At(NoId) # {} THEN list[Max(At(NoId))].timeout
     ELSE DefaultTimeout

TimeoutsFollowList ==
  \A tenant \in Tenants, gateway \in GatewayIds :
    TimeoutFor(tenant, gateway) = Reference(source, tenant, gateway)

(* No late reply: what refresh stores is a list the management API held at *)
(* some moment since the accepted attempt was sent, never the answer to an *)
(* earlier attempt that timed out.                                         *)
RefreshIsFresh ==
  [][source' # source => source' \in sinceSent]_vars

(* The delay of the initial fetch doubles with each try up to its cap.     *)
Doubled[k \in 0..MaxRetries] ==
  IF k = 0 THEN InitialBackoff ELSE 2 * Doubled[k - 1]

DelayDoublesToCap ==
  delay = IF tries = 0 \/ Doubled[tries] <= MaxBackoff
          THEN Doubled[tries] ELSE MaxBackoff

(* The inductive invariant: the wait that follows a try is over before the *)
(* tries are.                                                              *)
CacheTypeOK ==
  /\ remote \in Lists /\ sinceSent \subseteq Lists
  /\ source \in Lists \cup {<<>>}
  /\ cachePc \in {"fetch", "fetching", "wait", "ready", "refreshing", "stopped"}
  /\ tries \in 0..MaxRetries
  /\ cachePc \in {"fetching", "wait"} => tries < MaxRetries

CacheInv ==
  /\ CacheTypeOK /\ RRTypeOK /\ BudgetOK /\ ReplyOK
  /\ CallIsBounded /\ DelayDoublesToCap /\ TimeoutsFollowList

(* The cache catches up: a configuration that stays in force is eventually *)
(* the one that TimeoutFor answers from, even when every try of the        *)
(* initial fetch failed; unless the service is stopped.                    *)
CatchesUp ==
  \A list \in Lists :
    remote = list ~> source = list \/ remote # list \/ ctxDone

(* Shutdown is not held up: once ctx is cancelled, Run returns.            *)
RunReturns == ctxDone ~> cachePc = "stopped"

=============================================================================
