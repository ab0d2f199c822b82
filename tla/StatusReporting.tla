-------------------------- MODULE StatusReporting ---------------------------
(***************************************************************************)
(* What the heartbeat tracker promises the management API and the alert    *)
(* stream, gateway by gateway, until the gateway is decommissioned:        *)
(* reports alternate between Online and Offline, the first one of each     *)
(* life of the process is Online, and an Offline report is always preceded *)
(* by one acknowledged alert of its own.                                   *)
(***************************************************************************)
CONSTANT Gateways

VARIABLES
  told,    \* the last report: "none", "online", "offline" or "forgotten"
  alerted  \* gateways with an acknowledged alert not yet reported

vars == <<told, alerted>>

Init ==
  /\ told = [g \in Gateways |-> "none"]
  /\ alerted = {}

ReportOnline(g) ==
  /\ told[g] \in {"none", "offline"}
  /\ told' = [told EXCEPT ![g] = "online"]
  /\ UNCHANGED alerted

Alert(g) ==
  /\ told[g] = "online" /\ g \notin alerted
  /\ alerted' = alerted \cup {g}
  /\ UNCHANGED told

ReportOffline(g) ==
  /\ told[g] = "online" /\ g \in alerted
  /\ told' = [told EXCEPT ![g] = "offline"]
  /\ alerted' = alerted \ {g}

(* Nothing is promised about a decommissioned gateway.                     *)
Forget(g) ==
  /\ told' = [told EXCEPT ![g] = "forgotten"]
  /\ alerted' = alerted \ {g}

(* A new process knows nothing of what the previous one reported.          *)
Restart ==
  /\ told' = [g \in Gateways |->
                IF told[g] = "forgotten" THEN "forgotten" ELSE "none"]
  /\ alerted' = {}

Next ==
  \/ \E g \in Gateways :
       ReportOnline(g) \/ Alert(g) \/ ReportOffline(g) \/ Forget(g)
  \/ Restart

Spec == Init /\ [][Next]_vars

=============================================================================
