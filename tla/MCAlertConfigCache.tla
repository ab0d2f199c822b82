------------------------- MODULE MCAlertConfigCache -------------------------
(* An instance of AlertConfigCache for TLC.  Its lists have an entry that  *)
(* a later one replaces, for a gateway and for a tenant, a gateway with and *)
(* without an entry, and nothing at all.                                   *)
EXTENDS AlertConfigCache

CONSTANTS t1, gw1, gw2

Entry(g, ms) == [tenant |-> t1, gateway |-> g, timeout |-> ms]

MCLists ==
  { <<Entry(gw1, 1), Entry(NoId, 2), Entry(gw1, 3)>>,
    <<Entry(NoId, 4), Entry(gw2, 1), Entry(NoId, 2)>>,
    <<>> }
MCBackoff == <<1, 2>>
=============================================================================
