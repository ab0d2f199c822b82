----------------------------- MODULE MCService ------------------------------
(* An instance of Service for TLC.  The environments differ from one that  *)
(* works in one numeric variable, or in at most two that Load rejects.     *)
(* Numbers have 8 bits, int32 has 5 and a millisecond 3 nanoseconds, so    *)
(* that 15 is the largest size of a pool and 42 the longest interval.      *)
EXTENDS Service

CONSTANTS e1, bad

MCDefaults == [k \in NumericKeys |-> 1]

Works == [given |-> RequiredKeys, number |-> [k \in NumericKeys |-> NotSet],
          sslMode |-> "require", rootCert |-> FALSE]

(* What main decides by, at its edges.                                     *)
Edges ==
  { <<"DB_PORT", 0>>, <<"NATS_CONNECT_TIMEOUT_SECONDS", -1>>,
    <<"DB_MAX_CONNS", 0>>, <<"DB_MAX_CONNS", 16>>, <<"DB_MAX_CONNS", 15>>,
    <<"GATEWAY_BUFFER_SIZE", -1>>, <<"GATEWAY_BUFFER_SIZE", 0>>,
    <<"HEARTBEAT_TICK_MS", 0>>, <<"HEARTBEAT_TICK_MS", 42>>,
    <<"HEARTBEAT_TICK_MS", 43>>, <<"ALERT_CONFIG_REFRESH_MS", -1>>,
    <<"ALERT_CONFIG_REFRESH_MS", 43>>, <<"HEARTBEAT_GRACE_PERIOD_MS", 0>> }

OneNumber == {[Works EXCEPT !.number[x[1]] = x[2]] : x \in Edges}

TLS == {[Works EXCEPT !.sslMode = mode, !.rootCert = cert] :
          mode \in SSLModes \cup {"prefer"}, cert \in BOOLEAN}

(* Each variable missing or not a number, then any two of them.            *)
Spoil(e, key) ==
  IF key \in RequiredKeys THEN [e EXCEPT !.given = @ \ {key}]
                          ELSE [e EXCEPT !.number[key] = NotANumber]
Spoiled == {Spoil(e, k) : e \in TLS, k \in RequiredKeys \cup NumericKeys}
TwiceSpoiled == {Spoil(Spoil(Works, k1), k2) :
                   k1 \in RequiredKeys \cup NumericKeys,
                   k2 \in RequiredKeys \cup NumericKeys}

MCSuccessors == {Works, [Works EXCEPT !.number["GATEWAY_BUFFER_SIZE"] = 0]}

MCEnvironments == {Works} \cup OneNumber \cup TLS \cup Spoiled \cup TwiceSpoiled

File(n) == [name |-> n, dir |-> FALSE, sql |-> TRUE]
MCListing == <<[name |-> 3, dir |-> FALSE, sql |-> FALSE], File(2), File(1),
               [name |-> 0, dir |-> TRUE, sql |-> TRUE]>>
=============================================================================
