---------------------------- MODULE ConfigLoader ----------------------------
(***************************************************************************)
(* internal/config/config.go: Load reads the environment variables in one  *)
(* fixed order, keeps the first error, and checks nothing of a number but  *)
(* that it is one.  The conversions main applies to the numbers are here   *)
(* too, with the widths at which they wrap.                                *)
(* An environment gives each required variable a value or not, each        *)
(* numeric one a number, NotSet or NotANumber (which includes numbers that *)
(* do not fit), and names a TLS mode, with a root certificate or not.      *)
(***************************************************************************)
EXTENDS Integers, Sequences
LOCAL INSTANCE SequencesExt

CONSTANTS
  NotSet,         \* a numeric variable that is empty
  NotANumber,     \* one that Atoi or ParseInt rejects
  NoError,        \* Load returned nil
  Defaults,       \* the defaults of the numeric variables
  MaxInt,         \* the largest int and int64: 2^63 - 1
  MaxInt32,       \* the largest int32
  NanosPerMilli   \* time.Millisecond

Required ==
  <<"NATS_URL", "NATS_TLS_CA", "NATS_TLS_CERT", "NATS_TLS_KEY",
    "DB_HOST", "DB_NAME", "DB_USER", "DB_PASSWORD_FILE">>

Numeric ==
  <<"DB_PORT", "NATS_CONNECT_TIMEOUT_SECONDS", "DB_MAX_CONNS", "DB_MIN_CONNS",
    "GATEWAY_BUFFER_SIZE", "HEARTBEAT_TICK_MS", "HEARTBEAT_GRACE_PERIOD_MS",
    "ALERT_CONFIG_REFRESH_MS", "ALERT_CONFIG_DEFAULT_TIMEOUT_MS",
    "ALERT_CONFIG_MAX_RETRIES", "ALERT_CONFIG_INITIAL_BACKOFF_MS",
    "ALERT_CONFIG_MAX_BACKOFF_MS">>

RequiredKeys == {Required[i] : i \in 1..Len(Required)}
NumericKeys  == {Numeric[i] : i \in 1..Len(Numeric)}

SSLModes     == {"disable", "require", "verify-ca", "verify-full"}
VerifyModes  == {"verify-ca", "verify-full"}

ASSUME WidthsAssumption ==
  /\ MaxInt \in Nat /\ MaxInt32 \in Nat /\ MaxInt32 < MaxInt
  /\ NanosPerMilli \in Nat \ {0}
ASSUME DefaultsAssumption == Defaults \in [NumericKeys -> Nat]
ASSUME ValuesAssumption ==
  /\ NotSet # NotANumber /\ NotSet \notin Int /\ NotANumber \notin Int
  /\ NoError \notin RequiredKeys \cup NumericKeys
                    \cup {"DB_SSL_MODE", "DB_SSL_ROOT_CERT"}

(* Two's complement: n in the integer type whose largest value is max.     *)
Wrap(n, max) == ((n + max + 1) % (2 * (max + 1))) - (max + 1)

(* What the environment of a process may be.                               *)
Environment ==
  [given    : SUBSET RequiredKeys,
   number   : [NumericKeys -> {NotSet, NotANumber} \cup Int],
   sslMode  : STRING,
   rootCert : BOOLEAN]

-----------------------------------------------------------------------------
(* The loader: cfg and the first error.  Once there is one, later calls    *)
(* change nothing that anybody looks at: run drops cfg then.               *)

require(env, key, l) ==
  [l EXCEPT !.err = IF @ = NoError /\ key \notin env.given THEN key ELSE @]

(* Mutant of optInt: an error after the first one replaces it.             *)
optIntLastError(env, key, l) ==
  LET v == env.number[key] IN
  [l EXCEPT !.err = IF v = NotANumber THEN key ELSE @,
            !.cfg[key] = IF v \in {NotSet, NotANumber} THEN @ ELSE v]

optInt(env, key, l) ==
  LET v == env.number[key] IN
  [l EXCEPT !.err = IF @ = NoError /\ v = NotANumber THEN key ELSE @,
            !.cfg[key] = IF v \in {NotSet, NotANumber} THEN @ ELSE v]

validateSSL(env, l) ==
  [l EXCEPT !.err =
     IF @ # NoError THEN @
     ELSE IF env.sslMode \notin SSLModes THEN "DB_SSL_MODE"
     ELSE IF env.sslMode \in VerifyModes /\ ~env.rootCert
          THEN "DB_SSL_ROOT_CERT" ELSE @]

ReadOrder == Required \o Numeric

read(env, key, l) ==
  IF key \in RequiredKeys THEN require(env, key, l) ELSE optInt(env, key, l)

Load(env) ==
  validateSSL(env, FoldLeft(LAMBDA l, key : read(env, key, l),
                            [cfg |-> Defaults, err |-> NoError], ReadOrder))

-----------------------------------------------------------------------------
(* What main makes of the numbers.                                         *)

(* Mutant of Millis: the product has the width of int32.                   *)
MillisNarrow(ms) == Wrap(ms * NanosPerMilli, MaxInt32)

(* time.Duration(ms) * time.Millisecond                                    *)
Millis(ms) == Wrap(ms * NanosPerMilli, MaxInt)

(* int32(cfg.DBMaxConns)                                                   *)
MaxConns(cfg) == Wrap(cfg["DB_MAX_CONNS"], MaxInt32)

TickInterval(cfg)    == Millis(cfg["HEARTBEAT_TICK_MS"])
RefreshInterval(cfg) == Millis(cfg["ALERT_CONFIG_REFRESH_MS"])

-----------------------------------------------------------------------------
(* "Load reads and validates configuration": it returns the error of the   *)
(* first variable, in the order of the source, that is missing or is not a *)
(* number, then of the TLS settings; without one, each number is the one   *)
(* given, and the default where none is.                                   *)
LoadReports(env) ==
  LET order == ReadOrder \o <<"DB_SSL_MODE", "DB_SSL_ROOT_CERT">>
      wrong(key) ==
        \/ key \in RequiredKeys \ env.given
        \/ key \in NumericKeys /\ env.number[key] = NotANumber
        \/ key = "DB_SSL_MODE" /\ env.sslMode \notin SSLModes
        \/ key = "DB_SSL_ROOT_CERT" /\ env.sslMode \in VerifyModes
                                    /\ ~env.rootCert
      result == Load(env)
  IN IF result.err = NoError
     THEN /\ \A i \in 1..Len(order) : ~wrong(order[i])
          /\ \A key \in NumericKeys :
               result.cfg[key] = IF env.number[key] = NotSet
                                 THEN Defaults[key] ELSE env.number[key]
     ELSE \E i \in 1..Len(order) :
            /\ result.err = order[i] /\ wrong(order[i])
            /\ \A j \in 1..(i - 1) : ~wrong(order[j])

=============================================================================
