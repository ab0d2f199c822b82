------------------------- MODULE ConfigLoaderProofs -------------------------
(***************************************************************************)
(* What Load returns, for every environment and all defaults.  The fold    *)
(* over the variables passes through a sequence of loaders, one for each   *)
(* variable (LoadVisits); induction over that sequence says what is in the *)
(* loader after the first i variables (SoFar).                             *)
(***************************************************************************)
EXTENDS ConfigLoader, Induction
LOCAL INSTANCE SequencesExt

Errors == {NoError} \cup RequiredKeys \cup NumericKeys

Loaders == [cfg : [NumericKeys -> Int], err : Errors]

NewLoader == [cfg |-> Defaults, err |-> NoError]

(* The variables are read at twenty different positions.                   *)
LEMMA Positions ==
  /\ ReadOrder \in Seq(RequiredKeys \cup NumericKeys)
  /\ Len(ReadOrder) = 20 /\ DOMAIN ReadOrder = 1..20 /\ Len(Numeric) = 12
  /\ \A i \in 1..8 : ReadOrder[i] = Required[i] /\ Required[i] \in RequiredKeys
  /\ \A i \in 1..12 : ReadOrder[i + 8] = Numeric[i] /\ Numeric[i] \in NumericKeys
  /\ \A i \in 1..20 : /\ i <= 8 => ReadOrder[i] \in RequiredKeys
                      /\ i > 8 => ReadOrder[i] \in NumericKeys
<1>1. /\ Len(Required) = 8 /\ Len(Numeric) = 12
      /\ Required \in Seq(RequiredKeys) /\ Numeric \in Seq(NumericKeys)
  BY DEF Required, Numeric, RequiredKeys, NumericKeys
<1>2. /\ \A i \in 1..8 : Required[i] \in RequiredKeys
      /\ \A i \in 1..12 : Numeric[i] \in NumericKeys
  BY DEF Required, Numeric, RequiredKeys, NumericKeys
<1> DEFINE S == RequiredKeys \cup NumericKeys
<1>3. Required \in Seq(S) /\ Numeric \in Seq(S)
  BY <1>1
<1>4. /\ ReadOrder \in Seq(S)
      /\ Len(ReadOrder) = 20
      /\ \A i \in 1..20 : ReadOrder[i] = IF i <= 8 THEN Required[i] ELSE Numeric[i - 8]
  <2> HIDE DEF S
  <2>1. /\ Required \o Numeric \in Seq(S)
        /\ Len(Required \o Numeric) = Len(Required) + Len(Numeric)
        /\ \A i \in 1..(Len(Required) + Len(Numeric)) :
             (Required \o Numeric)[i] = IF i <= Len(Required) THEN Required[i]
                                        ELSE Numeric[i - Len(Required)]
    BY <1>3
  <2>2. Len(Required) = 8 /\ Len(Required) + Len(Numeric) = 20
    BY <1>1
  <2>3. QED
    BY Zenon, <2>1, <2>2 DEF ReadOrder
<1>5. DOMAIN ReadOrder = 1..20
  <2> HIDE DEF S
  <2>1. QED
    BY <1>4
<1>6. \A i \in 1..12 : ReadOrder[i + 8] = Numeric[i]
  <2> TAKE i \in 1..12
  <2>1. i + 8 \in 1..20 /\ ~(i + 8 <= 8) /\ (i + 8) - 8 = i
    OBVIOUS
  <2>2. QED
    BY <1>4, <2>1
<1>7. ASSUME NEW i \in 1..20, i > 8 PROVE ReadOrder[i] \in NumericKeys
  <2>1. i - 8 \in 1..12 /\ ~(i <= 8)
    BY <1>7
  <2>2. ReadOrder[i] = Numeric[i - 8]
    BY <1>4, <2>1
  <2>3. QED
    BY <1>2, <2>1, <2>2
<1>8. QED
  BY <1>1, <1>2, <1>4, <1>5, <1>6, <1>7

(* No variable is both a string and a number.                              *)
LEMMA Apart == RequiredKeys \cap NumericKeys = {}
<1>1. RequiredKeys = {"NATS_URL", "NATS_TLS_CA", "NATS_TLS_CERT", "NATS_TLS_KEY",
                      "DB_HOST", "DB_NAME", "DB_USER", "DB_PASSWORD_FILE"}
  BY DEF RequiredKeys, Required
<1>2. NumericKeys = {"DB_PORT", "NATS_CONNECT_TIMEOUT_SECONDS", "DB_MAX_CONNS",
        "DB_MIN_CONNS", "GATEWAY_BUFFER_SIZE", "HEARTBEAT_TICK_MS",
        "HEARTBEAT_GRACE_PERIOD_MS", "ALERT_CONFIG_REFRESH_MS",
        "ALERT_CONFIG_DEFAULT_TIMEOUT_MS", "ALERT_CONFIG_MAX_RETRIES",
        "ALERT_CONFIG_INITIAL_BACKOFF_MS", "ALERT_CONFIG_MAX_BACKOFF_MS"}
  BY DEF NumericKeys, Numeric
<1>3. QED
  BY <1>1, <1>2

(* Reading a variable keeps the types.                                     *)
LEMMA ReadType ==
  ASSUME NEW e \in Environment, NEW key \in RequiredKeys \cup NumericKeys,
         NEW l \in Loaders
  PROVE  read(e, key, l) \in Loaders
<1>1. CASE key \in RequiredKeys
  BY <1>1 DEF read, require, Loaders, Errors
<1>2. CASE key \notin RequiredKeys
  <2>1. e.number[key] \notin {NotSet, NotANumber} => e.number[key] \in Int
    BY <1>2 DEF Environment
  <2>2. QED
    BY <1>2, <2>1 DEF read, optInt, Loaders, Errors
<1>3. QED
  BY <1>1, <1>2

(* The fold passes through twenty loaders after the new one.               *)
LEMMA LoadVisits ==
  ASSUME NEW e \in Environment
  PROVE  \E r \in [0..20 -> Loaders] :
           /\ r[0] = NewLoader
           /\ \A i \in 1..20 : r[i] = read(e, ReadOrder[i], r[i - 1])
           /\ Load(e) = validateSSL(e, r[20])
<1> DEFINE F(g) == [s \in SUBSET DOMAIN ReadOrder |->
                      IF s = {} THEN NewLoader
                      ELSE read(e, ReadOrder[Max(s)], g[s \ {Max(s)}])]
           step == [p \in (1..20) \X Loaders |-> read(e, ReadOrder[p[1]], p[2])]
           iter == CHOOSE g : g = F(g)
<1>1. Load(e) = validateSSL(e, iter[DOMAIN ReadOrder])
  <2>1. Load(e) = validateSSL(e, FoldLeft(LAMBDA l, key : read(e, key, l),
                                          NewLoader, ReadOrder))
    BY Zenon DEF Load, NewLoader
  <2>2. FoldLeft(LAMBDA l, key : read(e, key, l), NewLoader, ReadOrder)
          = iter[DOMAIN ReadOrder]
    BY Zenon DEF FoldLeft, MapThenFoldSet
  <2>3. QED
    BY Zenon, <2>1, <2>2
<1>a. DOMAIN ReadOrder = 1..20
  BY Positions
<1>2. NewLoader \in Loaders
  BY DefaultsAssumption DEF NewLoader, Loaders, Errors
<1>3. \A i \in 1..20 : \A l \in Loaders : read(e, ReadOrder[i], l) \in Loaders
  BY Positions, ReadType
<1>4. step \in [(1..20) \X Loaders -> Loaders]
  BY <1>3
<1>5. PICK h \in [SUBSET (1..20) -> Loaders] : Iterates(h, step, NewLoader, 20)
  <2> HIDE DEF step
  <2>1. QED
    BY <1>2, <1>4, IterationExists
<1>6. \A s \in SUBSET (1..20) : s # {} => Max(s) \in s /\ \A j \in s : j <= Max(s)
  BY LargestPosition DEF Max
<1>7. F(h) = h
  <2>1. ASSUME NEW s \in SUBSET (1..20), s # {}
        PROVE  h[s] = read(e, ReadOrder[Max(s)], h[s \ {Max(s)}])
    <3>1. Max(s) \in s /\ \A j \in s : j <= Max(s)
      BY <1>6, <2>1
    <3>2. h[s] = step[<<Max(s), h[s \ {Max(s)}]>>]
      <4> HIDE DEF step
      <4>1. QED
        BY <1>5, <3>1 DEF Iterates
    <3>3. Max(s) \in 1..20 /\ h[s \ {Max(s)}] \in Loaders
      BY <1>5, <3>1
    <3>4. QED
      BY <3>2, <3>3
  <2>2. h[{}] = NewLoader
    BY <1>5 DEF Iterates
  <2>3. \A s \in SUBSET (1..20) : F(h)[s] = h[s]
    BY <1>a, <2>1, <2>2
  <2>4. QED
    BY <1>a, <1>5, <2>3
<1>8. iter = F(iter)
  <2>1. h = F(h)
    BY <1>7
  <2> HIDE DEF F
  <2>2. QED
    BY <2>1
<1>9. iter[{}] = NewLoader
  BY <1>a, <1>8
<1>10. ASSUME NEW i \in 1..20
       PROVE  iter[1..i] = read(e, ReadOrder[i], iter[1..(i - 1)])
  <2>1. 1..i \in SUBSET (1..20) /\ 1..i # {} /\ i \in 1..i
    BY Prefix
  <2>2. Max(1..i) \in 1..i /\ i <= Max(1..i)
    BY <1>6, <2>1
  <2>3. Max(1..i) = i
    BY <2>2
  <2>4. (1..i) \ {i} = 1..(i - 1)
    BY Prefix
  <2>5. F(iter)[1..i] = read(e, ReadOrder[Max(1..i)], iter[(1..i) \ {Max(1..i)}])
    BY <1>a, <2>1
  <2>6. QED
    BY <1>8, <2>3, <2>4, <2>5
<1>11. OnPrefixes(iter, step, Loaders, 20)
  <2> HIDE DEF iter, F
  <2>1. QED
    BY <1>10 DEF OnPrefixes
<1> HIDE DEF iter, F
<1>12. PICK r \in [0..20 -> Loaders] :
          Visits(r, step, NewLoader, 20) /\ Follows(r, iter, 20)
  <2> HIDE DEF step
  <2>1. QED
    BY <1>2, <1>4, <1>9, <1>11, PrefixVisits
<1>13. r[0] = NewLoader /\ \A i \in 1..20 : r[i] = read(e, ReadOrder[i], r[i - 1])
  BY <1>12 DEF Visits
<1>14. r[20] = iter[1..20]
  BY <1>12 DEF Follows
<1>15. QED
  BY <1>1, <1>a, <1>12, <1>13, <1>14

(* A variable that Load must report.                                       *)
Wrong(e, key) ==
  \/ key \in RequiredKeys \ e.given
  \/ key \in NumericKeys /\ e.number[key] = NotANumber

(* What the loader l says of the first i variables: its error is that of   *)
(* the first wrong one; without an error, none is wrong and the numbers    *)
(* that were given have replaced the defaults.                             *)
SoFar(e, l, i) ==
  /\ l.err = NoError =>
       /\ \A j \in 1..i : ~Wrong(e, ReadOrder[j])
       /\ \A key \in NumericKeys :
            l.cfg[key] =
              IF e.number[key] # NotSet /\ \E j \in 1..i : ReadOrder[j] = key
              THEN e.number[key] ELSE Defaults[key]
  /\ l.err # NoError =>
       \E j \in 1..i : /\ l.err = ReadOrder[j] /\ Wrong(e, ReadOrder[j])
                       /\ \A k \in 1..(j - 1) : ~Wrong(e, ReadOrder[k])

(* One variable more.                                                      *)
LEMMA ReadOne ==
  ASSUME NEW e \in Environment, NEW l \in Loaders, NEW i \in 0..19, SoFar(e, l, i)
  PROVE  SoFar(e, read(e, ReadOrder[i + 1], l), i + 1)
<1> DEFINE key == ReadOrder[i + 1]
           m == read(e, key, l)
<1>1. /\ i + 1 \in 1..20 /\ key \in RequiredKeys \cup NumericKeys
      /\ 1..(i + 1) = (1..i) \cup {i + 1} /\ (i + 1) - 1 = i
  BY Positions
<1>2. key \in RequiredKeys => key \notin NumericKeys
  BY Apart
<1>3. key # NoError
  BY <1>1, ValuesAssumption
<1>4. m.err = IF l.err = NoError /\ Wrong(e, key) THEN key ELSE l.err
  <2>1. CASE key \in RequiredKeys
    BY <1>2, <2>1 DEF read, require, Wrong, Loaders
  <2>2. CASE key \notin RequiredKeys
    BY <1>1, <2>2 DEF read, optInt, Wrong, Loaders
  <2>3. QED
    BY <2>1, <2>2
<1>5. ASSUME NEW k \in NumericKeys, ~Wrong(e, key)
      PROVE  m.cfg[k] = IF k = key /\ e.number[k] # NotSet THEN e.number[k] ELSE l.cfg[k]
  <2>1. CASE key \in RequiredKeys
    BY <1>2, <2>1 DEF read, require, Loaders
  <2>2. CASE key \notin RequiredKeys
    BY <1>1, <1>5, <2>2 DEF read, optInt, Wrong, Loaders
  <2>3. QED
    BY <2>1, <2>2
<1> HIDE DEF m
<1>6. ASSUME m.err = NoError
      PROVE  /\ \A j \in 1..(i + 1) : ~Wrong(e, ReadOrder[j])
             /\ \A k \in NumericKeys :
                  m.cfg[k] =
                    IF e.number[k] # NotSet /\ \E j \in 1..(i + 1) : ReadOrder[j] = k
                    THEN e.number[k] ELSE Defaults[k]
  <2>1. l.err = NoError /\ ~Wrong(e, key)
    BY <1>3, <1>4, <1>6
  <2>2. \A j \in 1..i : ~Wrong(e, ReadOrder[j])
    BY <2>1 DEF SoFar
  <2>3. \A j \in 1..(i + 1) : ~Wrong(e, ReadOrder[j])
    BY <1>1, <2>1, <2>2
  <2>4. ASSUME NEW k \in NumericKeys
        PROVE  m.cfg[k] =
                 IF e.number[k] # NotSet /\ \E j \in 1..(i + 1) : ReadOrder[j] = k
                 THEN e.number[k] ELSE Defaults[k]
    <3>1. l.cfg[k] = IF e.number[k] # NotSet /\ \E j \in 1..i : ReadOrder[j] = k
                     THEN e.number[k] ELSE Defaults[k]
      BY <2>1 DEF SoFar
    <3>2. (\E j \in 1..(i + 1) : ReadOrder[j] = k)
            <=> (k = key \/ \E j \in 1..i : ReadOrder[j] = k)
      BY <1>1
    <3>3. QED
      BY <1>5, <2>1, <3>1, <3>2
  <2>5. QED
    BY <2>3, <2>4
<1>7. ASSUME m.err # NoError
      PROVE  \E j \in 1..(i + 1) :
               /\ m.err = ReadOrder[j] /\ Wrong(e, ReadOrder[j])
               /\ \A k \in 1..(j - 1) : ~Wrong(e, ReadOrder[k])
  <2>1. CASE l.err = NoError
    <3>1. m.err = key /\ Wrong(e, key)
      BY <1>4, <1>7, <2>1
    <3>2. \A k \in 1..i : ~Wrong(e, ReadOrder[k])
      BY <2>1 DEF SoFar
    <3>3. QED
      BY <1>1, <3>1, <3>2
  <2>2. CASE l.err # NoError
    <3>1. m.err = l.err
      BY <1>4, <2>2
    <3>2. QED
      BY <1>1, <2>2, <3>1 DEF SoFar
  <2>3. QED
    BY <2>1, <2>2
<1>8. QED
  BY <1>6, <1>7 DEF SoFar, m

(* All twenty of them: the last loader r of LoadVisits.                    *)
LEMMA ReadAll ==
  ASSUME NEW e \in Environment
  PROVE  \E l \in Loaders : SoFar(e, l, 20) /\ Load(e) = validateSSL(e, l)
<1>1. PICK r \in [0..20 -> Loaders] :
        /\ r[0] = NewLoader
        /\ \A i \in 1..20 : r[i] = read(e, ReadOrder[i], r[i - 1])
        /\ Load(e) = validateSSL(e, r[20])
  BY LoadVisits
<1> DEFINE T == {i \in Nat : i <= 20 => SoFar(e, r[i], i)}
<1>2. 0 \in T
  <2>1. 1..0 = {}
    OBVIOUS
  <2>2. SoFar(e, NewLoader, 0)
    BY <2>1 DEF SoFar, NewLoader
  <2>3. QED
    BY <1>1, <2>2
<1>3. ASSUME NEW i \in Nat, i \in T PROVE i + 1 \in T
  <2> SUFFICES ASSUME i + 1 <= 20 PROVE SoFar(e, r[i + 1], i + 1)
    OBVIOUS
  <2>1. /\ i \in 0..19 /\ i + 1 \in 1..20 /\ (i + 1) - 1 = i
        /\ r[i] \in Loaders /\ SoFar(e, r[i], i)
    BY <1>1, <1>3
  <2>2. r[i + 1] = read(e, ReadOrder[i + 1], r[i])
    BY <1>1, <2>1
  <2>3. QED
    BY <2>1, <2>2, ReadOne
<1>4. Nat \subseteq T
  <2> HIDE DEF T
  <2>1. QED
    BY <1>2, <1>3, SetInduction
<1>5. SoFar(e, r[20], 20)
  BY <1>4
<1>6. QED
  BY <1>1, <1>5

(* A configuration that Load returns has a number for every numeric        *)
(* variable.                                                               *)
LEMMA LoadType ==
  ASSUME NEW e \in Environment
  PROVE  Load(e).cfg \in [NumericKeys -> Int]
<1>1. PICK l \in Loaders : Load(e) = validateSSL(e, l)
  BY ReadAll
<1>2. QED
  BY <1>1 DEF validateSSL, Loaders

(* The names of the TLS variables are those of no other.                   *)
LEMMA TLSApart ==
  /\ "DB_SSL_MODE" \notin RequiredKeys \cup NumericKeys
  /\ "DB_SSL_ROOT_CERT" \notin RequiredKeys \cup NumericKeys
BY DEF RequiredKeys, Required, NumericKeys, Numeric

(* Load reports the first variable that is wrong, in the order of the      *)
(* source, and otherwise the numbers that were given: for every            *)
(* environment and all defaults.                                           *)
THEOREM LoadReportsFirstError ==
  ASSUME NEW e \in Environment
  PROVE  LoadReports(e)
<1> DEFINE tls == <<"DB_SSL_MODE", "DB_SSL_ROOT_CERT">>
           order == ReadOrder \o tls
           wrong(key) ==
             \/ key \in RequiredKeys \ e.given
             \/ key \in NumericKeys /\ e.number[key] = NotANumber
             \/ key = "DB_SSL_MODE" /\ e.sslMode \notin SSLModes
             \/ key = "DB_SSL_ROOT_CERT" /\ e.sslMode \in VerifyModes /\ ~e.rootCert
           result == Load(e)
<1>1. PICK l \in Loaders : SoFar(e, l, 20) /\ result = validateSSL(e, l)
  BY ReadAll
<1>2. /\ Len(order) = 22 /\ order[21] = "DB_SSL_MODE" /\ order[22] = "DB_SSL_ROOT_CERT"
      /\ \A i \in 1..20 : order[i] = ReadOrder[i]
  <2> DEFINE S == RequiredKeys \cup NumericKeys \cup {"DB_SSL_MODE", "DB_SSL_ROOT_CERT"}
  <2>1. ReadOrder \in Seq(S) /\ Len(ReadOrder) = 20
    BY Positions
  <2>2. /\ tls \in Seq(S) /\ Len(tls) = 2
        /\ tls[1] = "DB_SSL_MODE" /\ tls[2] = "DB_SSL_ROOT_CERT"
    OBVIOUS
  <2> HIDE DEF tls, S
  <2>3. /\ Len(order) = 22
        /\ \A i \in 1..22 : order[i] = IF i <= 20 THEN ReadOrder[i] ELSE tls[i - 20]
    <3>1. /\ Len(ReadOrder \o tls) = Len(ReadOrder) + Len(tls)
          /\ \A i \in 1..(Len(ReadOrder) + Len(tls)) :
               (ReadOrder \o tls)[i] = IF i <= Len(ReadOrder) THEN ReadOrder[i]
                                       ELSE tls[i - Len(ReadOrder)]
      <4>1. ReadOrder \in Seq(S) /\ tls \in Seq(S)
        BY <2>1, <2>2
      <4>2. QED
        BY <4>1
    <3>2. Len(ReadOrder) = 20 /\ Len(ReadOrder) + Len(tls) = 22
      BY <2>1, <2>2
    <3>3. QED
      BY Zenon, <3>1, <3>2
  <2> HIDE DEF order
  <2>4. order[21] = tls[1] /\ order[22] = tls[2]
    <3>1. 21 \in 1..22 /\ 22 \in 1..22 /\ ~(21 <= 20) /\ 21 - 20 = 1 /\ 22 - 20 = 2
      OBVIOUS
    <3>2. QED
      BY <2>3, <3>1
  <2>5. QED
    BY <2>2, <2>3, <2>4
<1>3. \A i \in 1..20 : wrong(order[i]) <=> Wrong(e, ReadOrder[i])
  <2> TAKE i \in 1..20
  <2>1. ReadOrder[i] \notin {"DB_SSL_MODE", "DB_SSL_ROOT_CERT"}
    BY Positions, TLSApart
  <2>2. QED
    BY <1>2, <2>1 DEF Wrong
<1>4. /\ wrong(order[21]) <=> e.sslMode \notin SSLModes
      /\ wrong(order[22]) <=> (e.sslMode \in VerifyModes /\ ~e.rootCert)
  BY <1>2, TLSApart
<1>5. /\ result.cfg = l.cfg
      /\ result.err = IF l.err # NoError THEN l.err
                      ELSE IF e.sslMode \notin SSLModes THEN "DB_SSL_MODE"
                      ELSE IF e.sslMode \in VerifyModes /\ ~e.rootCert
                           THEN "DB_SSL_ROOT_CERT" ELSE NoError
  BY <1>1 DEF validateSSL, Loaders
<1>6. \A key \in NumericKeys : \E j \in 1..20 : ReadOrder[j] = key
  <2> TAKE key \in NumericKeys
  <2>1. PICK i \in 1..12 : key = Numeric[i]
    BY Positions DEF NumericKeys
  <2>2. i + 8 \in 1..20 /\ ReadOrder[i + 8] = key
    BY <2>1, Positions
  <2>3. QED
    BY <2>2
<1> HIDE DEF order, wrong, result
<1>7. CASE result.err = NoError
  <2>1. l.err = NoError /\ e.sslMode \in SSLModes /\ ~(e.sslMode \in VerifyModes /\ ~e.rootCert)
    BY <1>5, <1>7, ValuesAssumption
  <2>2. \A i \in 1..22 : ~wrong(order[i])
    <3> TAKE i \in 1..22
    <3>1. i \in 1..20 \/ i = 21 \/ i = 22
      OBVIOUS
    <3>2. QED
      BY <1>1, <1>3, <1>4, <2>1, <3>1 DEF SoFar
  <2>3. \A key \in NumericKeys :
          result.cfg[key] = IF e.number[key] = NotSet THEN Defaults[key] ELSE e.number[key]
    BY <1>1, <1>5, <1>6, <2>1 DEF SoFar
  <2>4. QED
    BY <1>2, <1>7, <2>2, <2>3 DEF LoadReports, order, wrong, result
<1>8. CASE result.err # NoError
  <2>1. \E i \in 1..22 : /\ result.err = order[i] /\ wrong(order[i])
                         /\ \A j \in 1..(i - 1) : ~wrong(order[j])
    <3>1. CASE l.err # NoError
      <4>1. PICK i \in 1..20 : /\ l.err = ReadOrder[i] /\ Wrong(e, ReadOrder[i])
                               /\ \A k \in 1..(i - 1) : ~Wrong(e, ReadOrder[k])
        BY <1>1, <3>1 DEF SoFar
      <4>2. i \in 1..22 /\ \A j \in 1..(i - 1) : j \in 1..20
        BY <4>1
      <4>3. QED
        BY <1>2, <1>3, <1>5, <3>1, <4>1, <4>2
    <3>2. CASE l.err = NoError /\ e.sslMode \notin SSLModes
      <4>1. \A j \in 1..20 : ~wrong(order[j])
        BY <1>1, <1>3, <3>2 DEF SoFar
      <4>2. 21 \in 1..22 /\ 1..(21 - 1) = 1..20
        OBVIOUS
      <4>3. QED
        BY <1>2, <1>4, <1>5, <3>2, <4>1, <4>2
    <3>3. CASE l.err = NoError /\ e.sslMode \in SSLModes
      <4>1. \A j \in 1..20 : ~wrong(order[j])
        BY <1>1, <1>3, <3>3 DEF SoFar
      <4>2. e.sslMode \in VerifyModes /\ ~e.rootCert /\ result.err = "DB_SSL_ROOT_CERT"
        BY <1>5, <1>8, <3>3
      <4>3. 22 \in 1..22 /\ 1..(22 - 1) = (1..20) \cup {21}
        OBVIOUS
      <4>4. QED
        BY <1>2, <1>4, <3>3, <4>1, <4>2, <4>3
    <3>4. QED
      BY <3>1, <3>2, <3>3
  <2>2. QED
    BY <1>2, <1>8, <2>1 DEF LoadReports, order, wrong, result
<1>9. QED
  BY <1>7, <1>8

=============================================================================
