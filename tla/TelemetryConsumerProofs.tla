---------------------- MODULE TelemetryConsumerProofs -----------------------
(***************************************************************************)
(* Proofs about TelemetryConsumer, for every value of its constants.       *)
(***************************************************************************)
EXTENDS TelemetryConsumer, TLAPS, FiniteSetTheorems, SequenceTheorems,
        FunctionTheorems

-----------------------------------------------------------------------------
(* Occurrences, what it counts and how Append and Tail change it.          *)

(* The positions counted are a finite set, so the count is a number, and   *)
(* it is positive as soon as one position has the element.                 *)
LEMMA OccurrencesPositive ==
  ASSUME NEW s \in Seq(Msgs), NEW m
  PROVE  /\ IsFiniteSet({i \in 1..Len(s) : s[i] = m})
         /\ Occurrences(s, m) \in Nat
         /\ \A i \in 1..Len(s) : s[i] = m => Occurrences(s, m) > 0
<1> DEFINE at == {i \in 1..Len(s) : s[i] = m}
<1>1. IsFiniteSet(1..Len(s))
  BY LenProperties, FS_Interval
<1>2. IsFiniteSet(at)
  BY <1>1, FS_Subset
<1>3. Cardinality(at) \in Nat
  BY <1>2, FS_CardinalityType
<1>4. Cardinality(at) = 0 <=> at = {}
  BY <1>2, FS_EmptySet
<1>5. Occurrences(s, m) = Cardinality(at)
  BY DEF Occurrences
<1>6. ASSUME NEW i \in 1..Len(s), s[i] = m PROVE at # {}
  BY <1>6
<1> HIDE DEF at
<1>7. ASSUME NEW i \in 1..Len(s), s[i] = m PROVE Occurrences(s, m) > 0
  BY <1>3, <1>4, <1>5, <1>6, <1>7
<1> QED
  BY <1>2, <1>3, <1>5, <1>7 DEF at

(* An empty queue holds no copy.                                           *)
LEMMA OccurrencesOfEmpty == \A m : Occurrences(<<>>, m) = 0
<1> TAKE m
<1>1. {i \in 1..Len(<<>>) : <<>>[i] = m} = {}
  OBVIOUS
<1> QED
  BY <1>1, FS_EmptySet DEF Occurrences

(* A message that joins a queue adds one copy of itself.                   *)
LEMMA OccurrencesOfAppend ==
  ASSUME NEW s \in Seq(Msgs), NEW e \in Msgs, NEW m
  PROVE  Occurrences(Append(s, e), m) =
           Occurrences(s, m) + IF e = m THEN 1 ELSE 0
<1> DEFINE t  == Append(s, e)
           at == {i \in 1..Len(s) : s[i] = m}
           n  == Len(s) + 1
<1>1. /\ Len(t) = n /\ t[n] = e /\ Len(s) \in Nat
      /\ \A i \in 1..Len(s) : t[i] = s[i]
  BY AppendProperties, LenProperties
<1>2. {i \in 1..Len(t) : t[i] = m} = IF e = m THEN at \cup {n} ELSE at
  BY <1>1
<1>3. IsFiniteSet(at) /\ n \notin at /\ Cardinality(at) \in Nat
  <2>1. n \notin at
    BY <1>1
  <2> QED
    BY <2>1, OccurrencesPositive DEF Occurrences
<1>4. Cardinality(at \cup {n}) = Cardinality(at) + 1
  BY <1>3, FS_AddElement
<1>5. /\ Occurrences(s, m) = Cardinality(at)
      /\ Occurrences(t, m) = Cardinality(IF e = m THEN at \cup {n} ELSE at)
  BY <1>2 DEF Occurrences
<1> HIDE DEF at, n
<1>6. CASE e = m
  BY <1>3, <1>4, <1>5, <1>6
<1>7. CASE e # m
  BY <1>3, <1>5, <1>7
<1> QED
  BY <1>6, <1>7

(* A message that leaves a queue takes one copy of itself away.            *)
LEMMA OccurrencesOfTail ==
  ASSUME NEW s \in Seq(Msgs), s # <<>>, NEW m
  PROVE  Occurrences(s, m) =
           Occurrences(Tail(s), m) + IF Head(s) = m THEN 1 ELSE 0
<1> DEFINE t    == Tail(s)
           at   == {i \in 1..Len(t) : t[i] = m}
           rest == {i \in 2..Len(s) : s[i] = m}
           f    == [i \in at |-> i + 1]
<1>1. /\ t \in Seq(Msgs) /\ Len(t) = Len(s) - 1 /\ Len(s) \in Nat \ {0}
      /\ \A i \in 1..Len(t) : t[i] = s[i + 1]
      /\ Head(s) = s[1]
  BY HeadTailProperties, LenProperties, EmptySeq
<1>2. f \in Bijection(at, rest)
  <2>1. f \in [at -> rest]
    BY <1>1
  <2>2. \A i, j \in at : f[i] = f[j] => i = j
    BY <1>1
  <2>3. \A j \in rest : \E i \in at : f[i] = j
    <3> SUFFICES ASSUME NEW j \in rest PROVE j - 1 \in at /\ f[j - 1] = j
      OBVIOUS
    <3>1. j - 1 \in 1..Len(t) /\ (j - 1) + 1 = j
      BY <1>1
    <3>2. t[j - 1] = s[j]
      BY <1>1, <3>1
    <3> QED
      BY <3>1, <3>2
  <2> QED
    BY <2>1, <2>2, <2>3, Fun_IsBij
<1>3. IsFiniteSet(at) /\ Cardinality(at) \in Nat
  BY <1>1, OccurrencesPositive DEF Occurrences
<1>4. IsFiniteSet(rest) /\ Cardinality(rest) = Cardinality(at)
  BY <1>2, <1>3, FS_Bijection DEF ExistsBijection
<1>5. {i \in 1..Len(s) : s[i] = m} =
        IF Head(s) = m THEN rest \cup {1} ELSE rest
  BY <1>1
<1>6. 1 \notin rest
  OBVIOUS
<1>7. Cardinality(rest \cup {1}) = Cardinality(rest) + 1
  BY <1>4, <1>6, FS_AddElement
<1>8. /\ Occurrences(t, m) = Cardinality(at)
      /\ Occurrences(s, m) =
           Cardinality(IF Head(s) = m THEN rest \cup {1} ELSE rest)
  BY <1>5 DEF Occurrences
<1> HIDE DEF rest, at
<1>9. CASE Head(s) = m
  BY <1>3, <1>4, <1>7, <1>8, <1>9
<1>10. CASE Head(s) # m
  BY <1>3, <1>4, <1>8, <1>10
<1> QED
  BY <1>9, <1>10

(* Elements, and how Append and Tail change them.                          *)
LEMMA ElementsOfEmpty == Elements(<<>>) = {}
BY DEF Elements

(* The messages of a queue that one more has joined.                       *)
LEMMA ElementsOfAppend ==
  ASSUME NEW s \in Seq(Msgs), NEW e \in Msgs
  PROVE  Elements(Append(s, e)) = Elements(s) \cup {e}
<1> DEFINE t == Append(s, e)
<1>1. /\ Len(t) = Len(s) + 1 /\ t[Len(s) + 1] = e /\ Len(s) \in Nat
      /\ \A i \in 1..Len(s) : t[i] = s[i]
  BY AppendProperties, LenProperties
<1>2. 1..Len(t) = (1..Len(s)) \cup {Len(s) + 1}
  BY <1>1
<1> HIDE DEF t
<1>3. {t[i] : i \in 1..Len(t)} = {s[i] : i \in 1..Len(s)} \cup {e}
  BY <1>1, <1>2
<1> QED
  BY <1>3 DEF Elements, t

(* The messages of a queue before its first leaves.                        *)
LEMMA ElementsOfTail ==
  ASSUME NEW s \in Seq(Msgs), s # <<>>
  PROVE  Elements(s) = Elements(Tail(s)) \cup {Head(s)}
<1> DEFINE t == Tail(s)
<1>1. /\ Len(t) = Len(s) - 1 /\ Len(s) \in Nat \ {0} /\ Head(s) = s[1]
      /\ \A i \in 1..Len(t) : t[i] = s[i + 1]
  BY HeadTailProperties, LenProperties, EmptySeq
<1> HIDE DEF t
<1>2. ASSUME NEW i \in 1..Len(t) PROVE t[i] \in Elements(s)
  BY <1>1 DEF Elements
<1>3. Head(s) \in Elements(s)
  BY <1>1 DEF Elements
<1>4. ASSUME NEW i \in 1..Len(s), i # 1 PROVE s[i] \in Elements(t)
  <2>1. i - 1 \in 1..Len(t) /\ t[i - 1] = s[i]
    BY <1>1, <1>4
  <2> QED
    BY <2>1 DEF Elements
<1>5. Elements(s) \subseteq Elements(t) \cup {Head(s)}
  <2> SUFFICES ASSUME NEW i \in 1..Len(s)
               PROVE  s[i] \in Elements(t) \cup {Head(s)}
    BY DEF Elements
  <2> QED
    BY <1>1, <1>4
<1>6. Elements(t) \cup {Head(s)} \subseteq Elements(s)
  <2> SUFFICES ASSUME NEW x \in Elements(t) PROVE x \in Elements(s)
    BY <1>3
  <2>1. PICK i \in 1..Len(t) : x = t[i]
    BY DEF Elements
  <2> QED
    BY <1>2, <2>1
<1> QED
  BY <1>5, <1>6 DEF t

-----------------------------------------------------------------------------
(* Types and capacities.                                                   *)

(* Types and capacities when the consumer is built.                        *)
LEMMA TypeInit == Init => TypeOK /\ PlacesOK
<1> SUFFICES ASSUME Init PROVE TypeOK /\ PlacesOK
  OBVIOUS
<1> USE SizesAssumption
<1>1. /\ pending \in Seq(Msgs) /\ Len(pending) = 0
      /\ buf \in Seq(Msgs) /\ Len(buf) = 0
  BY EmptySeq DEF Init
<1>2. rows \in [Msgs -> 0..Many] /\ delivered \in [Msgs -> 0..Many]
  BY DEF Init
<1>3. /\ server \in [Msgs -> {"ready", "outstanding", "acked", "termed"}]
      /\ durable \in {"created", "found", "deleted"}
      /\ inCall \in Msgs \cup {NoMsg} /\ callPc = "process"
      /\ loopPc = "select" /\ last \in BOOLEAN /\ writeErr = "nil"
      /\ ctxDone \in BOOLEAN /\ restarts = 0 /\ heard = {}
      /\ uncommitted = {}
  BY DEF Init
<1> QED
  BY <1>1, <1>2, <1>3 DEF TypeOK, PlacesOK

(* Counting up to Many stays within bounds and does not go down.           *)
LEMMA UpToManyBounds ==
  ASSUME NEW k \in 0..Many, NEW n \in Nat
  PROVE  UpToMany(k + n) \in 0..Many /\ UpToMany(k + n) >= k
BY SizesAssumption DEF UpToMany

(* An answer that arrives or is lost keeps the type of server.             *)
LEMMA AnswerType ==
  ASSUME TypeOK, NEW m \in Msgs, Ack(m) \/ Nak(m) \/ Term(m)
  PROVE  server' \in [Msgs -> {"ready", "outstanding", "acked", "termed"}]
BY DEF Ack, Nak, Term, Answer, TypeOK

(* A committed batch leaves every count of rows where it was or higher,    *)
(* and gives every valid message of the batch a row.                       *)
LEMMA StoredRows ==
  ASSUME TypeOK
  PROVE  /\ Stored \in [Msgs -> 0..Many]
         /\ \A m \in Msgs : Stored[m] >= rows[m]
         /\ \A m \in Valid : m \in Msgs /\ Stored[m] > 0
<1> USE SizesAssumption
<1>1. rows \in [Msgs -> 0..Many] /\ buf \in Seq(Msgs)
  BY DEF TypeOK
<1>2. ASSUME NEW m \in Msgs
      PROVE  Stored[m] \in 0..Many /\ Stored[m] >= rows[m]
  <2>1. Occurrences(buf, m) \in Nat /\ rows[m] \in 0..Many
    BY <1>1, OccurrencesPositive
  <2> QED
    BY <2>1, UpToManyBounds DEF Stored
<1>3. ASSUME NEW m \in Valid PROVE m \in Msgs /\ Stored[m] > 0
  <2>1. PICK i \in 1..Len(buf) : buf[i] = m
    BY DEF Valid, Elements
  <2>2. m \in Msgs
    BY <1>1, <2>1, ElementOfSeq
  <2>3. Occurrences(buf, m) \in Nat /\ Occurrences(buf, m) > 0
    BY <1>1, <2>1, OccurrencesPositive
  <2>4. rows[m] \in 0..Many
    BY <1>1, <2>2
  <2>5. Stored[m] = UpToMany(rows[m] + Occurrences(buf, m))
    BY <2>2 DEF Stored
  <2> QED
    BY <2>2, <2>3, <2>4, <2>5 DEF UpToMany
<1> QED
  BY <1>2, <1>3 DEF Stored

(* Head and tail of the buffer and of the pending channel.                 *)
LEMMA HeadTail ==
  ASSUME NEW s \in Seq(Msgs), s # <<>>
  PROVE  /\ Head(s) \in Msgs /\ Tail(s) \in Seq(Msgs)
         /\ Len(s) \in Nat \ {0} /\ Len(Tail(s)) = Len(s) - 1
BY HeadTailProperties, EmptySeq

(* Every step keeps the types, and the capacities of the pending channel   *)
(* and of the buffer.                                                      *)
LEMMA TypeNext == TypeOK /\ PlacesOK /\ [Next]_vars => TypeOK' /\ PlacesOK'
<1> SUFFICES ASSUME TypeOK, PlacesOK, [Next]_vars
             PROVE  TypeOK' /\ PlacesOK'
  OBVIOUS
<1> USE MsgsAssumption, SizesAssumption
<1> USE DEF callVars, loopVars, remoteVars, pastVars
<1>1. ASSUME NEW m \in Msgs, Deliver(m) PROVE TypeOK' /\ PlacesOK'
  BY <1>1, UpToManyBounds DEF TypeOK, PlacesOK, Deliver
<1>2. ASSUME NEW m \in Msgs, AckWaitExpires(m) PROVE TypeOK' /\ PlacesOK'
  BY <1>2 DEF TypeOK, PlacesOK, AckWaitExpires
<1>3. ASSUME ProcessMessage PROVE TypeOK' /\ PlacesOK'
  BY <1>3 DEF TypeOK, PlacesOK, ProcessMessage
<1>4. ASSUME EnqueuePending PROVE TypeOK' /\ PlacesOK'
  BY <1>4, AppendProperties DEF TypeOK, PlacesOK, EnqueuePending
<1>5. ASSUME EnqueueCancelled PROVE TypeOK' /\ PlacesOK'
  BY <1>5, AnswerType DEF TypeOK, PlacesOK, EnqueueCancelled
<1>6. ASSUME Receive PROVE TypeOK' /\ PlacesOK'
  BY <1>6, HeadTail, AppendProperties DEF TypeOK, PlacesOK, Receive
<1>7. ASSUME FlushTick PROVE TypeOK' /\ PlacesOK'
  BY <1>7 DEF TypeOK, PlacesOK, FlushTick
<1>8. ASSUME FlushLoopDone PROVE TypeOK' /\ PlacesOK'
  BY <1>8 DEF TypeOK, PlacesOK, FlushLoopDone
<1>9. ASSUME WriteBatchStart PROVE TypeOK' /\ PlacesOK'
  BY <1>9 DEF TypeOK, PlacesOK, WriteBatchStart
<1>10. ASSUME WriteBatchOk \/ WriteBatchUncommitted \/ WriteBatchFails
       PROVE  TypeOK' /\ PlacesOK'
  <2>1. /\ rows' \in {rows, Stored} /\ writeErr' \in {"nil", "db"}
        /\ loopPc' = "settle"
        /\ uncommitted' \subseteq uncommitted \cup Valid
        /\ UNCHANGED <<server, durable, callVars, pending, buf, last, ctxDone,
                       restarts, heard, delivered>>
    BY <1>10 DEF WriteBatchOk, WriteBatchUncommitted, WriteBatchFails,
                 WriteBatchReturns
  <2> QED
    BY <2>1, StoredRows DEF TypeOK, PlacesOK
<1>11. ASSUME Settle PROVE TypeOK' /\ PlacesOK'
  BY <1>11, HeadTail, AnswerType DEF TypeOK, PlacesOK, Settle
<1>12. ASSUME FlushDone PROVE TypeOK' /\ PlacesOK'
  BY <1>12 DEF TypeOK, PlacesOK, FlushDone
<1>13. ASSUME Cancel PROVE TypeOK' /\ PlacesOK'
  BY <1>13 DEF TypeOK, PlacesOK, Cancel
<1>14. ASSUME SubscriptionDrained PROVE TypeOK' /\ PlacesOK'
  BY <1>14 DEF TypeOK, PlacesOK, SubscriptionDrained
<1>15. ASSUME Restart PROVE TypeOK' /\ PlacesOK'
  <2>1. /\ pending' \in Seq(Msgs) /\ Len(pending') = 0
        /\ buf' \in Seq(Msgs) /\ Len(buf') = 0
    BY <1>15, EmptySeq DEF Restart
  <2>2. /\ durable' \in {"created", "found", "deleted"}
        /\ restarts' \in 0..MaxRestarts
        /\ inCall' = NoMsg /\ callPc' = "process" /\ loopPc' = "select"
        /\ writeErr' = "nil"
        /\ UNCHANGED <<server, rows, heard, delivered, uncommitted>>
    BY <1>15 DEF Restart, TypeOK
  <2>3. last' \in BOOLEAN /\ ctxDone' \in BOOLEAN
    BY <1>15 DEF Restart
  <2> QED
    BY <2>1, <2>2, <2>3 DEF TypeOK, PlacesOK
<1>16. CASE UNCHANGED vars
  BY <1>16 DEF TypeOK, PlacesOK, vars
<1> QED
  BY <1>1, <1>2, <1>3, <1>4, <1>5, <1>6, <1>7, <1>8, <1>9, <1>10, <1>11,
     <1>12, <1>13, <1>14, <1>15, <1>16 DEF Next, CallbackStep, LoopStep

(* Every variable keeps its type; the pending channel never holds more     *)
(* than twice a batch, and the buffer of flushLoop never more than one.    *)
THEOREM TypeCorrect == Spec => [](TypeOK /\ PlacesOK)
<1> QED
  BY TypeInit, TypeNext, PTL DEF Spec

-----------------------------------------------------------------------------
(* No loss, no row for a rejected message, no row without a heartbeat.     *)

(* The three invariants with what makes them inductive.                    *)
SafetyInv == /\ LostOnlyByCommit /\ BatchIsStored
             /\ StoredIsHeard /\ HeldIsHeard
             /\ TermedIsMalformed

(* An answer settles one message at most, and only the way it says.        *)
LEMMA AnswerSettles ==
  ASSUME TypeOK, NEW m \in Msgs, NEW n \in Msgs
  PROVE  /\ Ack(m) => \/ server'[n] = server[n]
                      \/ n = m /\ server'[n] = "acked"
         /\ Nak(m) => \/ server'[n] = server[n]
                      \/ n = m /\ server'[n] = "ready"
         /\ Term(m) => \/ server'[n] = server[n]
                       \/ n = m /\ server'[n] = "termed"
BY DEF Ack, Nak, Term, Answer, TypeOK

(* Nothing is held, acknowledged, terminated or stored at first.           *)
LEMMA SafetyInit == Init => SafetyInv
<1> SUFFICES ASSUME Init PROVE SafetyInv
  OBVIOUS
<1>1. Held = {}
  BY ElementsOfEmpty DEF Init, Held
<1> QED
  BY <1>1 DEF Init, SafetyInv, LostOnlyByCommit, BatchIsStored, StoredIsHeard,
              HeldIsHeard, TermedIsMalformed

(* Every step keeps the three.  A batch written without error gives every  *)
(* valid message in it a row, or leaves it among the uncommitted ones,     *)
(* before any of them is acknowledged, and no step takes a row away.       *)
LEMMA SafetyNext ==
  TypeOK /\ PlacesOK /\ SafetyInv /\ [Next]_vars => SafetyInv'
<1> SUFFICES ASSUME TypeOK, PlacesOK, SafetyInv, [Next]_vars
             PROVE  SafetyInv'
  OBVIOUS
<1> USE MsgsAssumption, SizesAssumption
<1> USE DEF callVars, loopVars, remoteVars, pastVars
<1> USE DEF SafetyInv, LostOnlyByCommit, BatchIsStored, StoredIsHeard,
            HeldIsHeard, TermedIsMalformed
<1>0. \A n \in Bad : rows[n] = 0
  BY DEF TypeOK
<1>1. ASSUME NEW m \in Msgs, Deliver(m) PROVE SafetyInv'
  BY <1>1 DEF TypeOK, Deliver, Held, Valid
<1>2. ASSUME NEW m \in Msgs, AckWaitExpires(m) PROVE SafetyInv'
  BY <1>2 DEF TypeOK, AckWaitExpires, Held, Valid
<1>3. ASSUME ProcessMessage PROVE SafetyInv'
  BY <1>3 DEF TypeOK, ProcessMessage, Held, Valid
<1>4. ASSUME EnqueuePending PROVE SafetyInv'
  <2>1. Elements(pending') = Elements(pending) \cup {inCall}
    BY <1>4, ElementsOfAppend DEF TypeOK, EnqueuePending
  <2> QED
    BY <1>4, <2>1 DEF TypeOK, EnqueuePending, Held, Valid
<1>5. ASSUME EnqueueCancelled PROVE SafetyInv'
  <2>1. inCall \in Msgs
    BY <1>5 DEF TypeOK, EnqueueCancelled
  <2>2. \A n \in Msgs : \/ server'[n] = server[n]
                        \/ server'[n] = "ready"
                        \/ server'[n] = "termed" /\ n \in Bad
    BY <1>5, <2>1, AnswerSettles DEF EnqueueCancelled
  <2> QED
    BY <1>0, <1>5, <2>2 DEF EnqueueCancelled, Held, Valid
<1>6. ASSUME Receive PROVE SafetyInv'
  <2>1. Head(pending) \in Msgs
    BY <1>6, HeadTail DEF TypeOK, Receive
  <2>2. /\ Elements(buf') = Elements(buf) \cup {Head(pending)}
        /\ Elements(pending) = Elements(pending') \cup {Head(pending)}
    BY <1>6, <2>1, ElementsOfAppend, ElementsOfTail DEF TypeOK, Receive
  <2> QED
    BY <1>6, <2>2 DEF Receive, Held, Valid
<1>7. ASSUME FlushTick \/ FlushLoopDone \/ Cancel PROVE SafetyInv'
  BY <1>7 DEF FlushTick, FlushLoopDone, Cancel, Held, Valid
<1>8. ASSUME WriteBatchStart PROVE SafetyInv'
  BY <1>8 DEF WriteBatchStart, Held, Valid
<1>9. ASSUME WriteBatchOk \/ WriteBatchUncommitted \/ WriteBatchFails
      PROVE  SafetyInv'
  <2>1. /\ loopPc = "write" /\ loopPc' = "settle"
        /\ UNCHANGED <<server, durable, callVars, pending, buf, heard>>
        /\ \/ rows' = Stored
           \/ rows' = rows /\ writeErr' = "db"
           \/ /\ rows' = rows
              /\ \A m \in Valid : rows'[m] = 0 => m \in uncommitted'
        /\ \A m \in uncommitted : rows'[m] = 0 => m \in uncommitted'
    BY <1>9 DEF WriteBatchOk, WriteBatchUncommitted, WriteBatchFails,
                WriteBatchReturns
  <2>2. \A m \in Valid : m \in Msgs /\ m \in heard /\ Stored[m] > 0
    BY StoredRows DEF Valid, Held
  <2>3. rows' \in [Msgs -> 0..Many] /\ \A m \in Msgs : rows'[m] >= rows[m]
    BY <2>1, StoredRows DEF TypeOK
  <2>4. \A m \in Msgs : rows'[m] > 0 => rows[m] > 0 \/ m \in heard
    BY <2>1, <2>2 DEF Stored
  <2>5. \A m \in Msgs : rows[m] > 0 \/ m \in uncommitted =>
                         rows'[m] > 0 \/ m \in uncommitted'
    BY <2>1, <2>3 DEF TypeOK
  <2>6. LostOnlyByCommit'
    BY <2>1, <2>5
  <2>7. BatchIsStored'
    <3>1. Valid' = Valid
      BY <2>1 DEF Valid
    <3> QED
      BY <2>1, <2>2, <2>3, <3>1
  <2>8. StoredIsHeard' /\ HeldIsHeard'
    BY <2>1, <2>4 DEF Held
  <2>9. TermedIsMalformed'
    BY <1>0, <2>1, <2>2, <2>4, StoredRows DEF TypeOK, StoredIsHeard
  <2> QED
    BY <2>6, <2>7, <2>8, <2>9
<1>10. ASSUME Settle PROVE SafetyInv'
  <2> DEFINE m == Head(buf)
  <2>1. m \in Msgs
    BY <1>10, HeadTail DEF TypeOK, Settle
  <2>2. Elements(buf) = Elements(buf') \cup {m}
    BY <1>10, ElementsOfTail DEF TypeOK, Settle
  <2>3. \A n \in Msgs : \/ server'[n] = server[n]
                        \/ server'[n] = "ready"
                        \/ server'[n] = "termed" /\ n \in Bad
                        \/ /\ server'[n] = "acked" /\ n = m
                           /\ m \notin Bad /\ writeErr = "nil"
    BY <1>10, <2>1, AnswerSettles DEF Settle
  <2>4. m \notin Bad /\ writeErr = "nil" => rows[m] > 0 \/ m \in uncommitted
    BY <1>10, <2>2 DEF Settle, Valid
  <2> HIDE DEF m
  <2>5. Valid' \subseteq Valid
    BY <2>2 DEF Valid
  <2>6. Held' \subseteq Held
    BY <1>10, <2>2 DEF Settle, Held
  <2> QED
    BY <1>0, <1>10, <2>3, <2>4, <2>5, <2>6 DEF Settle
<1>11. ASSUME FlushDone PROVE SafetyInv'
  BY <1>11 DEF FlushDone, Held, Valid
<1>12. ASSUME SubscriptionDrained PROVE SafetyInv'
  BY <1>12 DEF SubscriptionDrained, Held, Valid
<1>13. ASSUME Restart PROVE SafetyInv'
  BY <1>13, ElementsOfEmpty DEF Restart, Held, Valid
<1>14. CASE UNCHANGED vars
  BY <1>14 DEF vars, Held, Valid
<1> QED
  BY <1>1, <1>2, <1>3, <1>4, <1>5, <1>6, <1>7, <1>8, <1>9, <1>10, <1>11,
     <1>12, <1>13, <1>14 DEF Next, CallbackStep, LoopStep

(* For any stream, batch size and number of crashes: a message that is     *)
(* acknowledged, so that JetStream will not deliver it again, is in the    *)
(* table unless a commit failed without an error from any Exec.            *)
THEOREM AckedMessagesAreStoredOrUncommitted == Spec => []LostOnlyByCommit
<1>1. TypeOK /\ PlacesOK /\ SafetyInv => LostOnlyByCommit
  BY DEF SafetyInv
<1> QED
  BY <1>1, TypeInit, TypeNext, SafetyInit, SafetyNext, PTL DEF Spec

(* A terminated message is malformed and has no row.                       *)
THEOREM TermedMessagesAreMalformed == Spec => []TermedIsMalformed
<1>1. TypeOK /\ PlacesOK /\ SafetyInv => TermedIsMalformed
  BY DEF SafetyInv
<1> QED
  BY <1>1, TypeInit, TypeNext, SafetyInit, SafetyNext, PTL DEF Spec

(* A row has refreshed the heartbeat; a rejected message never does.       *)
THEOREM StoredMessagesAreHeard == Spec => []StoredIsHeard
<1>1. TypeOK /\ PlacesOK /\ SafetyInv => StoredIsHeard
  BY DEF SafetyInv
<1> QED
  BY <1>1, TypeInit, TypeNext, SafetyInit, SafetyNext, PTL DEF Spec

-----------------------------------------------------------------------------
(* One row per delivery.                                                   *)

(* The counts are numbers.                                                 *)
LEMMA CountTypes ==
  ASSUME TypeOK, NEW m \in Msgs
  PROVE  /\ Occurrences(pending, m) \in Nat /\ Occurrences(buf, m) \in Nat
         /\ Unwritten(m) \in Nat
         /\ rows[m] \in 0..Many /\ delivered[m] \in 0..Many
<1>1. /\ Occurrences(pending, m) \in Nat /\ Occurrences(buf, m) \in Nat
      /\ rows[m] \in 0..Many /\ delivered[m] \in 0..Many
  BY OccurrencesPositive DEF TypeOK
<1> QED
  BY <1>1 DEF Unwritten

(* A step that moves a copy, or drops one, and makes no row.               *)
LEMMA CopiesMove ==
  ASSUME CopiesCounted, TypeOK, TypeOK', UNCHANGED <<rows, delivered>>,
         \A m \in Msgs : Unwritten(m)' <= Unwritten(m)
  PROVE  CopiesCounted'
<1> SUFFICES ASSUME NEW m \in Msgs, delivered'[m] < Many
             PROVE  rows'[m] + Unwritten(m)' <= delivered'[m]
  BY DEF CopiesCounted
<1>1. Unwritten(m) \in Nat /\ rows[m] \in Nat /\ delivered[m] \in Nat
  BY CountTypes
<1>2. pending' \in Seq(Msgs) /\ buf' \in Seq(Msgs)
  BY DEF TypeOK
<1>3. Occurrences(pending', m) \in Nat /\ Occurrences(buf', m) \in Nat
  BY <1>2, OccurrencesPositive
<1>4. Unwritten(m)' \in Nat
  BY <1>3 DEF Unwritten
<1> QED
  BY <1>1, <1>4 DEF CopiesCounted

(* No row, no copy and no delivery at first.                               *)
LEMMA CountInit == Init => CopiesCounted
<1> SUFFICES ASSUME Init, NEW m \in Msgs PROVE rows[m] + Unwritten(m) <= delivered[m]
  BY DEF CopiesCounted
<1>1. inCall # m
  BY MsgsAssumption DEF Init
<1>2. Occurrences(pending, m) = 0 /\ Occurrences(buf, m) = 0
  BY OccurrencesOfEmpty DEF Init
<1> QED
  BY <1>1, <1>2 DEF Init, Unwritten

(* Every step keeps the count: a delivery adds one to both sides, and a    *)
(* batch that is written turns the copies in the buffer into rows.         *)
LEMMA CountNext ==
  TypeOK /\ PlacesOK /\ CopiesCounted /\ [Next]_vars => CopiesCounted'
<1> SUFFICES ASSUME TypeOK, PlacesOK, CopiesCounted, [Next]_vars
             PROVE  CopiesCounted'
  OBVIOUS
<1> USE MsgsAssumption, SizesAssumption
<1> USE DEF callVars, loopVars, remoteVars, pastVars
<1>0. TypeOK'
  BY TypeNext
<1>1. ASSUME NEW m \in Msgs, Deliver(m) PROVE CopiesCounted'
  <2> SUFFICES ASSUME NEW n \in Msgs, delivered'[n] < Many
               PROVE  rows'[n] + Unwritten(n)' <= delivered'[n]
    BY DEF CopiesCounted
  <2>1. Unwritten(n) \in Nat /\ rows[n] \in Nat /\ delivered[n] \in 0..Many
    BY CountTypes
  <2>2. CASE n = m
    <3>1. Unwritten(n)' = Unwritten(n) + 1
      BY <1>1, <2>2, CountTypes DEF Deliver, Unwritten
    <3>2. delivered'[n] = delivered[n] + 1
      BY <1>1, <2>1, <2>2 DEF Deliver, UpToMany, TypeOK
    <3> QED
      BY <1>1, <2>1, <3>1, <3>2 DEF Deliver, CopiesCounted
  <2>3. CASE n # m
    <3>1. Unwritten(n)' = Unwritten(n) /\ delivered'[n] = delivered[n]
      BY <1>1, <2>3 DEF Deliver, Unwritten, TypeOK
    <3> QED
      BY <1>1, <2>1, <3>1 DEF Deliver, CopiesCounted
  <2> QED
    BY <2>2, <2>3
<1>2. ASSUME \/ \E m \in Msgs : AckWaitExpires(m)
             \/ ProcessMessage \/ FlushTick \/ Cancel \/ SubscriptionDrained
             \/ UNCHANGED vars
      PROVE  CopiesCounted'
  <2>1. UNCHANGED <<pending, buf, inCall, rows, delivered>>
    BY <1>2 DEF AckWaitExpires, ProcessMessage, FlushTick, Cancel,
                SubscriptionDrained, vars
  <2>2. \/ UNCHANGED loopPc
        \/ loopPc = "select" /\ loopPc' = "flush"
    BY <1>2 DEF AckWaitExpires, ProcessMessage, FlushTick, Cancel,
                SubscriptionDrained, vars
  <2> QED
    BY <2>1, <2>2 DEF CopiesCounted, Unwritten
<1>3. ASSUME EnqueuePending PROVE CopiesCounted'
  <2>1. inCall \in Msgs
    BY <1>3 DEF TypeOK, EnqueuePending
  <2>2. ASSUME NEW m \in Msgs PROVE Unwritten(m)' = Unwritten(m)
    <3>1. Occurrences(pending', m) =
            Occurrences(pending, m) + IF inCall = m THEN 1 ELSE 0
      BY <1>3, <2>1, OccurrencesOfAppend DEF TypeOK, EnqueuePending
    <3> QED
      BY <1>3, <3>1, CountTypes DEF EnqueuePending, Unwritten
  <2> QED
    BY <1>3, <2>2 DEF EnqueuePending, CopiesCounted
<1>4. ASSUME EnqueueCancelled PROVE CopiesCounted'
  <2>1. UNCHANGED <<rows, delivered, pending, buf, loopPc>> /\ inCall' = NoMsg
    BY <1>4 DEF EnqueueCancelled
  <2>2. \A m \in Msgs : Unwritten(m)' <= Unwritten(m)
    BY <2>1, CountTypes DEF Unwritten
  <2> QED
    BY <1>0, <2>1, <2>2, CopiesMove
<1>5. ASSUME Receive PROVE CopiesCounted'
  <2>1. Head(pending) \in Msgs
    BY <1>5, HeadTail DEF TypeOK, Receive
  <2>2. ASSUME NEW m \in Msgs PROVE Unwritten(m)' = Unwritten(m)
    <3>1. Occurrences(buf', m) =
            Occurrences(buf, m) + IF Head(pending) = m THEN 1 ELSE 0
      BY <1>5, <2>1, OccurrencesOfAppend DEF TypeOK, Receive
    <3>2. Occurrences(pending, m) =
            Occurrences(pending', m) + IF Head(pending) = m THEN 1 ELSE 0
      BY <1>5, OccurrencesOfTail DEF TypeOK, Receive
    <3>3. Occurrences(pending', m) \in Nat
      BY <1>0, OccurrencesPositive DEF TypeOK
    <3>4. loopPc = "select" /\ loopPc' \in {"select", "flush"}
          /\ UNCHANGED inCall
      BY <1>5 DEF Receive
    <3> QED
      BY <3>1, <3>2, <3>3, <3>4, CountTypes DEF Unwritten
  <2> QED
    BY <1>5, <2>2 DEF Receive, CopiesCounted
<1>6. ASSUME FlushLoopDone \/ WriteBatchStart \/ Settle \/ FlushDone
      PROVE  CopiesCounted'
  <2>1. UNCHANGED <<rows, delivered, pending, inCall>>
    BY <1>6 DEF FlushLoopDone, WriteBatchStart, Settle, FlushDone
  <2>2. \/ UNCHANGED buf /\ loopPc \in {"select", "flush"}
        \/ UNCHANGED loopPc /\ loopPc = "settle"
        \/ buf' = <<>>
    BY <1>6 DEF FlushLoopDone, WriteBatchStart, Settle, FlushDone
  <2>3. \A m \in Msgs : Unwritten(m)' <= Unwritten(m)
    BY <2>1, <2>2, CountTypes, OccurrencesOfEmpty DEF Unwritten
  <2> QED
    BY <1>0, <2>1, <2>3, CopiesMove
<1>7. ASSUME WriteBatchOk \/ WriteBatchUncommitted \/ WriteBatchFails
      PROVE  CopiesCounted'
  <2>1. /\ loopPc = "write" /\ loopPc' = "settle"
        /\ UNCHANGED <<pending, buf, inCall, delivered>>
        /\ rows' = rows \/ rows' = Stored
    BY <1>7 DEF WriteBatchOk, WriteBatchUncommitted, WriteBatchFails,
                WriteBatchReturns
  <2> SUFFICES ASSUME NEW m \in Msgs, delivered'[m] < Many
               PROVE  rows'[m] + Unwritten(m)' <= delivered'[m]
    BY DEF CopiesCounted
  <2>2. rows[m] + Unwritten(m) <= delivered[m]
    BY <2>1 DEF CopiesCounted
  <2>3. Unwritten(m) = Unwritten(m)' + Occurrences(buf, m)
    BY <2>1, CountTypes DEF Unwritten
  <2>4. Unwritten(m)' \in Nat
    BY <2>1, CountTypes DEF Unwritten
  <2>5. rows'[m] <= rows[m] + Occurrences(buf, m)
    BY <2>1, CountTypes DEF Stored, UpToMany
  <2>6. rows'[m] \in Nat
    BY <1>0 DEF TypeOK
  <2> QED
    BY <2>1, <2>2, <2>3, <2>4, <2>5, <2>6, CountTypes
<1>8. ASSUME Restart PROVE CopiesCounted'
  <2>1. UNCHANGED <<rows, delivered>> /\ inCall' = NoMsg
        /\ pending' = <<>> /\ buf' = <<>>
    BY <1>8 DEF Restart
  <2>2. \A m \in Msgs : Unwritten(m)' <= Unwritten(m)
    BY <2>1, CountTypes, OccurrencesOfEmpty DEF Unwritten
  <2> QED
    BY <1>0, <2>1, <2>2, CopiesMove
<1> QED
  BY <1>1, <1>2, <1>3, <1>4, <1>5, <1>6, <1>7, <1>8
  DEF Next, CallbackStep, LoopStep

(* The table has no unique key, yet one delivery never makes two rows:     *)
(* whatever is redelivered, refused or written without the process         *)
(* learning of it, a message has at most one row per delivery.             *)
THEOREM OneRowForEachDelivery == Spec => []OneRowPerDelivery
<1>1. TypeOK /\ CopiesCounted => OneRowPerDelivery
  <2> SUFFICES ASSUME TypeOK, CopiesCounted, NEW m \in Msgs
               PROVE  rows[m] <= delivered[m]
    BY DEF OneRowPerDelivery
  <2> QED
    BY CountTypes, SizesAssumption DEF CopiesCounted
<1> QED
  BY <1>1, TypeInit, TypeNext, CountInit, CountNext, PTL DEF Spec

(* The inductive invariant of the results above, as one.                   *)
THEOREM TelemetryInvariant == Spec => []TelemetryInv
<1>1. TypeOK /\ PlacesOK /\ SafetyInv /\ CopiesCounted => TelemetryInv
  BY DEF SafetyInv, TelemetryInv
<1> QED
  BY <1>1, TypeInit, TypeNext, SafetyInit, SafetyNext, CountInit, CountNext,
     PTL DEF Spec

=============================================================================
