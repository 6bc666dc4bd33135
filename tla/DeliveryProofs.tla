--------------------------- MODULE DeliveryProofs ---------------------------
(***************************************************************************)
(* Proofs about calls and messages that come more than once or out of      *)
(* order: idempotency keys (Idempotency), the event store and its outbox   *)
(* (EventLog) and the projections into external systems (Federation), for  *)
(* any calls, writers, publishers, projections and handlers.               *)
(***************************************************************************)
EXTENDS Idempotency, EventLog, Federation, TLAPS

-----------------------------------------------------------------------------
(* Idempotency *)

\* A call that has its draft holds a key, a payload and the draft; one that has
\* missed, a key and a payload.
LEMMA CallTypes ==
  ASSUME IdempotencyTypeOK, NEW c \in Calls
  PROVE  /\ call[c].at # "idle" => call[c].key \in Keys /\ call[c].payload \in Payloads
         /\ call[c].at \in {"operated", "answered"} =>
              /\ call[c].draft \in Nat
              /\ call[c] = Holding(call[c].at, call[c].key, call[c].payload, call[c].draft)
         /\ call[c].at = "missed" =>
              call[c] = Stopped("missed", call[c].key, call[c].payload)
BY DEF IdempotencyTypeOK, CallState, NoCall, Holding, Stopped

\* What a call may become.
LEMMA CallStateTypes ==
  ASSUME NEW k \in Keys, NEW p \in Payloads
  PROVE  /\ \A at \in {"missed", "refused", "raised", "crashed"} : Stopped(at, k, p) \in CallState
         /\ \A at \in {"operated", "answered"}, d \in Nat : Holding(at, k, p, d) \in CallState
BY DEF CallState, Stopped, Holding

\* A lookup answers from a row of the key, or refuses, or misses when there is
\* no row (replay_or_execute).
LEMMA LookupCases ==
  ASSUME IdempotencyTypeOK, NEW k \in Keys, NEW p \in Payloads, NEW found \in Lookup(k, p)
  PROVE  \/ RowsOf(k) = {} /\ found = Stopped("missed", k, p)
         \/ found = Stopped("refused", k, p)
         \/ \E r \in RowsOf(k) : r.payload = p /\ found = Holding("answered", k, p, r.draft)
BY DEF Lookup, Replayed

\* Every step keeps the types.
LEMMA IdempotencyTypes == IdempotencyTypeOK /\ [IdempotencyNext]_idempotencyVars => IdempotencyTypeOK'
<1> SUFFICES ASSUME IdempotencyTypeOK, [IdempotencyNext]_idempotencyVars PROVE IdempotencyTypeOK'
  OBVIOUS
<1>1. ASSUME NEW c \in Calls, BeginCall(c) PROVE IdempotencyTypeOK'
  <2>1. PICK k \in Keys, p \in Payloads :
          /\ \E found \in Lookup(k, p) : call' = [call EXCEPT ![c] = found]
          /\ disturbed' \subseteq disturbed \union {k}
    BY <1>1 DEF BeginCall
  <2>2. PICK found \in Lookup(k, p) : call' = [call EXCEPT ![c] = found]
    BY <2>1
  <2>3. \A r \in RowsOf(k) : r.draft \in Nat
    BY DEF RowsOf, IdempotencyTypeOK, KeyRow
  <2>4. found \in CallState
    BY <2>3, LookupCases, CallStateTypes
  <2> QED  BY <1>1, <2>1, <2>2, <2>4 DEF BeginCall, IdempotencyTypeOK
<1>2. ASSUME NEW c \in Calls, RunOperation(c) PROVE IdempotencyTypeOK'
  <2>1. drafts + 1 \in Nat /\ call[c].key \in Keys /\ call[c].payload \in Payloads
    BY <1>2, CallTypes DEF RunOperation, IdempotencyTypeOK
  <2>2. Holding("operated", call[c].key, call[c].payload, drafts + 1) \in CallState
    BY <2>1, CallStateTypes
  <2> QED  BY <1>2, <2>1, <2>2 DEF RunOperation, IdempotencyTypeOK
<1>3. ASSUME NEW c \in Calls, RaiseInOperation(c) PROVE IdempotencyTypeOK'
  <2>1. Stopped("raised", call[c].key, call[c].payload) \in CallState
    BY <1>3, CallTypes, CallStateTypes DEF RaiseInOperation
  <2> QED  BY <1>3, <2>1 DEF RaiseInOperation, IdempotencyTypeOK
<1>4. ASSUME NEW c \in Calls, RecordKey(c) PROVE IdempotencyTypeOK'
  <2>1. /\ call[c] = Holding("operated", call[c].key, call[c].payload, call[c].draft)
        /\ call[c].key \in Keys /\ call[c].payload \in Payloads /\ call[c].draft \in Nat
    BY <1>4, CallTypes DEF RecordKey
  <2>2. [call[c] EXCEPT !.at = "answered"]
          = Holding("answered", call[c].key, call[c].payload, call[c].draft)
    BY <2>1 DEF Holding
  <2>3. [call[c] EXCEPT !.at = "answered"] \in CallState /\ RowOf(c) \in KeyRow
    BY <2>1, <2>2, CallStateTypes DEF RowOf, KeyRow
  <2> QED  BY <1>4, <2>3 DEF RecordKey, IdempotencyTypeOK
<1>5. ASSUME NEW c \in Calls, CrashCall(c) PROVE IdempotencyTypeOK'
  <2>1. call[c].key \in Keys /\ call[c].payload \in Payloads
    BY <1>5, CallTypes DEF CrashCall, Underway
  <2>2. Stopped("crashed", call[c].key, call[c].payload) \in CallState
    BY <2>1, CallStateTypes
  <2> QED  BY <1>5, <2>1, <2>2 DEF CrashCall, IdempotencyTypeOK
<1>6. CASE UNCHANGED idempotencyVars
  BY <1>6 DEF idempotencyVars, IdempotencyTypeOK
<1> QED  BY <1>1, <1>2, <1>3, <1>4, <1>5, <1>6 DEF IdempotencyNext

\* Every reachable state has its types (IdempotencyService and its callers).
THEOREM IdempotencyTypeCorrect == IdempotencySpec => []IdempotencyTypeOK
<1>1. IdempotencyInit => IdempotencyTypeOK
  BY DEF IdempotencyInit, IdempotencyTypeOK, CallState
<1>2. IdempotencyTypeOK /\ [IdempotencyNext]_idempotencyVars => IdempotencyTypeOK'
  BY IdempotencyTypes
<1> QED  BY <1>1, <1>2, PTL DEF IdempotencySpec

-----------------------------------------------------------------------------
(* Agreement *)

\* While nothing has disturbed a key, one call at a time works on it, and only
\* before its one row is recorded; whoever was answered, was answered with that
\* row.
Alone(k) == \A c, d \in Underway : call[c].key = k /\ call[d].key = k => c = d
NotYet(k) == (\E c \in Underway : call[c].key = k) => RowsOf(k) = {}
OneRow(k) == \A q, r \in RowsOf(k) : q = r
FromRow(k) == \A c \in Answered(k) : RowOf(c) \in RowsOf(k)

KeyInv == \A k \in Keys \ disturbed : Alone(k) /\ NotYet(k) /\ OneRow(k) /\ FromRow(k)

\* A call that neither begins nor ends work on a key, nor is answered, leaves
\* the key as it was.
LEMMA OtherKey ==
  ASSUME IdempotencyTypeOK, NEW c \in Calls, NEW next, call' = [call EXCEPT ![c] = next],
         NEW k \in Keys,
         Alone(k), NotYet(k), OneRow(k), FromRow(k),
         RowsOf(k)' = RowsOf(k),
         \/ next.at \in {"refused", "raised", "crashed"}
         \/ next.at \in {"missed", "operated"} /\ next.key # k
         \/ next.at \in {"missed", "operated"} /\ c \in Underway /\ next.key = call[c].key
         \/ next.at = "answered" /\ next.key # k
  PROVE  (Alone(k) /\ NotYet(k) /\ OneRow(k) /\ FromRow(k))'
<1>1. \A d \in Calls : call'[d] = IF d = c THEN next ELSE call[d]
  BY DEF IdempotencyTypeOK
<1>2. \A d \in Underway' : call'[d].key = k => d \in Underway /\ call[d].key = k
  BY <1>1 DEF Underway
<1>3. \A d \in Answered(k)' : d \in Answered(k) /\ call'[d] = call[d]
  BY <1>1 DEF Answered
<1>4. Alone(k)' /\ NotYet(k)' /\ OneRow(k)'
  BY <1>2 DEF Alone, NotYet, OneRow
<1>5. FromRow(k)'
  BY <1>3 DEF FromRow, RowOf
<1> QED  BY <1>4, <1>5

\* The call that works on a key alone and records it leaves one row, its own.
LEMMA RecordAlone ==
  ASSUME IdempotencyTypeOK, NEW c \in Calls, RecordKey(c), NEW k \in Keys, call[c].key = k,
         Alone(k), NotYet(k), FromRow(k)
  PROVE  (Alone(k) /\ NotYet(k) /\ OneRow(k) /\ FromRow(k))'
<1>1. c \in Underway /\ RowsOf(k) = {}
  BY DEF RecordKey, Underway, NotYet
<1>2. Answered(k) = {}
  BY <1>1 DEF FromRow
<1>3. RowOf(c).key = k /\ keyRows' = keyRows \union {RowOf(c)}
  BY DEF RowOf, RecordKey
<1>4. RowsOf(k)' = {RowOf(c)}
  BY <1>1, <1>3 DEF RowsOf
<1>5. /\ call'[c].at = "answered" /\ call'[c].key = call[c].key
      /\ call'[c].payload = call[c].payload /\ call'[c].draft = call[c].draft
      /\ \A d \in Calls : d # c => call'[d] = call[d]
  <2>1. call[c] = Holding("operated", call[c].key, call[c].payload, call[c].draft)
    BY CallTypes DEF RecordKey
  <2>2. call' = [call EXCEPT ![c] = [call[c] EXCEPT !.at = "answered"]]
    BY DEF RecordKey
  <2>3. [call[c] EXCEPT !.at = "answered"]
          = Holding("answered", call[c].key, call[c].payload, call[c].draft)
    BY <2>1 DEF Holding
  <2> QED  BY <2>2, <2>3 DEF IdempotencyTypeOK, Holding
<1>6. \A d \in Underway' : call'[d].key # k
  BY <1>1, <1>5 DEF Underway, Alone
<1>7. \A d \in Answered(k)' : d = c
  BY <1>2, <1>5 DEF Answered
<1>8. RowOf(c)' = RowOf(c)
  BY <1>5 DEF RowOf
<1> QED  BY <1>4, <1>6, <1>7, <1>8 DEF Alone, NotYet, OneRow, FromRow

\* Every step keeps what undisturbed keys have.
LEMMA NextKey == IdempotencyTypeOK /\ KeyInv /\ [IdempotencyNext]_idempotencyVars => KeyInv'
<1> SUFFICES ASSUME IdempotencyTypeOK, KeyInv, [IdempotencyNext]_idempotencyVars,
                    NEW k \in Keys, k \notin disturbed'
             PROVE  (Alone(k) /\ NotYet(k) /\ OneRow(k) /\ FromRow(k))'
  BY DEF KeyInv
<1>0. disturbed \subseteq disturbed'
  BY DEF IdempotencyNext, BeginCall, RunOperation, RaiseInOperation, RecordKey, CrashCall, idempotencyVars
<1>k. Alone(k) /\ NotYet(k) /\ OneRow(k) /\ FromRow(k)
  BY <1>0 DEF KeyInv
<1>r. UNCHANGED keyRows => RowsOf(k)' = RowsOf(k)
  BY DEF RowsOf
<1>1. ASSUME NEW c \in Calls, BeginCall(c)
      PROVE  (Alone(k) /\ NotYet(k) /\ OneRow(k) /\ FromRow(k))'
  <2>1. PICK j \in Keys, p \in Payloads :
          /\ \E found \in Lookup(j, p) : call' = [call EXCEPT ![c] = found]
          /\ disturbed' = IF \E d \in Underway : call[d].key = j
                            THEN disturbed \union {j} ELSE disturbed
    BY <1>1 DEF BeginCall
  <2>2. PICK found \in Lookup(j, p) : call' = [call EXCEPT ![c] = found]
    BY <2>1
  <2>3. UNCHANGED keyRows /\ call[c].at = "idle"
    BY <1>1 DEF BeginCall
  <2>4. found.key = j /\ found.at \in {"missed", "refused", "answered"}
    BY LookupCases DEF Stopped, Holding
  <2>5. CASE found.at = "refused" \/ j # k
    BY <1>k, <1>r, <2>2, <2>3, <2>4, <2>5, OtherKey
  <2>6. CASE found.at = "missed" /\ j = k
    <3>1. RowsOf(k) = {} /\ \A d \in Underway : call[d].key # k
      BY <2>1, <2>4, <2>6, LookupCases DEF Stopped, Holding
    <3>2. \A d \in Calls : call'[d] = IF d = c THEN found ELSE call[d]
      BY <2>2 DEF IdempotencyTypeOK
    <3>3. \A d \in Underway' : call'[d].key = k => d = c
      BY <3>1, <3>2 DEF Underway
    <3>4. Answered(k)' = {}
      BY <1>k, <2>6, <3>1, <3>2 DEF Answered, FromRow
    <3> QED  BY <1>r, <2>3, <3>1, <3>3, <3>4 DEF Alone, NotYet, OneRow, FromRow
  <2>7. CASE found.at = "answered" /\ j = k
    <3>1. PICK r \in RowsOf(k) : found = Holding("answered", k, p, r.draft) /\ r.payload = p
      BY <2>7, LookupCases DEF Stopped
    <3>2. \A d \in Calls : call'[d] = IF d = c THEN found ELSE call[d]
      BY <2>2 DEF IdempotencyTypeOK
    <3>3. RowOf(c)' = r
      BY <3>1, <3>2 DEF RowOf, Holding, RowsOf, IdempotencyTypeOK, KeyRow
    <3>4. \A d \in Underway' : d \in Underway /\ call'[d] = call[d]
      BY <2>7, <3>2 DEF Underway
    <3>5. \A d \in Answered(k)' : d = c \/ (d \in Answered(k) /\ RowOf(d)' = RowOf(d))
      <4> SUFFICES ASSUME NEW d \in Calls, d # c, call'[d].at = "answered", call'[d].key = k
                   PROVE  d \in Answered(k) /\ RowOf(d)' = RowOf(d)
        BY DEF Answered
      <4>1. call'[d] = call[d]
        BY <3>2
      <4> QED  BY <4>1 DEF Answered, RowOf
    <3>6. FromRow(k)'
      BY <1>k, <1>r, <2>3, <3>1, <3>3, <3>5 DEF FromRow
    <3> QED  BY <1>k, <1>r, <2>3, <3>4, <3>6 DEF Alone, NotYet, OneRow
  <2> QED  BY <2>4, <2>5, <2>6, <2>7
<1>2. ASSUME NEW c \in Calls, RunOperation(c)
      PROVE  (Alone(k) /\ NotYet(k) /\ OneRow(k) /\ FromRow(k))'
  <2> DEFINE next == Holding("operated", call[c].key, call[c].payload, drafts + 1)
  <2>1. /\ c \in Underway /\ call' = [call EXCEPT ![c] = next] /\ UNCHANGED keyRows
        /\ next.at = "operated" /\ next.key = call[c].key
    BY <1>2 DEF RunOperation, Underway, Holding
  <2> HIDE DEF next
  <2> QED  BY <1>k, <1>r, <2>1, OtherKey
<1>3. ASSUME NEW c \in Calls, RaiseInOperation(c)
      PROVE  (Alone(k) /\ NotYet(k) /\ OneRow(k) /\ FromRow(k))'
  <2> DEFINE next == Stopped("raised", call[c].key, call[c].payload)
  <2>1. call' = [call EXCEPT ![c] = next] /\ UNCHANGED keyRows /\ next.at = "raised"
    BY <1>3 DEF RaiseInOperation, Stopped
  <2> HIDE DEF next
  <2> QED  BY <1>k, <1>r, <2>1, OtherKey
<1>4. ASSUME NEW c \in Calls, CrashCall(c)
      PROVE  (Alone(k) /\ NotYet(k) /\ OneRow(k) /\ FromRow(k))'
  <2> DEFINE next == Stopped("crashed", call[c].key, call[c].payload)
  <2>1. call' = [call EXCEPT ![c] = next] /\ UNCHANGED keyRows /\ next.at = "crashed"
    BY <1>4 DEF CrashCall, Stopped
  <2> HIDE DEF next
  <2> QED  BY <1>k, <1>r, <2>1, OtherKey
<1>5. ASSUME NEW c \in Calls, RecordKey(c)
      PROVE  (Alone(k) /\ NotYet(k) /\ OneRow(k) /\ FromRow(k))'
  <2>1. CASE call[c].key = k
    BY <1>5, <1>k, <2>1, RecordAlone
  <2>2. CASE call[c].key # k
    <3> DEFINE next == [call[c] EXCEPT !.at = "answered"]
    <3>1. RowOf(c).key = call[c].key /\ keyRows' = keyRows \union {RowOf(c)}
      BY <1>5 DEF RowOf, RecordKey
    <3>2. RowsOf(k)' = RowsOf(k)
      BY <2>2, <3>1 DEF RowsOf
    <3>3. call' = [call EXCEPT ![c] = next]
      BY <1>5 DEF RecordKey
    <3>4. next.at = "answered" /\ next.key # k
      <4>1. call[c] = Holding("operated", call[c].key, call[c].payload, call[c].draft)
        BY <1>5, CallTypes DEF RecordKey
      <4>2. next = Holding("answered", call[c].key, call[c].payload, call[c].draft)
        BY <4>1 DEF Holding
      <4> QED  BY <2>2, <4>2 DEF Holding
    <3> HIDE DEF next
    <3> QED  BY <1>k, <3>2, <3>3, <3>4, OtherKey
  <2> QED  BY <2>1, <2>2
<1>6. ASSUME UNCHANGED idempotencyVars
      PROVE  (Alone(k) /\ NotYet(k) /\ OneRow(k) /\ FromRow(k))'
  <2>1. UNCHANGED <<call, keyRows>>
    BY <1>6 DEF idempotencyVars
  <2>2. Underway' = Underway /\ Answered(k)' = Answered(k) /\ RowsOf(k)' = RowsOf(k)
        /\ \A c \in Calls : RowOf(c)' = RowOf(c)
    BY <2>1 DEF Underway, Answered, RowsOf, RowOf
  <2> QED  BY <1>k, <2>1, <2>2 DEF Alone, NotYet, OneRow, FromRow, Answered
<1> QED  BY <1>1, <1>2, <1>3, <1>4, <1>5, <1>6 DEF IdempotencyNext

\* Calls of one key that neither overlap nor crash are answered with one draft,
\* for one payload (replay_or_execute).
THEOREM SequentialAgreement == IdempotencySpec => []SequentialCallsAgree
<1>1. IdempotencyInit => KeyInv
  BY DEF IdempotencyInit, KeyInv, Alone, NotYet, OneRow, FromRow, Underway, Answered, RowsOf, NoCall
<1>2. IdempotencyTypeOK /\ KeyInv /\ [IdempotencyNext]_idempotencyVars => KeyInv'
  BY NextKey
<1>3. IdempotencyTypeOK /\ KeyInv => SequentialCallsAgree
  <2> SUFFICES ASSUME IdempotencyTypeOK, KeyInv, NEW k \in Keys \ disturbed,
                      NEW c \in Answered(k), NEW d \in Answered(k)
               PROVE  call[c].draft = call[d].draft /\ call[c].payload = call[d].payload
    BY DEF SequentialCallsAgree
  <2>1. RowOf(c) = RowOf(d)
    BY DEF KeyInv, OneRow, FromRow
  <2> QED  BY <2>1 DEF RowOf
<1> QED  BY <1>1, <1>2, <1>3, IdempotencyTypeCorrect, PTL DEF IdempotencySpec

-----------------------------------------------------------------------------
(* Event log *)

\* Initially every variable has its type.
LEMMA EventLogStarts == EventLogInit => EventLogTypeOK
<1> SUFFICES ASSUME EventLogInit PROVE EventLogTypeOK
  OBVIOUS
<1>1. Stored = {}
  BY DEF EventLogInit, Stored, NoBatch
<1>2. \A p \in Publishers : DOMAIN publisher[p] = {}
  BY DEF EventLogInit, NoBatch
<1> QED  BY <1>1, <1>2 DEF EventLogInit, EventLogTypeOK

\* Writers keep the types (append and the transaction around it).
LEMMA WriterTypes ==
  ASSUME EventLogTypeOK, NEW w \in Writers, FlushEvent(w) \/ CommitEvent(w) \/ RollBackEvent(w)
  PROVE  EventLogTypeOK'
<1>1. CASE FlushEvent(w)
  <2>1. lastId' \in Nat /\ lastId < lastId' /\ writer' \in [Writers -> 0..lastId']
    BY <1>1 DEF FlushEvent, EventLogTypeOK
  <2>2. Stored' = Stored /\ UNCHANGED <<publisherVars, replayVars, late, outbox>>
    BY <1>1 DEF FlushEvent, Stored
  <2> QED  BY <2>1, <2>2 DEF EventLogTypeOK, publisherVars, replayVars
<1>2. CASE CommitEvent(w)
  <2>1. Stored' = Stored \union {writer[w]} /\ writer[w] \in 1..lastId
    BY <1>2 DEF CommitEvent, Stored, EventLogTypeOK
  <2>2. \A e \in Stored' : outbox'[e] \in OutboxStatus
    BY <1>2, <2>1 DEF CommitEvent, EventLogTypeOK, OutboxStatus, Stored
  <2>3. writer' \in [Writers -> 0..lastId'] /\ lastId' = lastId
    BY <1>2 DEF CommitEvent, EventLogTypeOK
  <2>4. late' \subseteq late \union {writer[w]} /\ UNCHANGED <<publisherVars, replayVars>>
    BY <1>2 DEF CommitEvent
  <2> QED  BY <2>1, <2>2, <2>3, <2>4 DEF EventLogTypeOK, publisherVars, replayVars
<1>3. CASE RollBackEvent(w)
  <2>1. writer' \in [Writers -> 0..lastId'] /\ lastId' = lastId
    BY <1>3 DEF RollBackEvent, EventLogTypeOK
  <2>2. Stored' = Stored /\ UNCHANGED <<publisherVars, replayVars, late, outbox>>
    BY <1>3 DEF RollBackEvent, Stored
  <2> QED  BY <2>1, <2>2 DEF EventLogTypeOK, publisherVars, replayVars
<1> QED  BY <1>1, <1>2, <1>3

\* Publishers keep the types (publish_pending).
LEMMA PublisherTypes ==
  ASSUME EventLogTypeOK, NEW p \in Publishers,
         ReadPending(p) \/ SendRow(p) \/ CommitStatuses(p) \/ CrashPublisher(p)
  PROVE  EventLogTypeOK'
<1>1. CASE ReadPending(p)
  <2>1. publisher' = [publisher EXCEPT ![p] = [e \in Pending |-> "pending"]]
        /\ UNCHANGED <<storeVars, sent, replayVars, late>>
    BY <1>1 DEF ReadPending
  <2>2. Stored' = Stored /\ Pending \subseteq Stored
    BY <2>1 DEF storeVars, Stored, Pending
  <2> QED  BY <2>1, <2>2 DEF EventLogTypeOK, storeVars, replayVars, OutboxStatus
<1>2. CASE SendRow(p)
  <2>1. PICK e \in Unhandled(p), outcome \in PublishOutcomes :
          /\ publisher' = [publisher EXCEPT ![p][e] = outcome.status]
          /\ sent' \subseteq sent \union {e}
    BY <1>2 DEF SendRow
  <2>2. outcome.status \in OutboxStatus /\ e \in DOMAIN publisher[p] /\ e \in Stored
    BY <2>1 DEF PublishOutcomes, OutboxStatus, Unhandled, EventLogTypeOK
  <2>3. Stored' = Stored /\ UNCHANGED <<storeVars, batches, replayVars, late>>
    BY <1>2 DEF SendRow, storeVars, Stored
  <2>4. \A q \in Publishers : \A d \in DOMAIN publisher'[q] :
          d \in DOMAIN publisher[q] /\ publisher'[q][d] \in {publisher[q][d], outcome.status}
    BY <2>1 DEF EventLogTypeOK
  <2>5. DOMAIN publisher' = Publishers
    BY <2>1 DEF EventLogTypeOK
  <2>6. \A q \in Publishers : \A d \in DOMAIN publisher'[q] :
          d \in Stored' /\ publisher'[q][d] \in OutboxStatus
    BY <2>2, <2>3, <2>4 DEF EventLogTypeOK
  <2>7. sent' \subseteq Stored'
    BY <2>1, <2>2, <2>3 DEF EventLogTypeOK
  <2> QED  BY <2>3, <2>5, <2>6, <2>7 DEF EventLogTypeOK, storeVars, replayVars
<1>3. CASE CommitStatuses(p)
  <2>1. Stored' = Stored
    BY <1>3 DEF CommitStatuses, Stored
  <2>2. \A e \in Stored : outbox'[e] \in OutboxStatus
    BY <1>3 DEF CommitStatuses, EventLogTypeOK, Stored
  <2> QED  BY <1>3, <2>1, <2>2 DEF CommitStatuses, EventLogTypeOK, replayVars, NoBatch
<1>4. CASE CrashPublisher(p)
  <2>1. Stored' = Stored
    BY <1>4 DEF CrashPublisher, storeVars, Stored
  <2> QED  BY <1>4, <2>1 DEF CrashPublisher, EventLogTypeOK, storeVars, replayVars, NoBatch
<1> QED  BY <1>1, <1>2, <1>3, <1>4

\* Readers keep the types (replay_events, save_checkpoint).
LEMMA ReaderTypes ==
  ASSUME EventLogTypeOK, ReplayRead \/ ReplayCommit \/ \E e \in seen : SaveCheckpoint(e)
  PROVE  EventLogTypeOK'
<1>1. Stored' = Stored /\ UNCHANGED <<storeVars, publisherVars, late>>
  BY DEF ReplayRead, ReplayCommit, SaveCheckpoint, storeVars, Stored
<1>2. CASE ReplayRead
  BY <1>1, <1>2 DEF ReplayRead, EventLogTypeOK, storeVars, publisherVars
<1>3. CASE ReplayCommit
  <2>1. checkpoint' \in Stored /\ seen' = seen \union replay /\ replay' = {}
    BY <1>3 DEF ReplayCommit
  <2> QED  BY <1>1, <2>1 DEF EventLogTypeOK, storeVars, publisherVars
<1>4. CASE \E e \in seen : SaveCheckpoint(e)
  <2>1. checkpoint' \in Stored /\ UNCHANGED <<replay, seen>>
    BY <1>4 DEF SaveCheckpoint, EventLogTypeOK
  <2> QED  BY <1>1, <2>1 DEF EventLogTypeOK, storeVars, publisherVars
<1> QED  BY <1>2, <1>3, <1>4

\* Every step keeps the types.
LEMMA EventLogSteps == EventLogTypeOK /\ [EventLogNext]_eventLogVars => EventLogTypeOK'
<1> SUFFICES ASSUME EventLogTypeOK, [EventLogNext]_eventLogVars PROVE EventLogTypeOK'
  OBVIOUS
<1>1. CASE UNCHANGED eventLogVars
  BY <1>1 DEF eventLogVars, EventLogTypeOK, Stored
<1>2. CASE EventLogNext
  BY <1>2, WriterTypes, PublisherTypes, ReaderTypes DEF EventLogNext
<1> QED  BY <1>1, <1>2

\* Every reachable state has its types (EventLog as a whole).
THEOREM EventLogTypeCorrect == EventLogSpec => []EventLogTypeOK
<1>1. EventLogInit => EventLogTypeOK
  BY EventLogStarts
<1>2. EventLogTypeOK /\ [EventLogNext]_eventLogVars => EventLogTypeOK'
  BY EventLogSteps
<1> QED  BY <1>1, <1>2, PTL DEF EventLogSpec

-----------------------------------------------------------------------------
(* Publication *)

\* What a publisher is about to commit as published, the bus has: the send
\* comes before the status, and the statuses of several publishers of one row
\* are each true of it.
PublisherInv ==
  /\ PublishedWasSent
  /\ \A p \in Publishers : \A e \in DOMAIN publisher[p] :
       publisher[p][e] = "published" => e \in sent

\* Every step keeps the publishers' statuses true.
LEMMA NextPublisher == EventLogTypeOK /\ PublisherInv /\ [EventLogNext]_eventLogVars => PublisherInv'
<1> SUFFICES ASSUME EventLogTypeOK, PublisherInv, [EventLogNext]_eventLogVars PROVE PublisherInv'
  OBVIOUS
<1>1. ASSUME NEW w \in Writers, CommitEvent(w) PROVE PublisherInv'
  <2>1. Stored' = Stored \union {writer[w]} /\ UNCHANGED publisherVars
    BY <1>1 DEF CommitEvent, Stored
  <2>2. \A e \in Stored' : outbox'[e] = "published" => e \in Stored /\ outbox[e] = "published"
    BY <1>1, <2>1 DEF CommitEvent
  <2> QED  BY <2>1, <2>2 DEF PublisherInv, PublishedWasSent, publisherVars
<1>2. ASSUME UNCHANGED <<outbox, publisher, sent>> PROVE PublisherInv'
  BY <1>2 DEF PublisherInv, PublishedWasSent, Stored
<1>3. ASSUME NEW w \in Writers, FlushEvent(w) \/ RollBackEvent(w) PROVE PublisherInv'
  BY <1>2, <1>3 DEF FlushEvent, RollBackEvent, publisherVars
<1>4. ASSUME NEW p \in Publishers, ReadPending(p) PROVE PublisherInv'
  <2>1. publisher' = [publisher EXCEPT ![p] = [e \in Pending |-> "pending"]]
        /\ UNCHANGED <<outbox, sent>>
    BY <1>4 DEF ReadPending, storeVars
  <2> QED  BY <2>1 DEF PublisherInv, PublishedWasSent, Stored, EventLogTypeOK
<1>5. ASSUME NEW p \in Publishers, SendRow(p) PROVE PublisherInv'
  <2>1. PICK e \in Unhandled(p), outcome \in PublishOutcomes :
          /\ publisher' = [publisher EXCEPT ![p][e] = outcome.status]
          /\ sent' = IF outcome.accepted THEN sent \union {e} ELSE sent
    BY <1>5 DEF SendRow
  <2>2. UNCHANGED outbox /\ Stored' = Stored
    BY <1>5 DEF SendRow, storeVars, Stored
  <2>3. outcome.status = "published" => e \in sent'
    BY <2>1 DEF PublishOutcomes
  <2>4. \A q \in Publishers : \A d \in DOMAIN publisher'[q] :
          publisher'[q][d] = "published" => d \in sent'
    BY <2>1, <2>3 DEF PublisherInv, EventLogTypeOK
  <2> QED  BY <2>1, <2>2, <2>4 DEF PublisherInv, PublishedWasSent
<1>6. ASSUME NEW p \in Publishers, CommitStatuses(p) PROVE PublisherInv'
  <2>1. /\ outbox' = [e \in Stored |->
              IF e \in DOMAIN publisher[p] THEN publisher[p][e] ELSE outbox[e]]
        /\ publisher' = [publisher EXCEPT ![p] = NoBatch]
        /\ UNCHANGED sent
    BY <1>6 DEF CommitStatuses
  <2>2. Stored' = Stored
    BY <2>1 DEF Stored
  <2>3. PublishedWasSent'
    BY <2>1, <2>2 DEF PublisherInv, PublishedWasSent
  <2> QED  BY <2>1, <2>3 DEF PublisherInv, NoBatch, EventLogTypeOK
<1>7. ASSUME NEW p \in Publishers, CrashPublisher(p) PROVE PublisherInv'
  <2>1. publisher' = [publisher EXCEPT ![p] = NoBatch] /\ UNCHANGED <<outbox, sent>>
    BY <1>7 DEF CrashPublisher, storeVars
  <2> QED  BY <2>1 DEF PublisherInv, PublishedWasSent, Stored, NoBatch, EventLogTypeOK
<1>8. ASSUME ReplayRead \/ ReplayCommit \/ \E e \in seen : SaveCheckpoint(e)
      PROVE  PublisherInv'
  BY <1>2, <1>8 DEF ReplayRead, ReplayCommit, SaveCheckpoint, storeVars, publisherVars
<1>9. CASE UNCHANGED eventLogVars
  BY <1>2, <1>9 DEF eventLogVars
<1> QED
  BY <1>1, <1>3, <1>4, <1>5, <1>6, <1>7, <1>8, <1>9 DEF EventLogNext

\* A row is marked published only when the bus has its event (publish_pending
\* sends before its caller commits).
THEOREM PublishedSent == EventLogSpec => []PublishedWasSent
<1>1. EventLogInit => PublisherInv
  BY DEF EventLogInit, PublisherInv, PublishedWasSent, Stored, NoBatch
<1>2. EventLogTypeOK /\ PublisherInv /\ [EventLogNext]_eventLogVars => PublisherInv'
  BY NextPublisher
<1>3. PublisherInv => PublishedWasSent
  BY DEF PublisherInv
<1> QED  BY <1>1, <1>2, <1>3, EventLogTypeCorrect, PTL DEF EventLogSpec

-----------------------------------------------------------------------------
(* Replay *)

\* An id is committed by the one writer that has it.
IdInv ==
  /\ \A w \in Writers : writer[w] \notin Stored
  /\ \A v, w \in Writers : v # w /\ writer[v] = writer[w] => writer[v] = 0

\* An unfinished replay holds, up to its last id, what the reader has not seen
\* and what was not late; a checkpoint is an id that was seen.
ReplayInv ==
  /\ ReplaySkipsOnlyLate
  /\ \A last \in replay : \A e \in Stored : e <= last => e \in replay \union seen \union late
  /\ checkpoint \in seen \union {0}

\* Every id that is stored, read or saved is a number the sequence gave out.
LEMMA StoredIds ==
  ASSUME EventLogTypeOK
  PROVE  /\ \A e \in Stored : e \in Nat
         /\ replay \union seen \subseteq Stored
         /\ checkpoint \in Nat
<1>1. \A e \in Stored : e \in 1..lastId
  BY DEF EventLogTypeOK
<1>2. replay \union seen \subseteq Stored
  BY DEF EventLogTypeOK
<1>3. checkpoint \in 0..lastId /\ lastId \in Nat
  BY DEF EventLogTypeOK
<1> QED  BY <1>1, <1>2, <1>3

\* Every step keeps the ids apart: the sequence gives each out once.
LEMMA NextId == EventLogTypeOK /\ IdInv /\ [EventLogNext]_eventLogVars => IdInv'
<1> SUFFICES ASSUME EventLogTypeOK, IdInv, [EventLogNext]_eventLogVars PROVE IdInv'
  OBVIOUS
<1>1. ASSUME NEW w \in Writers, FlushEvent(w) PROVE IdInv'
  <2>1. writer' = [writer EXCEPT ![w] = lastId + 1] /\ Stored' = Stored
    BY <1>1 DEF FlushEvent, Stored
  <2>2. lastId + 1 \notin Stored /\ \A v \in Writers : writer[v] # lastId + 1
    BY DEF EventLogTypeOK
  <2> QED  BY <2>1, <2>2 DEF IdInv, EventLogTypeOK
<1>2. ASSUME NEW w \in Writers, CommitEvent(w) PROVE IdInv'
  <2>1. writer[w] # 0 /\ writer' = [writer EXCEPT ![w] = 0] /\ Stored' = Stored \union {writer[w]}
    BY <1>2 DEF CommitEvent, Stored
  <2>2. 0 \notin Stored'
    BY <2>1 DEF EventLogTypeOK
  <2> QED  BY <2>1, <2>2 DEF IdInv, EventLogTypeOK
<1>3. ASSUME NEW w \in Writers, RollBackEvent(w) PROVE IdInv'
  <2>1. writer' = [writer EXCEPT ![w] = 0] /\ Stored' = Stored
    BY <1>3 DEF RollBackEvent, Stored
  <2>2. 0 \notin Stored'
    BY <2>1 DEF EventLogTypeOK
  <2> QED  BY <2>1, <2>2 DEF IdInv, EventLogTypeOK
<1>4. ASSUME UNCHANGED writer, Stored' = Stored PROVE IdInv'
  BY <1>4 DEF IdInv
<1>5. ASSUME NEW p \in Publishers, CommitStatuses(p) PROVE IdInv'
  BY <1>4, <1>5 DEF CommitStatuses, Stored
<1>6. ASSUME NEW p \in Publishers, ReadPending(p) \/ SendRow(p) \/ CrashPublisher(p)
      PROVE  IdInv'
  BY <1>4, <1>6 DEF ReadPending, SendRow, CrashPublisher, storeVars, Stored
<1>7. ASSUME ReplayRead \/ ReplayCommit \/ \E e \in seen : SaveCheckpoint(e) PROVE IdInv'
  BY <1>4, <1>7 DEF ReplayRead, ReplayCommit, SaveCheckpoint, storeVars, Stored
<1>8. CASE UNCHANGED eventLogVars
  BY <1>4, <1>8 DEF eventLogVars, Stored
<1> QED
  BY <1>1, <1>2, <1>3, <1>5, <1>6, <1>7, <1>8 DEF EventLogNext

\* Every step keeps what the reader may rely on.
LEMMA NextReplay == EventLogTypeOK /\ IdInv /\ ReplayInv /\ [EventLogNext]_eventLogVars => ReplayInv'
<1> SUFFICES ASSUME EventLogTypeOK, IdInv, ReplayInv, [EventLogNext]_eventLogVars PROVE ReplayInv'
  OBVIOUS
<1>1. ASSUME NEW w \in Writers, CommitEvent(w) PROVE ReplayInv'
  <2> DEFINE new == writer[w]
  <2>1. /\ new \in 1..lastId /\ new \notin Stored
        /\ Stored' = Stored \union {new} /\ UNCHANGED replayVars
        /\ late' = IF \E e \in replay \union seen : new < e THEN late \union {new} ELSE late
    BY <1>1 DEF CommitEvent, EventLogTypeOK, IdInv, Stored
  <2>2. \A e \in replay \union seen : e \in Stored /\ e \in Nat
    BY StoredIds
  <2>3. \A e \in replay \union seen : new <= e => new \in late'
    <3>1. ASSUME NEW e \in replay \union seen, new <= e PROVE new < e
      BY <2>1, <2>2, <3>1
    <3> QED  BY <2>1, <3>1
  <2>4. new <= checkpoint => new \in late'
    BY <2>1, <2>3 DEF ReplayInv
  <2>5. late \subseteq late'
    BY <2>1
  <2> HIDE DEF new
  <2>6. ReplaySkipsOnlyLate'
    BY <2>1, <2>4, <2>5 DEF ReplayInv, ReplaySkipsOnlyLate, replayVars
  <2> QED  BY <2>1, <2>3, <2>5, <2>6 DEF ReplayInv, replayVars
<1>2. ASSUME Stored' = Stored, UNCHANGED <<replayVars, late>> PROVE ReplayInv'
  BY <1>2 DEF ReplayInv, ReplaySkipsOnlyLate, replayVars
<1>3. ASSUME NEW w \in Writers, FlushEvent(w) \/ RollBackEvent(w) PROVE ReplayInv'
  BY <1>2, <1>3 DEF FlushEvent, RollBackEvent, Stored
<1>4. ASSUME NEW p \in Publishers, CommitStatuses(p) PROVE ReplayInv'
  BY <1>2, <1>4 DEF CommitStatuses, Stored
<1>5. ASSUME NEW p \in Publishers, ReadPending(p) \/ SendRow(p) \/ CrashPublisher(p)
      PROVE  ReplayInv'
  BY <1>2, <1>5 DEF ReadPending, SendRow, CrashPublisher, storeVars, Stored
<1>6. CASE ReplayRead
  <2>1. /\ replay' = {e \in Stored : e > checkpoint} /\ Stored' = Stored
        /\ UNCHANGED <<checkpoint, seen, late>>
    BY <1>6 DEF ReplayRead, storeVars, Stored
  <2>2. \A e \in Stored : e \in replay' \/ e <= checkpoint
    BY <2>1 DEF EventLogTypeOK
  <2> QED  BY <2>1, <2>2 DEF ReplayInv, ReplaySkipsOnlyLate
<1>7. CASE ReplayCommit
  <2>1. /\ checkpoint' \in replay /\ seen' = seen \union replay /\ replay' = {}
        /\ Stored' = Stored /\ UNCHANGED late
    BY <1>7 DEF ReplayCommit, Last, storeVars, Stored
  <2> QED  BY <2>1 DEF ReplayInv, ReplaySkipsOnlyLate
<1>8. ASSUME NEW id \in seen, SaveCheckpoint(id) PROVE ReplayInv'
  <2>1. /\ checkpoint' = id /\ id <= checkpoint /\ Stored' = Stored
        /\ UNCHANGED <<replay, seen, late>>
    BY <1>8 DEF SaveCheckpoint, storeVars, Stored
  <2>2. checkpoint \in Nat /\ id \in Nat /\ \A e \in Stored : e \in Nat
    BY StoredIds
  <2>3. \A e \in Stored : e <= checkpoint' => e <= checkpoint
    BY <2>1, <2>2
  <2> QED  BY <2>1, <2>3 DEF ReplayInv, ReplaySkipsOnlyLate
<1>9. CASE UNCHANGED eventLogVars
  BY <1>2, <1>9 DEF eventLogVars, replayVars, Stored
<1> QED
  BY <1>1, <1>3, <1>4, <1>5, <1>6, <1>7, <1>8, <1>9 DEF EventLogNext

\* A reader that continues from its checkpoint misses only events whose
\* transaction committed after a later id had been replayed (replay_events).
THEOREM ReplayMissesOnlyLate == EventLogSpec => []ReplaySkipsOnlyLate
<1>1. EventLogInit => IdInv /\ ReplayInv
  BY DEF EventLogInit, IdInv, ReplayInv, ReplaySkipsOnlyLate, Stored, NoBatch
<1>2. EventLogTypeOK /\ IdInv /\ ReplayInv /\ [EventLogNext]_eventLogVars => IdInv' /\ ReplayInv'
  BY NextId, NextReplay
<1>3. ReplayInv => ReplaySkipsOnlyLate
  BY DEF ReplayInv
<1> QED  BY <1>1, <1>2, <1>3, EventLogTypeCorrect, PTL DEF EventLogSpec

-----------------------------------------------------------------------------
(* Federation *)

\* What a handler has read and computed, by its operation; the rows it works
\* on are there.
OperationType(o) ==
  \/ o = NoOperation
  \/ /\ o.op = "row" /\ o.m \in Mapped
     /\ o.read \in Mapping /\ o.write \in Mapping
     /\ o.reports \in Statuses \union {NoStatus}
     /\ o.places \in Statuses \union {NoStatus}
  \/ /\ o.op = "pass"
     /\ DOMAIN o.read \subseteq Mapped
     /\ o.verdict \in [DOMAIN o.read -> {"conflict", "synced"}]

OperationsInv ==
  /\ DOMAIN operation = Syncers
  /\ \A s \in Syncers : OperationType(operation[s])
  /\ \A m \in Projections \ Mapped : placed[m] = NoStatus

\* What a handler will write agrees with what it reports, what it puts in
\* place and what it has read: an observation changes the shadow and the
\* visible status alike, a synchronization shows the shadow, and a resolution
\* leaves the shadow and the visible status or puts another in its place.
Consistent(o) ==
  /\ o.write.shadow = IF o.reports = NoStatus THEN o.read.shadow ELSE o.reports
  /\ o.write.visible = IF o.places = NoStatus THEN o.write.shadow ELSE o.places

WritesInv ==
  \A s \in Syncers :
    (operation[s].op = "row" /\ operation[s].m \notin raced) => Consistent(operation[s])

FederationInv == FederationTypeOK /\ OperationsInv /\ WritesInv /\ ExternalViewIsReported

\* The operation of a handler tells what it has read.
LEMMA OperationShapes ==
  ASSUME NEW o, OperationType(o)
  PROVE  /\ o.op \in {"idle", "row", "pass"}
         /\ o.op = "row" => /\ o.m \in Mapped /\ o.read \in Mapping /\ o.write \in Mapping
                            /\ o.reports \in Statuses \union {NoStatus}
                            /\ o.places \in Statuses \union {NoStatus}
         /\ o.op = "pass" => /\ DOMAIN o.read \subseteq Mapped
                             /\ o.verdict \in [DOMAIN o.read -> {"conflict", "synced"}]
<1>1. NoOperation.op = "idle"
  BY DEF NoOperation
<1> QED  BY <1>1 DEF OperationType

\* What a handler has read and computed has the types the type invariant asks for.
HandlersTyped ==
  \A s \in Syncers :
    \/ operation[s] = NoOperation
    \/ /\ operation[s].op = "row"
       /\ operation[s].m \in Mapped
       /\ {operation[s].read, operation[s].write} \subseteq Mapping
    \/ /\ operation[s].op = "pass"
       /\ operation[s].verdict \in [DOMAIN operation[s].read -> {"conflict", "synced"}]

\* A row with another status.
WithStatus(row, st) == [row EXCEPT !.status = st]

LEMMA MappingRows ==
  /\ \A row \in Mapping : row # NoMapping
  /\ \A row \in Mapping, st \in {"pending", "synced", "conflict", "reconciled"} :
       /\ WithStatus(row, st) \in Mapping
       /\ WithStatus(row, st).shadow = row.shadow
       /\ WithStatus(row, st).visible = row.visible
       /\ Json(WithStatus(row, st)) = Json(row)
  /\ \A x, y : Json(x) = Json(y) => x.visible = y.visible /\ x.shadow = y.shadow
<1>1. ASSUME NEW row \in Mapping PROVE row # NoMapping
  <2>1. DOMAIN row = {"adapter", "visible", "shadow", "basis", "status"}
    BY DEF Mapping
  <2>2. DOMAIN NoMapping = {"adapter"}
    BY DEF NoMapping
  <2> QED  BY <2>1, <2>2
<1>2. \A row \in Mapping, st \in {"pending", "synced", "conflict", "reconciled"} :
       /\ WithStatus(row, st) \in Mapping
       /\ WithStatus(row, st).shadow = row.shadow
       /\ WithStatus(row, st).visible = row.visible
       /\ Json(WithStatus(row, st)) = Json(row)
  BY DEF Mapping, Json, WithStatus
<1>3. \A x, y : Json(x) = Json(y) => x.visible = y.visible /\ x.shadow = y.shadow
  BY DEF Json
<1> QED  BY <1>1, <1>2, <1>3

\* A projection that is there has a row.
LEMMA MappedRows ==
  ASSUME mapping \in [Projections -> Mapping \union {NoMapping}]
  PROVE  /\ Mapped \subseteq Projections
         /\ \A m \in Projections : m \in Mapped <=> mapping[m] \in Mapping
BY MappingRows DEF Mapped

LEMMA MappedRowsNext ==
  ASSUME mapping' \in [Projections -> Mapping \union {NoMapping}]
  PROVE  \A m \in Projections : m \in Mapped' <=> mapping'[m] \in Mapping
BY MappingRows DEF Mapped

\* The reading half of an operation changes nothing but its handler.
LEMMA BeginsConsistent ==
  ASSUME FederationInv, NEW s \in Syncers, NEW o, OperationType(o),
         operation' = [operation EXCEPT ![s] = o],
         (o.op = "row" /\ o.m \notin raced) => Consistent(o),
         UNCHANGED <<canonical, mapping, observed, placed, raced>>
  PROVE  FederationInv'
<1>1. Mapped' = Mapped
  BY DEF Mapped
<1>2. /\ DOMAIN operation' = Syncers
      /\ \A t \in Syncers : operation'[t] = IF t = s THEN o ELSE operation[t]
  BY DEF FederationInv, OperationsInv
<1>3. \A t \in Syncers : OperationType(operation[t])'
  BY <1>1, <1>2 DEF FederationInv, OperationsInv, OperationType
<1>4. OperationsInv'
  BY <1>1, <1>2, <1>3 DEF FederationInv, OperationsInv
<1>5. WritesInv'
  BY <1>2 DEF FederationInv, WritesInv, Consistent
<1>6. HandlersTyped'
  BY <1>3 DEF OperationType, HandlersTyped
<1>7. FederationTypeOK'
  BY <1>1, <1>6 DEF FederationInv, FederationTypeOK, HandlersTyped
<1>8. ExternalViewIsReported'
  BY <1>1 DEF FederationInv, ExternalViewIsReported
<1> QED  BY <1>4, <1>5, <1>7, <1>8 DEF FederationInv

\* While the rows that are there stay there, and the handlers keep what they
\* have read or become idle, types are kept.
LEMMA TypesKept ==
  ASSUME FederationInv,
         mapping' \in [Projections -> Mapping \union {NoMapping}],
         Mapped \subseteq Mapped',
         DOMAIN operation' = Syncers,
         \A t \in Syncers : operation'[t] = operation[t] \/ operation'[t] = NoOperation,
         canonical' \in Statuses,
         observed' \in [Projections -> Statuses \union {NoStatus}],
         placed' \in [Projections -> Statuses \union {NoStatus}],
         raced' \subseteq Mapped',
         \A m \in Projections \ Mapped' : placed'[m] = NoStatus
  PROVE  FederationTypeOK' /\ OperationsInv'
<1>1. \A t \in Syncers : OperationType(operation[t])'
  BY DEF FederationInv, OperationsInv, OperationType
<1>2. HandlersTyped'
  BY <1>1 DEF OperationType, HandlersTyped
<1> QED  BY <1>1, <1>2 DEF FederationInv, FederationTypeOK, OperationsInv, HandlersTyped

\* What a handler has computed stays consistent when others become idle.
LEMMA WritesKept ==
  ASSUME WritesInv, raced \subseteq raced',
         \A t \in Syncers : operation'[t] = operation[t] \/ operation'[t] = NoOperation
  PROVE  WritesInv'
<1>1. NoOperation.op = "idle"
  BY DEF NoOperation
<1> QED  BY <1>1 DEF WritesInv, Consistent

LEMMA EntityChanges ==
  ASSUME FederationInv, NEW st \in Statuses, ChangeEntity(st)
  PROVE  FederationInv'
<1>1. canonical' = st /\ UNCHANGED <<mapping, operation, observed, placed, raced>>
  BY DEF ChangeEntity
<1>2. Mapped' = Mapped
  BY <1>1 DEF Mapped
<1>3. FederationTypeOK' /\ OperationsInv'
  BY <1>1, <1>2, TypesKept DEF FederationInv, FederationTypeOK, OperationsInv
<1>4. WritesInv'
  BY <1>1, WritesKept DEF FederationInv
<1> QED  BY <1>1, <1>2, <1>3, <1>4 DEF FederationInv, ExternalViewIsReported

\* A new projection shows the entity's status, and so does the external side.
LEMMA EntityProjected ==
  ASSUME FederationInv, NEW m \in Projections, NEW adapter \in Adapters, ProjectEntity(m, adapter)
  PROVE  FederationInv'
<1> DEFINE row == Projected(adapter)
<1>1. /\ m \notin Mapped /\ mapping' = [mapping EXCEPT ![m] = row]
      /\ observed' = [observed EXCEPT ![m] = canonical]
      /\ UNCHANGED <<canonical, operation, placed, raced>>
  BY DEF ProjectEntity
<1>2. row \in Mapping /\ row.shadow = canonical /\ row.visible = canonical
  BY DEF Projected, Mapping, FederationInv, FederationTypeOK
<1> HIDE DEF row
<1>3. mapping' \in [Projections -> Mapping \union {NoMapping}]
  BY <1>1, <1>2 DEF FederationInv, FederationTypeOK
<1>4. Mapped' = Mapped \union {m}
  BY <1>1, <1>2, <1>3, MappedRows, MappedRowsNext DEF FederationInv, FederationTypeOK, Mapped
<1>5. placed[m] = NoStatus
  BY <1>1 DEF FederationInv, OperationsInv
<1>6. FederationTypeOK' /\ OperationsInv'
  BY <1>1, <1>3, <1>4, TypesKept DEF FederationInv, FederationTypeOK, OperationsInv
<1>7. WritesInv'
  BY <1>1, WritesKept DEF FederationInv
<1>8. ExternalViewIsReported'
  <2>1. mapping'[m] = row /\ observed'[m] = canonical
    BY <1>1 DEF FederationInv, FederationTypeOK
  <2>2. \A n \in Projections \ {m} : mapping'[n] = mapping[n] /\ observed'[n] = observed[n]
    BY <1>1 DEF FederationInv, FederationTypeOK
  <2>3. Mapped \subseteq Projections
    BY DEF Mapped
  <2> QED  BY <1>1, <1>2, <1>4, <1>5, <2>1, <2>2, <2>3 DEF FederationInv, ExternalViewIsReported
<1> QED  BY <1>6, <1>7, <1>8 DEF FederationInv

\* What a synchronization, an observation and a resolution compute from the
\* row they read.
LEMMA RowOperations ==
  ASSUME FederationInv, NEW s \in Syncers, NEW m \in Mapped,
         \/ SyncExternalState(s, m)
         \/ \E st \in Statuses : UpdateExternalState(s, m, st)
         \/ \E action \in Supported(mapping[m].adapter) : ApplyResolution(s, m, action)
  PROVE  FederationInv'
<1> DEFINE O(row, rewrites, reported, places) ==
      [op |-> "row", m |-> m, read |-> mapping[m], write |-> row,
       rewrites |-> rewrites, reports |-> reported, places |-> places]
<1>1. /\ mapping[m] \in Mapping
      /\ placed[m] \in Statuses \union {NoStatus}
      /\ m \in Projections
  BY MappedRows DEF FederationInv, FederationTypeOK
<1>2. ASSUME NEW row \in Mapping, NEW rewrites, NEW reported \in Statuses \union {NoStatus},
             NEW places \in Statuses \union {NoStatus},
             BeginOperation(s, m, row, rewrites, reported, places),
             m \notin raced =>
               /\ row.shadow = IF reported = NoStatus THEN mapping[m].shadow ELSE reported
               /\ row.visible = IF places = NoStatus THEN row.shadow ELSE places
      PROVE  FederationInv'
  <2> DEFINE o == O(row, rewrites, reported, places)
  <2>1. OperationType(o)
    BY <1>1 DEF OperationType
  <2>2. (o.op = "row" /\ o.m \notin raced) => Consistent(o)
    BY <1>2 DEF Consistent
  <2>3. operation' = [operation EXCEPT ![s] = o]
        /\ UNCHANGED <<canonical, mapping, observed, placed, raced>>
    BY <1>2 DEF BeginOperation
  <2> HIDE DEF o
  <2> QED  BY <2>1, <2>2, <2>3, BeginsConsistent
<1>3. CASE SyncExternalState(s, m)
  <2>1. /\ Synced(mapping[m]) \in Mapping
        /\ Synced(mapping[m]).shadow = mapping[m].shadow
        /\ Synced(mapping[m]).visible = mapping[m].shadow
    BY <1>1 DEF Synced, Mapping
  <2> QED  BY <1>2, <1>3, <2>1 DEF SyncExternalState
<1>4. CASE \E st \in Statuses : UpdateExternalState(s, m, st)
  <2>1. PICK st \in Statuses : UpdateExternalState(s, m, st)
    BY <1>4
  <2>2. /\ Observed(mapping[m], st) \in Mapping
        /\ Observed(mapping[m], st).shadow = st
        /\ Observed(mapping[m], st).visible = st
    BY <1>1 DEF Observed, Mapping
  <2>3. st # NoStatus
    BY StatusesAssumption
  <2> QED  BY <1>2, <2>1, <2>2, <2>3 DEF UpdateExternalState
<1>5. CASE \E action \in Supported(mapping[m].adapter) : ApplyResolution(s, m, action)
  <2>1. PICK action \in Supported(mapping[m].adapter) : ApplyResolution(s, m, action)
    BY <1>5
  <2> DEFINE row == Resolved(mapping[m], action)
             copies == CopiesCanonical(mapping[m].adapter, action)
             places == IF copies THEN canonical ELSE placed[m]
  <2>2. action \in {"accept_internal", "accept_external", "merge", "retry_sync", "reprovision",
                    "resume_session", "resume_runtime", "approve_runtime_checkpoint",
                    "import_runtime_artifact"}
    BY DEF Supported
  <2>3. canonical \in Statuses /\ canonical # NoStatus
    BY StatusesAssumption DEF FederationInv, FederationTypeOK
  <2>4. /\ row \in Mapping
        /\ row.shadow = mapping[m].shadow
        /\ row.visible = IF copies THEN canonical ELSE mapping[m].visible
    BY <1>1, <2>2, <2>3 DEF Resolved, Mapping
  <2>5. BeginOperation(s, m, row, Restamps(mapping[m].adapter, action), NoStatus, places)
    BY <2>1 DEF ApplyResolution
  <2>6. m \notin raced => mapping[m].visible = IF placed[m] = NoStatus THEN mapping[m].shadow ELSE placed[m]
    BY DEF FederationInv, ExternalViewIsReported
  <2> HIDE DEF row
  <2>7. places \in Statuses \union {NoStatus}
    BY <1>1, <2>3
  <2>8. m \notin raced => row.visible = IF places = NoStatus THEN row.shadow ELSE places
    BY <2>3, <2>4, <2>6
  <2> HIDE DEF places
  <2> QED  BY <1>2, <2>4, <2>5, <2>7, <2>8
<1> QED  BY <1>3, <1>4, <1>5

\* A handler writes the JSON column it computed, or leaves the one that is
\* there; if that one is what it had read, the row holds what it computed.
LEMMA WrittenRow ==
  ASSUME NEW old \in Mapping, NEW o, o.read \in Mapping, o.write \in Mapping
  PROVE  /\ Written(old, o) \in Mapping
         /\ Json(old) = Json(o.read) => Json(Written(old, o)) = Json(o.write)
<1> DEFINE changed == o.rewrites \/ Json(o.write) # Json(o.read)
           json == IF changed THEN o.write ELSE old
           status == IF o.write.status # o.read.status THEN o.write.status ELSE old.status
<1>1. Written(old, o) = WithStatus(json, status)
  BY DEF Written, WithStatus
<1>2. json \in Mapping /\ status \in {"pending", "synced", "conflict", "reconciled"}
  <2>1. \A row \in Mapping : row.status \in {"pending", "synced", "conflict", "reconciled"}
    BY DEF Mapping
  <2> HIDE DEF changed
  <2> QED  BY <2>1
<1>3. Json(old) = Json(o.read) => Json(json) = Json(o.write)
  <2>1. ~changed => Json(o.write) = Json(o.read)
    OBVIOUS
  <2> HIDE DEF changed
  <2> QED  BY <2>1
<1> HIDE DEF json, status
<1> QED  BY <1>1, <1>2, <1>3, MappingRows

\* The written row is what was reported, resolved or synchronized, unless the
\* handler's copy was out of date.
LEMMA RowCommits ==
  ASSUME FederationInv, NEW s \in Syncers, CommitRow(s)
  PROVE  FederationInv'
<1> DEFINE o == operation[s]  m == o.m  new == Written(mapping[m], o)
<1>1. /\ o.op = "row" /\ m \in Mapped /\ o.read \in Mapping /\ o.write \in Mapping
      /\ o.reports \in Statuses \union {NoStatus}
      /\ o.places \in Statuses \union {NoStatus}
      /\ m \notin raced => Consistent(o)
  BY OperationShapes DEF CommitRow, FederationInv, OperationsInv, WritesInv
<1>2. /\ mapping' = [mapping EXCEPT ![m] = new]
      /\ raced' = IF Json(mapping[m]) # Json(o.read) THEN raced \union {m} ELSE raced
      /\ observed' = [observed EXCEPT ![m] = IF o.reports = NoStatus THEN observed[m] ELSE o.reports]
      /\ placed' = [placed EXCEPT ![m] = o.places]
      /\ operation' = [operation EXCEPT ![s] = NoOperation]
      /\ UNCHANGED <<canonical, operations>>
  BY DEF CommitRow
<1> HIDE DEF m
<1>3. m \in Projections /\ mapping[m] \in Mapping
  BY <1>1, MappedRows DEF FederationInv, FederationTypeOK
<1>4. new \in Mapping /\ (Json(mapping[m]) = Json(o.read) => Json(new) = Json(o.write))
  BY <1>1, <1>3, WrittenRow
<1> HIDE DEF new, o
<1>5. mapping' \in [Projections -> Mapping \union {NoMapping}]
  BY <1>2, <1>4 DEF FederationInv, FederationTypeOK
<1>6. /\ mapping'[m] = new
      /\ observed'[m] = IF o.reports = NoStatus THEN observed[m] ELSE o.reports
      /\ placed'[m] = o.places
      /\ \A n \in Projections \ {m} :
           mapping'[n] = mapping[n] /\ observed'[n] = observed[n] /\ placed'[n] = placed[n]
  BY <1>2, <1>3 DEF FederationInv, FederationTypeOK
<1>7. Mapped' = Mapped
  BY <1>1, <1>4, <1>5, <1>6, MappedRows, MappedRowsNext DEF FederationInv, FederationTypeOK, Mapped
<1>8. raced \subseteq raced' /\ raced' \subseteq Mapped
  BY <1>1, <1>2 DEF FederationInv, FederationTypeOK
<1>9. /\ DOMAIN operation' = Syncers
      /\ \A t \in Syncers : operation'[t] = operation[t] \/ operation'[t] = NoOperation
  BY <1>2 DEF FederationInv, OperationsInv
<1>10. /\ observed' \in [Projections -> Statuses \union {NoStatus}]
       /\ placed' \in [Projections -> Statuses \union {NoStatus}]
  BY <1>1, <1>2 DEF FederationInv, FederationTypeOK
<1>11. \A n \in Projections \ Mapped' : placed'[n] = NoStatus
  BY <1>1, <1>6, <1>7 DEF FederationInv, OperationsInv
<1>12. canonical' \in Statuses
  BY <1>2 DEF FederationInv, FederationTypeOK
<1>13. FederationTypeOK' /\ OperationsInv'
  BY <1>5, <1>7, <1>8, <1>9, <1>10, <1>11, <1>12, TypesKept
<1>14. WritesInv'
  BY <1>8, <1>9, WritesKept DEF FederationInv
<1>15. ASSUME m \notin raced'
       PROVE  /\ new.shadow = observed'[m]
              /\ new.visible = IF placed'[m] = NoStatus THEN observed'[m] ELSE placed'[m]
  <2>1. m \notin raced /\ Json(mapping[m]) = Json(o.read)
    BY <1>2, <1>15
  <2>2. mapping[m].shadow = observed[m] /\ mapping[m].shadow = o.read.shadow
    BY <1>1, <2>1, MappingRows DEF FederationInv, ExternalViewIsReported
  <2>3. new.visible = o.write.visible /\ new.shadow = o.write.shadow
    BY <1>4, <2>1, MappingRows
  <2> QED  BY <1>1, <1>6, <2>1, <2>2, <2>3 DEF Consistent
<1>16. ExternalViewIsReported'
  BY <1>3, <1>6, <1>7, <1>8, <1>15, MappedRows DEF FederationInv, FederationTypeOK, ExternalViewIsReported
<1> QED  BY <1>13, <1>14, <1>16 DEF FederationInv

\* A reconciliation reads the statuses of the rows that are there.
LEMMA PassBegins ==
  ASSUME FederationInv, NEW s \in Syncers, ReconcileIntegration(s)
  PROVE  FederationInv'
<1> DEFINE o == [op |-> "pass",
                 read |-> [m \in Mapped |-> mapping[m].status],
                 verdict |-> [m \in Mapped |->
                                IF Conflict(mapping[m]) THEN "conflict" ELSE "synced"]]
<1>1. operation' = [operation EXCEPT ![s] = o]
      /\ UNCHANGED <<canonical, mapping, observed, placed, raced>>
  BY DEF ReconcileIntegration
<1>2. OperationType(o) /\ o.op # "row"
  BY DEF OperationType
<1> HIDE DEF o
<1> QED  BY <1>1, <1>2, BeginsConsistent

\* It writes statuses of rows, and leaves what they hold of the external side.
LEMMA PassCommits ==
  ASSUME FederationInv, NEW s \in Syncers, CommitPass(s)
  PROVE  FederationInv'
<1> DEFINE o == operation[s]
<1>1. /\ DOMAIN o.verdict \subseteq Mapped
      /\ \A m \in DOMAIN o.verdict : o.verdict[m] \in {"conflict", "synced"}
  BY OperationShapes DEF CommitPass, FederationInv, OperationsInv
<1>2. /\ mapping' = [m \in Projections |->
           IF m \in DOMAIN o.verdict /\ o.verdict[m] # o.read[m]
             THEN [mapping[m] EXCEPT !.status = o.verdict[m]] ELSE mapping[m]]
      /\ operation' = [operation EXCEPT ![s] = NoOperation]
      /\ UNCHANGED <<canonical, operations, observed, placed, raced>>
  BY DEF CommitPass
<1> HIDE DEF o
<1>3. Mapped \subseteq Projections /\ \A m \in Mapped : mapping[m] \in Mapping
  BY MappedRows DEF FederationInv, FederationTypeOK
<1>4. /\ \A m \in Mapped : /\ mapping'[m] \in Mapping
                           /\ mapping'[m].shadow = mapping[m].shadow
                           /\ mapping'[m].visible = mapping[m].visible
      /\ \A m \in Projections \ Mapped : mapping'[m] = NoMapping
  <2>1. ASSUME NEW m \in Mapped
        PROVE  /\ mapping'[m] \in Mapping
               /\ mapping'[m].shadow = mapping[m].shadow
               /\ mapping'[m].visible = mapping[m].visible
    <3>1. CASE mapping'[m] = mapping[m]
      BY <1>3, <3>1
    <3>2. CASE m \in DOMAIN o.verdict /\ mapping'[m] = WithStatus(mapping[m], o.verdict[m])
      BY <1>1, <1>3, <3>2, MappingRows
    <3> QED  BY <1>2, <1>3, <3>1, <3>2 DEF WithStatus
  <2>2. ASSUME NEW m \in Projections \ Mapped PROVE mapping'[m] = NoMapping
    <3>1. mapping[m] = NoMapping
      BY DEF Mapped
    <3> QED  BY <1>1, <1>2, <3>1
  <2> QED  BY <2>1, <2>2
<1>5. mapping' \in [Projections -> Mapping \union {NoMapping}]
  <2>1. DOMAIN mapping' = Projections
    BY <1>2
  <2>2. \A m \in Projections : mapping'[m] \in Mapping \union {NoMapping}
    BY <1>4
  <2> QED  BY <1>2, <2>1, <2>2
<1>6. Mapped' = Mapped
  BY <1>3, <1>4, <1>5, MappedRowsNext DEF Mapped
<1>7. /\ DOMAIN operation' = Syncers
      /\ \A t \in Syncers : operation'[t] = operation[t] \/ operation'[t] = NoOperation
  BY <1>2 DEF FederationInv, OperationsInv
<1>8. FederationTypeOK' /\ OperationsInv'
  BY <1>2, <1>5, <1>6, <1>7, TypesKept DEF FederationInv, FederationTypeOK, OperationsInv
<1>9. WritesInv'
  BY <1>2, <1>7, WritesKept DEF FederationInv
<1>10. ExternalViewIsReported'
  BY <1>2, <1>4, <1>6 DEF FederationInv, ExternalViewIsReported
<1> QED  BY <1>8, <1>9, <1>10 DEF FederationInv

LEMMA FederationStarts == FederationInit => FederationInv
<1> SUFFICES ASSUME FederationInit PROVE FederationInv
  OBVIOUS
<1>1. Mapped = {}
  BY DEF FederationInit, Mapped
<1>2. NoOperation.op = "idle"
  BY DEF NoOperation
<1>3. FederationTypeOK
  BY DEF FederationInit, FederationTypeOK
<1>4. OperationsInv /\ WritesInv
  BY <1>2 DEF FederationInit, OperationsInv, WritesInv, OperationType
<1> QED  BY <1>1, <1>3, <1>4 DEF FederationInv, ExternalViewIsReported

LEMMA FederationSteps == FederationInv /\ [FederationNext]_federationVars => FederationInv'
<1> SUFFICES ASSUME FederationInv, [FederationNext]_federationVars PROVE FederationInv'
  OBVIOUS
<1>1. CASE UNCHANGED federationVars
  <2>1. UNCHANGED <<canonical, mapping, operation, operations, observed, placed, raced>>
    BY <1>1 DEF federationVars
  <2> QED  BY <2>1 DEF FederationInv, FederationTypeOK, OperationsInv, OperationType, WritesInv,
                       Consistent, ExternalViewIsReported, Mapped
<1>2. CASE \E st \in Statuses : ChangeEntity(st)
  BY <1>2, EntityChanges
<1>3. CASE \E m \in Projections, adapter \in Adapters : ProjectEntity(m, adapter)
  BY <1>3, EntityProjected
<1>4. ASSUME NEW s \in Syncers, NEW m \in Mapped,
             \/ SyncExternalState(s, m)
             \/ \E st \in Statuses : UpdateExternalState(s, m, st)
             \/ \E action \in Supported(mapping[m].adapter) : ApplyResolution(s, m, action)
      PROVE  FederationInv'
  BY <1>4, RowOperations
<1>5. ASSUME NEW s \in Syncers, CommitRow(s) \/ ReconcileIntegration(s) \/ CommitPass(s)
      PROVE  FederationInv'
  BY <1>5, RowCommits, PassBegins, PassCommits
<1> QED  BY <1>1, <1>2, <1>3, <1>4, <1>5 DEF FederationNext

LEMMA FederationInvariant == FederationSpec => []FederationInv
BY FederationStarts, FederationSteps, PTL DEF FederationSpec

\* The projection rows and the handlers that work on them keep their types.
THEOREM FederationTypeCorrect == FederationSpec => []FederationTypeOK
<1>1. FederationInv => FederationTypeOK
  BY DEF FederationInv
<1> QED  BY <1>1, FederationInvariant, PTL

\* For any number of projections, adapters and handlers: what a projection
\* shows of its external system is what that system reported last or what a
\* resolution put in its place, unless two handlers wrote its row at once.
THEOREM ViewIsReported == FederationSpec => []ExternalViewIsReported
<1>1. FederationInv => ExternalViewIsReported
  BY DEF FederationInv
<1> QED  BY <1>1, FederationInvariant, PTL

-----------------------------------------------------------------------------
(* One writer, one handler *)

\* An event in the making comes after all that are stored.
InOrder == late = {} /\ \A w \in Writers, e \in Stored : writer[w] # 0 => e < writer[w]

LEMMA WriterInOrder ==
  ASSUME \A v, w \in Writers : v = w,
         EventLogTypeOK, InOrder, [EventLogNext]_eventLogVars
  PROVE  InOrder'
<1>1. \A e \in Stored : e \in Nat /\ e <= lastId
  <2>1. lastId \in Nat /\ \A e \in Stored : e \in 1..lastId
    BY DEF EventLogTypeOK
  <2> QED  BY <2>1
<1>2. ASSUME NEW w \in Writers, FlushEvent(w) PROVE InOrder'
  <2>1. Stored' = Stored /\ late' = late
    BY <1>2 DEF FlushEvent, Stored
  <2>2. \A v \in Writers : writer'[v] = lastId + 1
    BY <1>2 DEF FlushEvent, EventLogTypeOK
  <2>3. lastId \in Nat
    BY DEF EventLogTypeOK
  <2> QED  BY <1>1, <2>1, <2>2, <2>3 DEF InOrder
<1>3. ASSUME NEW w \in Writers, writer' = [writer EXCEPT ![w] = 0], late' = {}
      PROVE  InOrder'
  <2>1. \A v \in Writers : writer'[v] = 0
    BY <1>3 DEF EventLogTypeOK
  <2> QED  BY <1>3, <2>1 DEF InOrder
<1>4. ASSUME NEW w \in Writers, CommitEvent(w) PROVE InOrder'
  <2>1. writer[w] \in Nat /\ \A e \in replay \union seen : e \in Stored
    BY DEF EventLogTypeOK
  <2>2. \A e \in replay \union seen : ~(writer[w] < e)
    BY <1>1, <1>4, <2>1 DEF CommitEvent, InOrder
  <2> QED  BY <1>3, <1>4, <2>2 DEF CommitEvent, InOrder
<1>5. ASSUME NEW w \in Writers, RollBackEvent(w) PROVE InOrder'
  BY <1>3, <1>5 DEF RollBackEvent, InOrder
<1>6. CASE UNCHANGED <<writer, late>> /\ Stored' = Stored
  BY <1>6 DEF InOrder
<1>7. ASSUME NEW p \in Publishers,
             ReadPending(p) \/ SendRow(p) \/ CommitStatuses(p) \/ CrashPublisher(p)
      PROVE  UNCHANGED <<writer, late>> /\ Stored' = Stored
  BY <1>7 DEF ReadPending, SendRow, CommitStatuses, CrashPublisher, Stored, storeVars
<1>8. ASSUME ReplayRead \/ ReplayCommit \/ \E e \in seen : SaveCheckpoint(e)
      PROVE  UNCHANGED <<writer, late>> /\ Stored' = Stored
  BY <1>8 DEF ReplayRead, ReplayCommit, SaveCheckpoint, Stored, storeVars
<1>9. CASE UNCHANGED eventLogVars
  BY <1>6, <1>9 DEF eventLogVars, Stored
<1> QED  BY <1>2, <1>4, <1>5, <1>6, <1>7, <1>8, <1>9 DEF EventLogNext

\* What replay_events may miss takes two writers: while one appends at a time,
\* ids are committed in the order they are given out, and a reader that
\* continues from its checkpoint has been given every event up to it.
THEOREM OneWriterMissesNothing ==
  ASSUME \A v, w \in Writers : v = w
  PROVE  EventLogSpec => [](\A e \in Stored : e <= checkpoint => e \in seen)
<1>1. EventLogInit => InOrder
  BY DEF EventLogInit, InOrder, Stored, NoBatch
<1>2. EventLogTypeOK /\ InOrder /\ [EventLogNext]_eventLogVars => InOrder'
  BY WriterInOrder
<1>3. ReplaySkipsOnlyLate /\ InOrder => \A e \in Stored : e <= checkpoint => e \in seen
  BY DEF ReplaySkipsOnlyLate, InOrder
<1> QED  BY <1>1, <1>2, <1>3, EventLogTypeCorrect, ReplayMissesOnlyLate, PTL DEF EventLogSpec

\* The row a handler works on is the one it has read.
RowsCurrent ==
  /\ raced = {}
  /\ \A s \in Syncers : operation[s].op = "row" => operation[s].read = mapping[operation[s].m]

LEMMA RowsStayCurrent ==
  ASSUME \A r, s \in Syncers : r = s,
         FederationInv, RowsCurrent, [FederationNext]_federationVars
  PROVE  RowsCurrent'
<1>1. NoOperation.op = "idle"
  BY DEF NoOperation
<1>2. ASSUME NEW s \in Syncers, operation' = [operation EXCEPT ![s] = NoOperation], raced' = {}
      PROVE  RowsCurrent'
  <2>1. \A t \in Syncers : operation'[t].op = "idle"
    BY <1>1, <1>2 DEF FederationInv, OperationsInv
  <2> QED  BY <1>2, <2>1 DEF RowsCurrent
<1>3. ASSUME NEW st \in Statuses, ChangeEntity(st) PROVE RowsCurrent'
  BY <1>3 DEF ChangeEntity, RowsCurrent
<1>4. ASSUME NEW m \in Projections, NEW adapter \in Adapters, ProjectEntity(m, adapter)
      PROVE  RowsCurrent'
  <2>1. /\ m \notin Mapped /\ UNCHANGED <<operation, raced>>
        /\ mapping' = [mapping EXCEPT ![m] = Projected(adapter)]
    BY <1>4 DEF ProjectEntity
  <2>2. \A n \in Mapped : mapping'[n] = mapping[n]
    BY <2>1 DEF FederationInv, FederationTypeOK, Mapped
  <2>3. \A s \in Syncers : operation[s].op = "row" => operation[s].m \in Mapped
    BY OperationShapes DEF FederationInv, OperationsInv
  <2> QED  BY <2>1, <2>2, <2>3 DEF RowsCurrent
<1>5. ASSUME NEW s \in Syncers, NEW o, operation' = [operation EXCEPT ![s] = o],
             UNCHANGED <<mapping, raced>>, o.op = "row" => o.read = mapping[o.m]
      PROVE  RowsCurrent'
  <2>1. \A t \in Syncers : operation'[t] = o
    BY <1>5 DEF FederationInv, OperationsInv
  <2> QED  BY <1>5, <2>1 DEF RowsCurrent
<1>6. ASSUME NEW s \in Syncers, NEW m \in Mapped,
             \/ SyncExternalState(s, m)
             \/ \E st \in Statuses : UpdateExternalState(s, m, st)
             \/ \E action \in Supported(mapping[m].adapter) : ApplyResolution(s, m, action)
      PROVE  RowsCurrent'
  <2>1. PICK row, rewrites, reported, places : BeginOperation(s, m, row, rewrites, reported, places)
    BY <1>6 DEF SyncExternalState, UpdateExternalState, ApplyResolution
  <2> DEFINE o == [op |-> "row", m |-> m, read |-> mapping[m], write |-> row,
                   rewrites |-> rewrites, reports |-> reported, places |-> places]
  <2>2. operation' = [operation EXCEPT ![s] = o] /\ UNCHANGED <<mapping, raced>>
    BY <2>1 DEF BeginOperation
  <2>3. o.read = mapping[o.m]
    OBVIOUS
  <2> HIDE DEF o
  <2> QED  BY <1>5, <2>2, <2>3
<1>7. ASSUME NEW s \in Syncers, CommitRow(s) PROVE RowsCurrent'
  <2>1. operation[s].read = mapping[operation[s].m]
    BY <1>7 DEF CommitRow, RowsCurrent
  <2> QED  BY <1>2, <1>7, <2>1 DEF CommitRow, RowsCurrent
<1>8. ASSUME NEW s \in Syncers, ReconcileIntegration(s) PROVE RowsCurrent'
  BY <1>5, <1>8 DEF ReconcileIntegration
<1>9. ASSUME NEW s \in Syncers, CommitPass(s) PROVE RowsCurrent'
  BY <1>2, <1>9 DEF CommitPass, RowsCurrent
<1>10. CASE UNCHANGED federationVars
  BY <1>10 DEF federationVars, RowsCurrent
<1> QED  BY <1>3, <1>4, <1>6, <1>7, <1>8, <1>9, <1>10 DEF FederationNext

\* The exception of ExternalViewIsReported takes two handlers: while one works
\* at a time, every projection shows what its external system reported last or
\* what a resolution put in its place.
THEOREM OneHandlerKeepsViews ==
  ASSUME \A r, s \in Syncers : r = s
  PROVE  FederationSpec =>
           [](\A m \in Mapped :
                /\ mapping[m].shadow = observed[m]
                /\ mapping[m].visible = IF placed[m] = NoStatus THEN observed[m] ELSE placed[m])
<1>1. FederationInit => RowsCurrent
  <2>1. NoOperation.op = "idle"
    BY DEF NoOperation
  <2> QED  BY <2>1 DEF FederationInit, RowsCurrent
<1>2. FederationInv /\ RowsCurrent /\ [FederationNext]_federationVars => RowsCurrent'
  BY RowsStayCurrent
<1>3. FederationInv /\ RowsCurrent =>
        \A m \in Mapped :
          /\ mapping[m].shadow = observed[m]
          /\ mapping[m].visible = IF placed[m] = NoStatus THEN observed[m] ELSE placed[m]
  BY DEF FederationInv, RowsCurrent, ExternalViewIsReported
<1> QED  BY <1>1, <1>2, <1>3, FederationInvariant, PTL DEF FederationSpec
=============================================================================
