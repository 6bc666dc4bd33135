---------------------------- MODULE Idempotency ----------------------------
(***************************************************************************)
(* The keys under which a call's response is replayed: IdempotencyService  *)
(* and the endpoints that wrap their operation in replay_or_execute.       *)
(*                                                                         *)
(* A call looks its key up, runs its operation and inserts its key in      *)
(* three transactions.  The operation is create_request_draft, the one     *)
(* whose repetition makes a second row; a draft is named by its number.    *)
(***************************************************************************)
EXTENDS Naturals

CONSTANTS
  Calls,        \* the calls that clients make, retries included
  Keys,         \* Idempotency-Key headers
  Payloads      \* request bodies, told apart by their hash

VARIABLES
  call,         \* each call: where it stands, its key and payload, its draft
  keyRows,      \* committed rows of idempotency_keys
  drafts,       \* how many drafts were committed
  disturbed     \* history: keys with overlapping calls or a crashed call

idempotencyVars == <<call, keyRows, drafts, disturbed>>

-----------------------------------------------------------------------------
NoCall == [at |-> "idle"]
CallState ==
  {NoCall}
    \union [at: {"missed", "refused", "raised", "crashed"}, key: Keys, payload: Payloads]
    \union [at: {"operated", "answered"}, key: Keys, payload: Payloads, draft: Nat]
KeyRow == [key: Keys, payload: Payloads, draft: Nat]

Underway == {c \in Calls : call[c].at \in {"missed", "operated"}}

IdempotencyTypeOK ==
  /\ call \in [Calls -> CallState]
  /\ keyRows \subseteq KeyRow
  /\ drafts \in Nat
  /\ disturbed \subseteq Keys

IdempotencyInit ==
  /\ call = [c \in Calls |-> NoCall]
  /\ keyRows = {}
  /\ drafts = 0
  /\ disturbed = {}

-----------------------------------------------------------------------------
RowsOf(k) == {r \in keyRows : r.key = k}

Stopped(at, k, p) == [at |-> at, key |-> k, payload |-> p]
Holding(at, k, p, d) == [at |-> at, key |-> k, payload |-> p, draft |-> d]

Replayed_unhashed(r, k, p) == Holding("answered", k, p, r.draft)

\* a stored row replays its response, or refuses another body
Replayed(r, k, p) ==
  IF r.payload = p THEN Holding("answered", k, p, r.draft) ELSE Stopped("refused", k, p)

\* the first row of a query without an order is any of them
Lookup(k, p) ==
  IF RowsOf(k) = {} THEN {Stopped("missed", k, p)}
                    ELSE {Replayed(r, k, p) : r \in RowsOf(k)}

BeginCall(c) ==
  /\ call[c].at = "idle"
  /\ \E k \in Keys, p \in Payloads :
       /\ \E found \in Lookup(k, p) : call' = [call EXCEPT ![c] = found]
       /\ disturbed' = IF \E d \in Underway : call[d].key = k
                         THEN disturbed \union {k} ELSE disturbed
  /\ UNCHANGED <<keyRows, drafts>>

RunOperation(c) ==
  /\ call[c].at = "missed"
  /\ drafts' = drafts + 1
  /\ call' = [call EXCEPT ![c] = Holding("operated", call[c].key, call[c].payload, drafts + 1)]
  /\ UNCHANGED <<keyRows, disturbed>>

\* the operation raises: nothing of it is committed and no key is recorded
RaiseInOperation(c) ==
  /\ call[c].at = "missed"
  /\ call' = [call EXCEPT ![c] = Stopped("raised", call[c].key, call[c].payload)]
  /\ UNCHANGED <<keyRows, drafts, disturbed>>

RowOf(c) == [key |-> call[c].key, payload |-> call[c].payload, draft |-> call[c].draft]

RecordKey(c) ==
  /\ call[c].at = "operated"
  /\ keyRows' = keyRows \union {RowOf(c)}
  /\ call' = [call EXCEPT ![c].at = "answered"]
  /\ UNCHANGED <<drafts, disturbed>>

\* the process dies: what was committed stays, the caller has no answer
CrashCall(c) ==
  /\ c \in Underway
  /\ call' = [call EXCEPT ![c] = Stopped("crashed", call[c].key, call[c].payload)]
  /\ disturbed' = disturbed \union {call[c].key}
  /\ UNCHANGED <<keyRows, drafts>>

IdempotencyNext ==
  \E c \in Calls :
    \/ BeginCall(c)
    \/ RunOperation(c)
    \/ RaiseInOperation(c)
    \/ RecordKey(c)
    \/ CrashCall(c)

IdempotencySpec == IdempotencyInit /\ [][IdempotencyNext]_idempotencyVars

-----------------------------------------------------------------------------
Answered(k) == {c \in Calls : call[c].at = "answered" /\ call[c].key = k}

\* As long as the calls made with one key neither overlap nor die on the way,
\* a retry of any of them, whatever raised before it, is answered with the
\* draft of the first that succeeded and never with another body's
\* (replay_or_execute).
SequentialCallsAgree ==
  \A k \in Keys \ disturbed : \A c, d \in Answered(k) :
    call[c].draft = call[d].draft /\ call[c].payload = call[d].payload

\* Two calls with the same key and the same body are given the same result,
\* which is what the API contract says of the Idempotency-Key header.
SameKeySameResult ==
  \A k \in Keys : \A c, d \in Answered(k) :
    call[c].payload = call[d].payload => call[c].draft = call[d].draft
=============================================================================
