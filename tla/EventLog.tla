------------------------------ MODULE EventLog ------------------------------
(***************************************************************************)
(* The event store and its two readers: EventStoreService.append, which    *)
(* every handler calls in its own transaction, EventPublisherService,      *)
(* which drains the outbox, and EventReplayService, which returns a        *)
(* scope's events and keeps a checkpoint.                                  *)
(*                                                                         *)
(* An event takes its id at the flush inside append and becomes visible,   *)
(* with its outbox row, when the handler's transaction commits.            *)
(***************************************************************************)
EXTENDS Naturals

CONSTANTS
  Writers,      \* handlers, each in a transaction of its own
  MaxEvents,    \* bound: ids the store gives out
  Publishers,   \* processes that run publish_pending
  MaxBatches    \* bound: batches the publishers take in all

VARIABLES
  writer,       \* the id each writer has flushed and not committed, or 0
  lastId,       \* the sequence the store takes its ids from
  outbox,       \* status of each committed event's outbox row, by event id
  publisher,    \* each publisher: what it did with each row it read
  batches,
  sent,         \* ids the bus has accepted
  checkpoint,   \* the replay checkpoint of the scope, 0 when there is none
  replay,       \* what an unfinished replay has read
  seen,         \* ids a reader was given
  late          \* history: ids committed after a replay had read past them

eventLogVars == <<writer, lastId, outbox, publisher, batches, sent,
                  checkpoint, replay, seen, late>>
storeVars == <<writer, lastId, outbox>>
publisherVars == <<publisher, batches, sent>>
replayVars == <<checkpoint, replay, seen>>

-----------------------------------------------------------------------------
OutboxStatus == {"pending", "deferred", "published", "failed"}
Stored == DOMAIN outbox
NoBatch == [e \in {} |-> "pending"]

EventLogTypeOK ==
  /\ writer \in [Writers -> 0..lastId]
  /\ lastId \in Nat
  /\ Stored \subseteq 1..lastId
  /\ \A e \in Stored : outbox[e] \in OutboxStatus
  /\ DOMAIN publisher = Publishers
  /\ \A p \in Publishers : \A e \in DOMAIN publisher[p] :
       e \in Stored /\ publisher[p][e] \in OutboxStatus
  /\ checkpoint \in 0..lastId
  /\ sent \union replay \union seen \union late \subseteq Stored

EventLogInit ==
  /\ writer = [w \in Writers |-> 0]
  /\ lastId = 0
  /\ outbox = NoBatch
  /\ publisher = [p \in Publishers |-> NoBatch]
  /\ batches = 0
  /\ sent = {}
  /\ checkpoint = 0
  /\ replay = {}
  /\ seen = {}
  /\ late = {}

-----------------------------------------------------------------------------
(* append and the transaction around it *)

FlushEvent(w) ==
  /\ writer[w] = 0
  /\ lastId < MaxEvents
  /\ lastId' = lastId + 1
  /\ writer' = [writer EXCEPT ![w] = lastId + 1]
  /\ UNCHANGED <<outbox, publisherVars, replayVars, late>>

CommitEvent(w) ==
  /\ writer[w] # 0
  /\ outbox' = [e \in Stored \union {writer[w]} |->
                  IF e = writer[w] THEN "pending" ELSE outbox[e]]
  /\ late' = IF \E e \in replay \union seen : writer[w] < e
               THEN late \union {writer[w]} ELSE late
  /\ writer' = [writer EXCEPT ![w] = 0]
  /\ UNCHANGED <<lastId, publisherVars, replayVars>>

\* the handler raises or dies: the id is not used again
RollBackEvent(w) ==
  /\ writer[w] # 0
  /\ writer' = [writer EXCEPT ![w] = 0]
  /\ UNCHANGED <<lastId, outbox, publisherVars, replayVars, late>>

-----------------------------------------------------------------------------
(* publish_pending: the rows are read, sent one after the other, and their *)
(* statuses committed together by the caller                               *)

Pending == {e \in Stored : outbox[e] = "pending"}

ReadPending(p) ==
  /\ publisher[p] = NoBatch
  /\ batches < MaxBatches
  /\ Pending # {}
  /\ publisher' = [publisher EXCEPT ![p] = [e \in Pending |-> "pending"]]
  /\ batches' = batches + 1
  /\ UNCHANGED <<storeVars, sent, replayVars, late>>

Unhandled(p) == {e \in DOMAIN publisher[p] : publisher[p][e] = "pending"}

PublishOutcomes_unchecked ==
  [status: {"published"}, accepted: BOOLEAN] \union [status: {"deferred"}, accepted: {FALSE}]

\* the status a row is given and whether the bus has accepted the event: an
\* answer lost on the way back is an exception like any other
PublishOutcomes ==
  [status: {"published"}, accepted: {TRUE}] \union [status: {"failed"}, accepted: BOOLEAN]
    \union [status: {"deferred"}, accepted: {FALSE}]

SendRow(p) ==
  /\ \E e \in Unhandled(p), outcome \in PublishOutcomes :
       /\ \A d \in Unhandled(p) : e <= d
       /\ publisher' = [publisher EXCEPT ![p][e] = outcome.status]
       /\ sent' = IF outcome.accepted THEN sent \union {e} ELSE sent
  /\ UNCHANGED <<storeVars, batches, replayVars, late>>

CommitStatuses(p) ==
  /\ publisher[p] # NoBatch
  /\ Unhandled(p) = {}
  /\ outbox' = [e \in Stored |->
                  IF e \in DOMAIN publisher[p] THEN publisher[p][e] ELSE outbox[e]]
  /\ publisher' = [publisher EXCEPT ![p] = NoBatch]
  /\ UNCHANGED <<writer, lastId, batches, sent, replayVars, late>>

CrashPublisher(p) ==
  /\ publisher[p] # NoBatch
  /\ publisher' = [publisher EXCEPT ![p] = NoBatch]
  /\ UNCHANGED <<storeVars, batches, sent, replayVars, late>>

-----------------------------------------------------------------------------
(* Replay: a reader asks for what follows its checkpoint *)

ReplayRead ==
  /\ replay = {}
  /\ replay' = {e \in Stored : e > checkpoint}
  /\ replay' # {}
  /\ UNCHANGED <<storeVars, publisherVars, checkpoint, seen, late>>

Last_stored(events, e) == \A d \in Stored : d <= e

\* the id saved is the last of the events that were read
Last(events, e) == e \in events /\ \A d \in events : d <= e

ReplayCommit ==
  /\ replay # {}
  /\ \E e \in Stored : Last(replay, e) /\ checkpoint' = e
  /\ seen' = seen \union replay
  /\ replay' = {}
  /\ UNCHANGED <<storeVars, publisherVars, late>>

\* a reader saves the id up to which it has handled what it was given
SaveCheckpoint(e) ==
  /\ e \in seen
  /\ e <= checkpoint
  /\ checkpoint' = e
  /\ UNCHANGED <<storeVars, publisherVars, replay, seen, late>>

EventLogNext ==
  \/ \E w \in Writers : FlushEvent(w) \/ CommitEvent(w) \/ RollBackEvent(w)
  \/ \E p \in Publishers :
       ReadPending(p) \/ SendRow(p) \/ CommitStatuses(p) \/ CrashPublisher(p)
  \/ ReplayRead
  \/ ReplayCommit
  \/ \E e \in seen : SaveCheckpoint(e)

EventLogSpec == EventLogInit /\ [][EventLogNext]_eventLogVars

-----------------------------------------------------------------------------
\* Whatever publishers overlap on the same rows or die before they commit, a
\* row is marked published only when the bus has the event (publish_pending
\* sends before its caller commits).
PublishedWasSent == \A e \in Stored : outbox[e] = "published" => e \in sent

\* A reader that continues from its checkpoint misses no committed event but
\* those whose transaction committed after a later id had been replayed
\* (replay_events saves the last id it read; ids are taken at the flush).
ReplaySkipsOnlyLate == \A e \in Stored : e <= checkpoint => e \in seen \union late
=============================================================================
