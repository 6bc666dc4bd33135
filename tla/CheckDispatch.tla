--------------------------- MODULE CheckDispatch ---------------------------
(***************************************************************************)
(* Queueing and running the checks of one request with the local backend   *)
(* of check_dispatch_service (the default): API sessions enqueue a check   *)
(* run and spawn a thread for it before they commit; the thread retries    *)
(* until it sees the row, evaluates the checks and commits the results.    *)
(* The database is READ COMMITTED and nothing is locked except by the      *)
(* primary key of check_runs.                                              *)
(***************************************************************************)
EXTENDS Integers, FiniteSets

CONSTANTS
  Sessions,     \* API sessions that enqueue, each once (bounds the run ids)
  MaxTries,     \* attempts of a thread to find its row (20 in the code)
  MaxContent,   \* bound on the versions of the request's content
  MaxCrashes    \* bound on crashes of the API process

ASSUME DispatchAssumption ==
  MaxTries \in Nat \ {0} /\ MaxContent \in Nat /\ MaxCrashes \in Nat
ASSUME SessionsAssumption == IsFiniteSet(Sessions)

Runs == 1..Cardinality(Sessions)
NoRun == 0

VARIABLES
  content,   \* version of the request's content, advanced by amendments
  row,       \* committed status of each check run, "absent" without a row
  asked,     \* content version when the row was committed
  covered,   \* content version the run's committed results were computed from
  session,   \* the enqueueing sessions: where they are and their run
  thread,    \* the thread each session spawned
  inflight,  \* _local_inflight: run ids a thread is registered for
  crashes,   \* crashes so far
  trouble    \* some crash, rollback or exhausted thread has happened

vars == <<content, row, asked, covered, session, thread, inflight, crashes, trouble>>

-----------------------------------------------------------------------------
NoThread == [pc |-> "none", run |-> NoRun, tries |-> 0, seen |-> 0]

Init ==
  /\ content = 0
  /\ row = [r \in Runs |-> "absent"]
  /\ asked = [r \in Runs |-> 0]
  /\ covered = [r \in Runs |-> 0]
  /\ session = [s \in Sessions |-> [pc |-> "idle", run |-> NoRun]]
  /\ thread = [s \in Sessions |-> NoThread]
  /\ inflight = {}
  /\ crashes = 0
  /\ trouble = FALSE

\* Any committed change of the rows the checks read: an amendment, a new
\* artifact version, a review decision.
AmendContent ==
  /\ content < MaxContent
  /\ content' = content + 1
  /\ UNCHANGED <<row, asked, covered, session, thread, inflight, crashes, trouble>>

-----------------------------------------------------------------------------
(* enqueue_request_checks, statement by statement, in an API session.      *)

Moved(s, pc, r) == session' = [session EXCEPT ![s] = [pc |-> pc, run |-> r]]

\* The first select: a run that is queued or running is reused.
FindPending(s) ==
  /\ session[s].pc = "idle"
  /\ IF \E r \in Runs : row[r] = "queued"
     THEN Moved(s, "done", NoRun)
     ELSE Moved(s, "numbering", NoRun)
  /\ UNCHANGED <<content, row, asked, covered, thread, inflight, crashes, trouble>>

\* _next_check_run_id: one more than the highest id that is committed.
NextCheckRunId(r) ==
  /\ \A q \in Runs : q < r => row[q] # "absent"
  /\ row[r] = "absent"

NumberRun(s) ==
  /\ session[s].pc = "numbering"
  /\ \E r \in Runs : NextCheckRunId(r) /\ Moved(s, "inserting", r)
  /\ UNCHANGED <<content, row, asked, covered, thread, inflight, crashes, trouble>>

\* The flush of the new row waits for another open session that inserted the
\* same id, and fails once that id is committed.
InsertConflict(s) ==
  /\ session[s].pc = "inserting"
  /\ row[session[s].run] # "absent"
  /\ Moved(s, "aborted", NoRun)
  /\ UNCHANGED <<content, row, asked, covered, thread, inflight, crashes, trouble>>

\* Faulty variant: one thread at a time instead of one per run id.
DispatchLocal_global(s, r) ==
  IF inflight # {}
  THEN UNCHANGED <<thread, inflight>>
  ELSE /\ inflight' = {r}
       /\ thread' = [thread EXCEPT ![s] = [NoThread EXCEPT !.pc = "trying", !.run = r]]

\* Faulty variant: the registered ids are not looked at.
DispatchLocal_always(s, r) ==
  /\ inflight' = inflight \union {r}
  /\ thread' = [thread EXCEPT ![s] = [NoThread EXCEPT !.pc = "trying", !.run = r]]

DispatchLocal(s, r) ==
  IF r \in inflight
  THEN UNCHANGED <<thread, inflight>>
  ELSE /\ inflight' = inflight \union {r}
       /\ thread' = [thread EXCEPT ![s] = [NoThread EXCEPT !.pc = "trying", !.run = r]]

\* Faulty variant: the row is merged, so an existing one is overwritten.
InsertAndDispatch_merge(s) ==
  /\ session[s].pc = "inserting"
  /\ Moved(s, "inserted", session[s].run)
  /\ DispatchLocal(s, session[s].run)
  /\ UNCHANGED <<content, row, asked, covered, crashes, trouble>>

InsertAndDispatch(s) ==
  /\ session[s].pc = "inserting"
  /\ row[session[s].run] = "absent"
  /\ \A o \in Sessions \ {s} :
        ~(session[o].pc = "inserted" /\ session[o].run = session[s].run)
  /\ Moved(s, "inserted", session[s].run)
  /\ DispatchLocal(s, session[s].run)
  /\ UNCHANGED <<content, row, asked, covered, crashes, trouble>>

CommitEnqueue(s) ==
  /\ session[s].pc = "inserted"
  /\ row' = [row EXCEPT ![session[s].run] = "queued"]
  /\ asked' = [asked EXCEPT ![session[s].run] = content]
  /\ Moved(s, "done", session[s].run)
  /\ UNCHANGED <<content, covered, thread, inflight, crashes, trouble>>

\* The rest of the handler raises: the row goes, the thread stays.
RollbackEnqueue(s) ==
  /\ session[s].pc = "inserted"
  /\ Moved(s, "aborted", NoRun)
  /\ trouble' = TRUE
  /\ UNCHANGED <<content, row, asked, covered, thread, inflight, crashes>>

-----------------------------------------------------------------------------
(* _runner and execute_check_run, in the thread that session t spawned.    *)

\* Faulty variant: the thread never gives up.
AttemptMissing_forever(t) ==
  /\ thread[t].pc = "trying"
  /\ row[thread[t].run] = "absent"
  /\ thread' = [thread EXCEPT ![t].tries = @ + 1]
  /\ UNCHANGED <<content, row, asked, covered, session, inflight, crashes, trouble>>

\* The row is not there: sleep and try again, up to MaxTries times.
AttemptMissing(t) ==
  /\ thread[t].pc = "trying"
  /\ row[thread[t].run] = "absent"
  /\ IF thread[t].tries + 1 < MaxTries
     THEN /\ thread' = [thread EXCEPT ![t].tries = @ + 1]
          /\ UNCHANGED trouble
     ELSE /\ thread' = [thread EXCEPT ![t].pc = "ending"]
          /\ trouble' = TRUE
  /\ UNCHANGED <<content, row, asked, covered, session, inflight, crashes>>

\* The row is there; a completed run is left alone, a failed one runs again.
AttemptFound(t) ==
  /\ thread[t].pc = "trying"
  /\ row[thread[t].run] # "absent"
  /\ thread' = [thread EXCEPT
       ![t].pc = IF row[thread[t].run] = "completed" THEN "ending" ELSE "running"]
  /\ UNCHANGED <<content, row, asked, covered, session, inflight, crashes, trouble>>

\* Faulty variant: the checks are evaluated on the content as of the dispatch.
ReadContent_stale(t) ==
  /\ thread[t].pc = "running"
  /\ thread' = [thread EXCEPT ![t].pc = "evaluated", ![t].seen = 0]
  /\ UNCHANGED <<content, row, asked, covered, session, inflight, crashes, trouble>>

ReadContent(t) ==
  /\ thread[t].pc = "running"
  /\ thread' = [thread EXCEPT ![t].pc = "evaluated", ![t].seen = content]
  /\ UNCHANGED <<content, row, asked, covered, session, inflight, crashes, trouble>>

CommitResults(t) ==
  /\ thread[t].pc = "evaluated"
  /\ row' = [row EXCEPT ![thread[t].run] = "completed"]
  /\ covered' = [covered EXCEPT ![thread[t].run] = thread[t].seen]
  /\ thread' = [thread EXCEPT ![t].pc = "ending"]
  /\ UNCHANGED <<content, asked, session, inflight, crashes, trouble>>

\* Faulty variant: an exception only rolls back.
FailRun_rollbackOnly(t) ==
  /\ thread[t].pc \in {"running", "evaluated"}
  /\ thread' = [thread EXCEPT ![t].pc = "ending"]
  /\ UNCHANGED <<content, row, asked, covered, session, inflight, crashes, trouble>>

\* An exception: results rolled back, the run committed as failed.
FailRun(t) ==
  /\ thread[t].pc \in {"running", "evaluated"}
  /\ row' = [row EXCEPT ![thread[t].run] = "failed"]
  /\ thread' = [thread EXCEPT ![t].pc = "ending"]
  /\ UNCHANGED <<content, asked, covered, session, inflight, crashes, trouble>>

\* The finally block of _runner.
EndThread(t) ==
  /\ thread[t].pc = "ending"
  /\ inflight' = inflight \ {thread[t].run}
  /\ thread' = [thread EXCEPT ![t].pc = "gone"]
  /\ UNCHANGED <<content, row, asked, covered, session, crashes, trouble>>

\* The API process dies: open sessions roll back, daemon threads vanish.
Crash ==
  /\ crashes < MaxCrashes
  /\ crashes' = crashes + 1
  /\ trouble' = TRUE
  /\ session' = [s \in Sessions |->
       IF session[s].pc \in {"idle", "done", "aborted"} THEN session[s]
       ELSE [pc |-> "aborted", run |-> NoRun]]
  /\ thread' = [t \in Sessions |->
       IF thread[t].pc = "none" THEN thread[t] ELSE [thread[t] EXCEPT !.pc = "gone"]]
  /\ inflight' = {}
  /\ UNCHANGED <<content, row, asked, covered>>

-----------------------------------------------------------------------------
SessionStep(s) ==
  \/ FindPending(s)
  \/ NumberRun(s)
  \/ InsertConflict(s)
  \/ InsertAndDispatch(s)
  \/ CommitEnqueue(s)
  \/ RollbackEnqueue(s)

ThreadStep(t) ==
  \/ AttemptMissing(t)
  \/ AttemptFound(t)
  \/ ReadContent(t)
  \/ CommitResults(t)
  \/ FailRun(t)
  \/ EndThread(t)

Next ==
  \/ AmendContent
  \/ \E s \in Sessions : SessionStep(s)
  \/ \E t \in Sessions : ThreadStep(t)
  \/ Crash

\* The operating system schedules the threads; nothing forces a client to call
\* again or an open session to finish.
Fairness == \A t \in Sessions : WF_vars(ThreadStep(t))

Spec == Init /\ [][Next]_vars
FairSpec == Spec /\ Fairness

-----------------------------------------------------------------------------
(* Properties.                                                             *)

\* Types of all variables.
TypeOK ==
  /\ content \in 0..MaxContent
  /\ row \in [Runs -> {"absent", "queued", "completed", "failed"}]
  /\ asked \in [Runs -> 0..MaxContent]
  /\ covered \in [Runs -> 0..MaxContent]
  /\ session \in [Sessions ->
        [pc : {"idle", "numbering", "inserting", "inserted", "done", "aborted"},
         run : Runs \union {NoRun}]]
  /\ thread \in [Sessions ->
        [pc : {"none", "trying", "running", "evaluated", "ending", "gone"},
         run : Runs \union {NoRun}, tries : 0..MaxTries, seen : 0..MaxContent]]
  /\ inflight \subseteq Runs
  /\ crashes \in 0..MaxCrashes
  /\ trouble \in BOOLEAN

Alive(t) == thread[t].pc \in {"trying", "running", "evaluated"}

\* Two threads never work on the same check run, not even when a rolled-back
\* enqueue leaves its thread behind and its id is given out again.
OneThreadPerRun ==
  \A t, u \in Sessions :
     t # u /\ Alive(t) /\ Alive(u) => thread[t].run # thread[u].run

\* The results of a completed run were computed from content at least as new
\* as the content its own enqueue committed with.  (Another session that found
\* the run pending and reused it gets no such promise.)
ResultsCoverEnqueue ==
  \A r \in Runs : row[r] = "completed" => covered[r] >= asked[r]

\* A thread that is alive when its row is committed finishes the run, as
\* completed or failed, unless the process crashes.
AttendedRunFinishes ==
  \A t \in Sessions, r \in Runs :
     (Alive(t) /\ thread[t].run = r /\ row[r] = "queued")
        ~> (row[r] \in {"completed", "failed"} \/ crashes > 0)

\* Every queued run finishes, so a gated transition is not refused forever, in
\* every execution without a crash, a rolled-back enqueue or a commit that
\* takes longer than a thread's patience.  (With one of these it may not: see
\* the README.)
QueuedRunFinishes ==
  \A r \in Runs :
     row[r] = "queued" ~> (row[r] \in {"completed", "failed"} \/ trouble)

\* Sessions, retries, rollbacks, reused run ids and crashes are invisible in
\* the rows: they behave as the runs that CheckRuns specifies.
Jobs == INSTANCE CheckRuns
          WITH Runs <- Runs, content <- content, row <- row,
               asked <- asked, covered <- covered
ImplementsCheckRuns == Jobs!Spec

-----------------------------------------------------------------------------
(* Strengthenings that are inductive (given TypeOK); CheckDispatchProofs     *)
(* proves them.                                                            *)

\* Sessions that insert, and threads, have a run.
NamedInv ==
  /\ \A s \in Sessions : session[s].pc \in {"inserting", "inserted"} => session[s].run \in Runs
  /\ \A t \in Sessions : thread[t].pc # "none" => thread[t].run \in Runs

\* Threads that have not ended are registered, each for a run of its own.
Registered(t) == Alive(t) \/ thread[t].pc = "ending"

RegisteredInv ==
  /\ \A t \in Sessions : Registered(t) => thread[t].run \in inflight
  /\ \A t, u \in Sessions :
        t # u /\ Registered(t) /\ Registered(u) => thread[t].run # thread[u].run

\* Uncommitted rows are not there yet and each belongs to one session; a
\* thread works on a committed row, on content as new as its enqueue's.
OpenInv ==
  /\ \A s \in Sessions : session[s].pc = "inserted" => row[session[s].run] = "absent"
  /\ \A s, o \in Sessions :
        s # o /\ session[s].pc = "inserted" /\ session[o].pc = "inserted"
          => session[s].run # session[o].run

CoverInv ==
  /\ ResultsCoverEnqueue
  /\ \A r \in Runs : row[r] # "absent" => asked[r] <= content
  /\ \A t \in Sessions :
        thread[t].pc \in {"running", "evaluated"} => row[thread[t].run] # "absent"
  /\ \A t \in Sessions :
        thread[t].pc = "evaluated" => thread[t].seen >= asked[thread[t].run]

\* No thread has seen content that does not exist yet.
SeenInv == \A t \in Sessions : thread[t].seen <= content

\* The rows below one that is being inserted are committed, and rows are
\* committed without gaps; a thread that works has an unfinished run.
JobsInv ==
  /\ \A r, q \in Runs : row[r] # "absent" /\ q < r => row[q] # "absent"
  /\ \A s \in Sessions : session[s].pc \in {"inserting", "inserted"} =>
        \A q \in Runs : q < session[s].run => row[q] # "absent"
  /\ \A t \in Sessions : thread[t].pc \in {"running", "evaluated"} =>
        row[thread[t].run] \in {"queued", "failed"}
=============================================================================
