------------------------ MODULE CheckDispatchProofs ------------------------
(***************************************************************************)
(* What CheckDispatch guarantees for any number of API sessions, crashes   *)
(* and attempts: its types, one thread per check run, and results at least *)
(* as new as the enqueue they answer.                                      *)
(***************************************************************************)
EXTENDS CheckDispatch, TLAPS

SessionRecords ==
  [pc : {"idle", "numbering", "inserting", "inserted", "done", "aborted"},
   run : Runs \union {NoRun}]

ThreadRecords ==
  [pc : {"none", "trying", "running", "evaluated", "ending", "gone"},
   run : Runs \union {NoRun}, tries : 0..MaxTries, seen : 0..MaxContent]

\* A thread is only spawned for the run its session just inserted.
LEMMA Spawned ==
  ASSUME NEW s \in Sessions, InsertAndDispatch(s)
  PROVE  \/ UNCHANGED <<thread, inflight>>
         \/ /\ session[s].run \notin inflight
            /\ inflight' = inflight \union {session[s].run}
            /\ thread' = [thread EXCEPT ![s] =
                 [pc |-> "trying", run |-> session[s].run, tries |-> 0, seen |-> 0]]
BY DEF InsertAndDispatch, DispatchLocal, NoThread

-----------------------------------------------------------------------------
(* Type correctness.                                                       *)

\* Types are kept by the API sessions.
LEMMA SessionStepType ==
  ASSUME TypeOK, NamedInv, NEW s \in Sessions, SessionStep(s)
  PROVE  TypeOK' /\ NamedInv'
<1>0. /\ session \in [Sessions -> SessionRecords]
      /\ thread \in [Sessions -> ThreadRecords]
  BY DEF TypeOK, SessionRecords, ThreadRecords
<1>1. CASE FindPending(s)
  <2>1. PICK pc \in {"done", "numbering"} :
           session' = [session EXCEPT ![s] = [pc |-> pc, run |-> NoRun]]
    BY <1>1 DEF FindPending, Moved
  <2>2. [pc |-> pc, run |-> NoRun] \in SessionRecords
    BY DEF SessionRecords
  <2>3. /\ session' \in [Sessions -> SessionRecords]
        /\ \A o \in Sessions :
             session'[o].pc \in {"inserting", "inserted"} => session'[o].run \in Runs
    BY <1>0, <2>1, <2>2 DEF NamedInv
  <2>. QED
    BY <1>1, <2>3 DEF FindPending, TypeOK, NamedInv, SessionRecords
<1>2. CASE NumberRun(s)
  BY <1>2 DEF NumberRun, Moved, TypeOK, NamedInv
<1>3. CASE InsertConflict(s)
  BY <1>3 DEF InsertConflict, Moved, TypeOK, NamedInv
<1>4. CASE InsertAndDispatch(s)
  <2>1. session[s].run \in Runs
    BY <1>4 DEF InsertAndDispatch, NamedInv
  <2>2. session' = [session EXCEPT ![s] = [pc |-> "inserted", run |-> session[s].run]]
    BY <1>4 DEF InsertAndDispatch, Moved
  <2>3. [pc |-> "trying", run |-> session[s].run, tries |-> 0, seen |-> 0]
          \in ThreadRecords
    BY <2>1, DispatchAssumption DEF ThreadRecords
  <2>4. /\ thread' \in [Sessions -> ThreadRecords]
        /\ inflight' \subseteq Runs
        /\ \A t \in Sessions : thread'[t].pc # "none" => thread'[t].run \in Runs
    BY <1>0, <1>4, <2>1, <2>3, Spawned DEF TypeOK, NamedInv
  <2>5. /\ session' \in [Sessions -> SessionRecords]
        /\ \A o \in Sessions :
             session'[o].pc \in {"inserting", "inserted"} => session'[o].run \in Runs
    BY <1>0, <2>1, <2>2 DEF SessionRecords, NamedInv
  <2>. QED
    BY <1>4, <2>4, <2>5
       DEF InsertAndDispatch, TypeOK, NamedInv, SessionRecords, ThreadRecords
<1>5. CASE CommitEnqueue(s)
  <2>1. session[s].run \in Runs
    BY <1>5 DEF CommitEnqueue, NamedInv
  <2>. QED
    BY <1>5, <2>1 DEF CommitEnqueue, Moved, TypeOK, NamedInv
<1>6. CASE RollbackEnqueue(s)
  BY <1>6 DEF RollbackEnqueue, Moved, TypeOK, NamedInv
<1>. QED
  BY <1>1, <1>2, <1>3, <1>4, <1>5, <1>6 DEF SessionStep

\* Types are kept by the threads.
LEMMA ThreadStepType ==
  ASSUME TypeOK, NamedInv, NEW t \in Sessions, ThreadStep(t)
  PROVE  TypeOK' /\ NamedInv'
<1>0. /\ thread \in [Sessions -> ThreadRecords]
      /\ thread[t].pc # "none" => thread[t].run \in Runs
  BY DEF TypeOK, ThreadRecords, NamedInv
<1>1. CASE AttemptMissing(t)
  <2>1. thread[t].tries + 1 < MaxTries => thread[t].tries + 1 \in 0..MaxTries
    BY <1>0, DispatchAssumption DEF ThreadRecords
  <2>2. /\ thread' \in [Sessions -> ThreadRecords]
        /\ \A u \in Sessions :
             /\ thread'[u].run = thread[u].run
             /\ thread'[u].pc # "none" => thread[u].pc # "none"
    BY <1>0, <1>1, <2>1 DEF AttemptMissing, ThreadRecords
  <2>3. trouble' \in BOOLEAN
    BY <1>1 DEF AttemptMissing, TypeOK
  <2>. QED
    BY <1>1, <2>2, <2>3 DEF AttemptMissing, TypeOK, NamedInv, ThreadRecords
<1>2. CASE AttemptFound(t)
  BY <1>2 DEF AttemptFound, TypeOK, NamedInv
<1>3. CASE ReadContent(t)
  <2>1. /\ thread' \in [Sessions -> ThreadRecords]
        /\ \A u \in Sessions :
             /\ thread'[u].run = thread[u].run
             /\ thread'[u].pc # "none" => thread[u].pc # "none"
    BY <1>0, <1>3 DEF ReadContent, ThreadRecords, TypeOK
  <2>. QED
    BY <1>3, <2>1 DEF ReadContent, TypeOK, NamedInv, ThreadRecords
<1>4. CASE CommitResults(t)
  BY <1>0, <1>4 DEF CommitResults, TypeOK, NamedInv
<1>5. CASE FailRun(t)
  BY <1>0, <1>5 DEF FailRun, TypeOK, NamedInv
<1>6. CASE EndThread(t)
  BY <1>6 DEF EndThread, TypeOK, NamedInv
<1>. QED
  BY <1>1, <1>2, <1>3, <1>4, <1>5, <1>6 DEF ThreadStep

\* Types are kept by every step.
LEMMA TypeStep == TypeOK /\ NamedInv /\ [Next]_vars => TypeOK' /\ NamedInv'
<1> SUFFICES ASSUME TypeOK, NamedInv, [Next]_vars PROVE TypeOK' /\ NamedInv'
  OBVIOUS
<1>1. CASE AmendContent
  BY <1>1, DispatchAssumption DEF AmendContent, TypeOK, NamedInv
<1>2. ASSUME NEW s \in Sessions, SessionStep(s) PROVE TypeOK' /\ NamedInv'
  BY <1>2, SessionStepType
<1>3. ASSUME NEW t \in Sessions, ThreadStep(t) PROVE TypeOK' /\ NamedInv'
  BY <1>3, ThreadStepType
<1>4. CASE Crash
  <2>1. /\ session' \in [Sessions -> SessionRecords]
        /\ \A s \in Sessions : session'[s].pc \notin {"inserting", "inserted"}
    BY <1>4 DEF Crash, TypeOK, SessionRecords
  <2>2. /\ thread' \in [Sessions -> ThreadRecords]
        /\ \A t \in Sessions :
             /\ thread'[t].run = thread[t].run
             /\ thread'[t].pc # "none" => thread[t].pc # "none"
    BY <1>4 DEF Crash, TypeOK, ThreadRecords
  <2>3. crashes' \in 0..MaxCrashes
    BY <1>4, DispatchAssumption DEF Crash, TypeOK
  <2>. QED
    BY <1>4, <2>1, <2>2, <2>3
       DEF Crash, TypeOK, NamedInv, SessionRecords, ThreadRecords
<1>5. CASE UNCHANGED vars
  BY <1>5 DEF vars, TypeOK, NamedInv
<1>. QED
  BY <1>1, <1>2, <1>3, <1>4, <1>5 DEF Next

\* At the start there are no rows, no threads and nothing is registered.
LEMMA InitType == Init => TypeOK /\ NamedInv
<1> SUFFICES ASSUME Init PROVE TypeOK /\ NamedInv
  OBVIOUS
<1>1. /\ 0 \in 0..MaxTries
      /\ 0 \in 0..MaxContent
      /\ 0 \in 0..MaxCrashes
  BY DispatchAssumption
<1>2. NoThread \in ThreadRecords
  BY <1>1 DEF NoThread, ThreadRecords
<1>3. thread \in [Sessions -> ThreadRecords]
  BY <1>2 DEF Init
<1>4. session \in [Sessions -> SessionRecords]
  BY DEF Init, SessionRecords
<1>5. NamedInv
  BY DEF Init, NamedInv, NoThread
<1>. QED
  BY <1>1, <1>3, <1>4, <1>5 DEF Init, TypeOK, SessionRecords, ThreadRecords

\* Sessions and threads that have a run name one of the runs.
LEMMA TypeInvariant == Spec => [](TypeOK /\ NamedInv)
BY InitType, TypeStep, PTL DEF Spec

\* Types of all variables, for every number of sessions and every bound.
THEOREM TypeCorrect == Spec => []TypeOK
BY TypeInvariant, PTL

-----------------------------------------------------------------------------
(* One thread per run: a thread is registered from its start to its end,   *)
(* and _dispatch_local spawns none for a registered run.                   *)

\* A step of a thread keeps its run; only its end removes the registration.
LEMMA ThreadStepKeeps ==
  ASSUME TypeOK, NEW t \in Sessions, ThreadStep(t)
  PROVE  /\ \A u \in Sessions : thread'[u].run = thread[u].run
         /\ \A u \in Sessions : Registered(u)' => Registered(u)
         /\ \/ inflight' = inflight
            \/ /\ Registered(t)
               /\ ~Registered(t)'
               /\ inflight' = inflight \ {thread[t].run}
<1>1. \A u \in Sessions \ {t} : thread'[u] = thread[u]
  BY DEF ThreadStep, AttemptMissing, AttemptFound, ReadContent, CommitResults,
         FailRun, EndThread, TypeOK
<1>2. thread'[t].run = thread[t].run
  BY DEF ThreadStep, AttemptMissing, AttemptFound, ReadContent, CommitResults,
         FailRun, EndThread, TypeOK
<1>3. Registered(t)
  BY DEF ThreadStep, AttemptMissing, AttemptFound, ReadContent, CommitResults,
         FailRun, EndThread, Registered, Alive
<1>4. EndThread(t) => ~Registered(t)' /\ inflight' = inflight \ {thread[t].run}
  BY DEF EndThread, Registered, Alive, TypeOK
<1>5. ~EndThread(t) => inflight' = inflight
  BY DEF ThreadStep, AttemptMissing, AttemptFound, ReadContent, CommitResults, FailRun
<1>6. \A u \in Sessions \ {t} : Registered(u)' => Registered(u)
  BY <1>1 DEF Registered, Alive
<1>. QED
  BY <1>1, <1>2, <1>3, <1>4, <1>5, <1>6

\* Threads stay registered, each for a run of its own.
LEMMA RegisteredStep ==
  TypeOK /\ NamedInv /\ RegisteredInv /\ [Next]_vars => RegisteredInv'
<1> SUFFICES ASSUME TypeOK, NamedInv, RegisteredInv, [Next]_vars
             PROVE  RegisteredInv'
  OBVIOUS
<1>1. CASE UNCHANGED <<thread, inflight>>
  BY <1>1 DEF RegisteredInv, Registered, Alive
<1>2. ASSUME NEW s \in Sessions, InsertAndDispatch(s), ~UNCHANGED <<thread, inflight>>
      PROVE  RegisteredInv'
  <2>1. /\ session[s].run \notin inflight
        /\ inflight' = inflight \union {session[s].run}
        /\ thread' = [thread EXCEPT ![s] =
             [pc |-> "trying", run |-> session[s].run, tries |-> 0, seen |-> 0]]
    BY <1>2, Spawned
  <2>2. /\ thread'[s].run = session[s].run
        /\ \A u \in Sessions \ {s} : thread'[u] = thread[u]
    BY <2>1 DEF TypeOK
  <2>3. \A u \in Sessions \ {s} : Registered(u)' => Registered(u)
    BY <2>2 DEF Registered, Alive
  <2>. QED
    BY <2>1, <2>2, <2>3 DEF RegisteredInv
<1>3. ASSUME NEW t \in Sessions, ThreadStep(t) PROVE RegisteredInv'
  BY <1>3, ThreadStepKeeps DEF RegisteredInv
<1>4. CASE Crash
  BY <1>4 DEF Crash, RegisteredInv, Registered, Alive, TypeOK
<1>. QED
  BY <1>1, <1>2, <1>3, <1>4
     DEF Next, SessionStep, AmendContent, FindPending, NumberRun, InsertConflict,
         CommitEnqueue, RollbackEnqueue, vars

\* No two threads work on the same check run, for any number of sessions,
\* rollbacks and crashes.
THEOREM SingleThread == Spec => []OneThreadPerRun
<1>1. Init => RegisteredInv
  BY DEF Init, RegisteredInv, Registered, Alive, NoThread
<1>2. RegisteredInv => OneThreadPerRun
  BY DEF RegisteredInv, OneThreadPerRun, Registered
<1>. QED
  BY <1>1, <1>2, RegisteredStep, TypeInvariant, PTL DEF Spec

-----------------------------------------------------------------------------
(* Results are at least as new as the enqueue they answer.                 *)

\* Rows change by commits only: an enqueue's, a result's or a failure's.
LEMMA RowsCommitted ==
  ASSUME TypeOK, NamedInv, [Next]_vars
  PROVE  \/ UNCHANGED row
         \/ \E s \in Sessions : CommitEnqueue(s)
         \/ \E t \in Sessions : /\ CommitResults(t) \/ FailRun(t)
                                /\ UNCHANGED session
BY DEF Next, vars, AmendContent, SessionStep, FindPending, NumberRun, InsertConflict,
       InsertAndDispatch, RollbackEnqueue, ThreadStep, AttemptMissing, AttemptFound,
       ReadContent, CommitResults, FailRun, EndThread, Crash

\* Uncommitted rows stay absent, each with one session: threads only write
\* rows that are there.
LEMMA OpenStep ==
  TypeOK /\ NamedInv /\ OpenInv /\ CoverInv /\ [Next]_vars => OpenInv'
<1> SUFFICES ASSUME TypeOK, NamedInv, OpenInv, CoverInv, [Next]_vars
             PROVE  OpenInv'
  OBVIOUS
<1>1. ASSUME NEW s \in Sessions, CommitEnqueue(s) PROVE OpenInv'
  BY <1>1 DEF CommitEnqueue, Moved, OpenInv, TypeOK, NamedInv
<1>2. ASSUME NEW t \in Sessions, CommitResults(t) \/ FailRun(t) PROVE OpenInv'
  <2>1. row[thread[t].run] # "absent" /\ UNCHANGED session
    BY <1>2 DEF CommitResults, FailRun, CoverInv
  <2>2. \A r \in Runs : row[r] = "absent" => row'[r] = "absent"
    BY <1>2, <2>1 DEF CommitResults, FailRun, TypeOK
  <2>. QED
    BY <2>1, <2>2 DEF OpenInv, NamedInv
<1>3. ASSUME NEW s \in Sessions, InsertAndDispatch(s) PROVE OpenInv'
  BY <1>3 DEF InsertAndDispatch, Moved, OpenInv, TypeOK
<1>4. ASSUME UNCHANGED row,
             \A s \in Sessions : session'[s].pc = "inserted" => session'[s] = session[s]
      PROVE  OpenInv'
  BY <1>4 DEF OpenInv
<1>5. \/ \E s \in Sessions : CommitEnqueue(s) \/ InsertAndDispatch(s)
      \/ \E t \in Sessions : CommitResults(t) \/ FailRun(t)
      \/ \A s \in Sessions : session'[s].pc = "inserted" => session'[s] = session[s]
  <2>1. ASSUME NEW s \in Sessions, NEW pc, NEW r, Moved(s, pc, r), pc # "inserted"
        PROVE  \A o \in Sessions : session'[o].pc = "inserted" => session'[o] = session[o]
    BY <2>1 DEF Moved, TypeOK
  <2>2. ASSUME NEW s \in Sessions,
               FindPending(s) \/ NumberRun(s) \/ InsertConflict(s) \/ RollbackEnqueue(s)
        PROVE  \A o \in Sessions : session'[o].pc = "inserted" => session'[o] = session[o]
    <3>1. \E pc \in {"done", "numbering", "inserting", "aborted"} : \E r : Moved(s, pc, r)
      BY <2>2 DEF FindPending, NumberRun, InsertConflict, RollbackEnqueue
    <3>. QED
      BY <2>1, <3>1
  <2>3. CASE Crash
    BY <2>3 DEF Crash
  <2>4. CASE UNCHANGED session
    BY <2>4
  <2>. QED
    BY <2>2, <2>3, <2>4
       DEF Next, vars, AmendContent, SessionStep, ThreadStep, AttemptMissing,
           AttemptFound, ReadContent, EndThread
<1>. QED
  BY <1>1, <1>2, <1>3, <1>4, <1>5, RowsCommitted

\* What threads hold, and what completed runs cover, is as new as the enqueue.
LEMMA CoverStep ==
  TypeOK /\ NamedInv /\ OpenInv /\ CoverInv /\ [Next]_vars => CoverInv'
<1> SUFFICES ASSUME TypeOK, NamedInv, OpenInv, CoverInv, [Next]_vars
             PROVE  CoverInv'
  OBVIOUS
<1> USE DEF CoverInv, ResultsCoverEnqueue
<1>0. /\ content \in Int
      /\ asked \in [Runs -> Int]
      /\ covered \in [Runs -> Int]
  BY DispatchAssumption DEF TypeOK
<1>1. CASE AmendContent
  BY <1>0, <1>1 DEF AmendContent
<1>2. ASSUME NEW s \in Sessions, CommitEnqueue(s) PROVE CoverInv'
  <2>1. /\ session[s].run \in Runs
        /\ row[session[s].run] = "absent"
    BY <1>2 DEF CommitEnqueue, NamedInv, OpenInv
  <2>2. /\ row'[session[s].run] = "queued"
        /\ asked'[session[s].run] = content
        /\ \A r \in Runs \ {session[s].run} : row'[r] = row[r] /\ asked'[r] = asked[r]
        /\ UNCHANGED <<content, covered, thread>>
    BY <1>2, <2>1 DEF CommitEnqueue, TypeOK
  <2>3. \A t \in Sessions : thread[t].pc \in {"running", "evaluated"} =>
             thread[t].run \in Runs \ {session[s].run}
    BY <2>1 DEF NamedInv
  <2>. QED
    BY <1>0, <2>2, <2>3
<1>3. ASSUME NEW t \in Sessions, CommitResults(t) PROVE CoverInv'
  BY <1>0, <1>3 DEF CommitResults, TypeOK, NamedInv
<1>4. ASSUME NEW t \in Sessions, FailRun(t) PROVE CoverInv'
  BY <1>0, <1>4 DEF FailRun, TypeOK, NamedInv
<1>5. ASSUME NEW t \in Sessions, AttemptMissing(t) \/ AttemptFound(t) \/ EndThread(t)
      PROVE  CoverInv'
  <2>1. /\ \A u \in Sessions : thread'[u].run = thread[u].run
        /\ \A u \in Sessions : thread'[u].seen = thread[u].seen
        /\ \A u \in Sessions : thread'[u].pc = "evaluated" => thread[u].pc = "evaluated"
    <3>1. thread \in [Sessions -> ThreadRecords]
      BY DEF TypeOK, ThreadRecords
    <3>2. CASE AttemptMissing(t)
      BY <3>1, <3>2 DEF AttemptMissing, ThreadRecords
    <3>3. CASE AttemptFound(t)
      BY <3>1, <3>3 DEF AttemptFound, ThreadRecords
    <3>4. CASE EndThread(t)
      BY <3>1, <3>4 DEF EndThread, ThreadRecords
    <3>. QED
      BY <1>5, <3>2, <3>3, <3>4
  <2>2. \A u \in Sessions : thread'[u].pc = "running" =>
             thread[u].pc = "running" \/ row[thread[u].run] # "absent"
    BY <1>5 DEF AttemptMissing, AttemptFound, EndThread, TypeOK
  <2>3. UNCHANGED <<content, row, asked, covered>>
    BY <1>5 DEF AttemptMissing, AttemptFound, EndThread
  <2>. QED
    BY <2>1, <2>2, <2>3
<1>6. ASSUME NEW t \in Sessions, ReadContent(t) PROVE CoverInv'
  BY <1>0, <1>6 DEF ReadContent, TypeOK, NamedInv
<1>7. ASSUME NEW s \in Sessions, InsertAndDispatch(s) PROVE CoverInv'
  <2>1. \A t \in Sessions : thread'[t].pc \in {"running", "evaluated"} =>
             thread'[t] = thread[t]
    BY <1>7, Spawned DEF TypeOK
  <2>. QED
    BY <1>7, <2>1 DEF InsertAndDispatch
<1>8. CASE Crash
  BY <1>8 DEF Crash, TypeOK
<1>9. CASE UNCHANGED <<content, row, asked, covered, thread>>
  BY <1>9
<1>. QED
  BY <1>1, <1>2, <1>3, <1>4, <1>5, <1>6, <1>7, <1>8, <1>9
     DEF Next, SessionStep, ThreadStep, FindPending, NumberRun, InsertConflict,
         RollbackEnqueue, vars

\* The results of a completed run never miss a change that was committed
\* before its enqueue, however rows, threads and retries interleave.
THEOREM ResultsCover == Spec => []ResultsCoverEnqueue
<1>1. Init => OpenInv /\ CoverInv
  BY DEF Init, OpenInv, CoverInv, ResultsCoverEnqueue, NoThread
<1>2. CoverInv => ResultsCoverEnqueue
  BY DEF CoverInv
<1>. QED
  BY <1>1, <1>2, OpenStep, CoverStep, TypeInvariant, PTL DEF Spec

-----------------------------------------------------------------------------
(* The rows behave as the abstract CheckRuns.                              *)

\* The next number is the one below which every number is taken.
LEMMA NextNumber ==
  ASSUME TypeOK, JobsInv, NEW r \in Runs, \A q \in Runs : q < r => row[q] # "absent",
         row[r] = "absent"
  PROVE  \A q \in Runs : row[q] # "absent" <=> q < r
<1>1. Runs \subseteq Int
  BY DEF Runs
<1>. QED
  BY <1>1 DEF JobsInv

\* A commit of an enqueue keeps the committed rows without gaps.
LEMMA CommitJobs ==
  ASSUME TypeOK, NamedInv, OpenInv, JobsInv, NEW s \in Sessions, CommitEnqueue(s)
  PROVE  JobsInv'
<1>1. /\ session[s].run \in Runs
      /\ row[session[s].run] = "absent"
      /\ \A q \in Runs : q < session[s].run => row[q] # "absent"
  BY DEF CommitEnqueue, NamedInv, OpenInv, JobsInv
<1>2. /\ row'[session[s].run] = "queued"
      /\ \A r \in Runs \ {session[s].run} : row'[r] = row[r]
      /\ UNCHANGED thread
  BY <1>1 DEF CommitEnqueue, TypeOK
<1>3. \A o \in Sessions : session'[o].pc \in {"inserting", "inserted"} =>
          session'[o] = session[o]
  BY DEF CommitEnqueue, Moved, TypeOK
<1>4. \A t \in Sessions : thread[t].pc \in {"running", "evaluated"} =>
          thread[t].run \in Runs \ {session[s].run}
  BY <1>1 DEF NamedInv, JobsInv
<1>5. \A r \in Runs : row[r] # "absent" => row'[r] # "absent"
  BY <1>1, <1>2
<1>. QED
  BY <1>1, <1>2, <1>3, <1>4, <1>5 DEF JobsInv, NamedInv

\* Every step keeps what the refinement rests on.
LEMMA JobsStep ==
  ASSUME TypeOK, NamedInv, RegisteredInv, OpenInv, JobsInv, [Next]_vars
  PROVE  JobsInv'
<1>0. /\ session \in [Sessions -> SessionRecords]
      /\ thread \in [Sessions -> ThreadRecords]
      /\ row \in [Runs -> {"absent", "queued", "completed", "failed"}]
  BY DEF TypeOK, SessionRecords, ThreadRecords
<1>1. ASSUME NEW s \in Sessions, CommitEnqueue(s) PROVE JobsInv'
  BY <1>1, CommitJobs
<1>2. ASSUME NEW s \in Sessions, NumberRun(s) PROVE JobsInv'
  <2>1. PICK r \in Runs : NextCheckRunId(r) /\ Moved(s, "inserting", r)
    BY <1>2 DEF NumberRun
  <2>2. /\ session'[s].run = r
        /\ \A o \in Sessions \ {s} : session'[o] = session[o]
    BY <1>0, <2>1 DEF Moved
  <2>. QED
    BY <1>2, <2>1, <2>2 DEF NumberRun, NextCheckRunId, JobsInv
<1>3. ASSUME NEW s \in Sessions, InsertAndDispatch(s) PROVE JobsInv'
  <2>1. \A t \in Sessions : thread'[t].pc \in {"running", "evaluated"} =>
           thread'[t] = thread[t]
    BY <1>3, Spawned DEF TypeOK
  <2>2. /\ session'[s].run = session[s].run
        /\ session[s].pc = "inserting"
        /\ \A o \in Sessions \ {s} : session'[o] = session[o]
    BY <1>0, <1>3 DEF InsertAndDispatch, Moved
  <2>. QED
    BY <1>3, <2>1, <2>2 DEF InsertAndDispatch, JobsInv
<1>4. ASSUME NEW s \in Sessions, FindPending(s) \/ InsertConflict(s) \/ RollbackEnqueue(s)
      PROVE  JobsInv'
  <2>1. \A o \in Sessions : session'[o].pc \in {"inserting", "inserted"} =>
           session'[o] = session[o]
    BY <1>0, <1>4 DEF FindPending, InsertConflict, RollbackEnqueue, Moved
  <2>. QED
    BY <1>4, <2>1 DEF FindPending, InsertConflict, RollbackEnqueue, JobsInv
<1>5. ASSUME NEW t \in Sessions, CommitResults(t) \/ FailRun(t) PROVE JobsInv'
  <2>1. /\ thread[t].run \in Runs
        /\ \A u \in Sessions : u # t /\ thread[u].pc \in {"running", "evaluated"} =>
              thread[u].run # thread[t].run
    BY <1>5 DEF CommitResults, FailRun, NamedInv, RegisteredInv, Registered, Alive
  <2>2. /\ thread'[t].pc = "ending"
        /\ \A u \in Sessions \ {t} : thread'[u] = thread[u]
        /\ row'[thread[t].run] # "absent"
        /\ \A r \in Runs \ {thread[t].run} : row'[r] = row[r]
        /\ UNCHANGED session
    BY <1>0, <1>5, <2>1 DEF CommitResults, FailRun, ThreadRecords
  <2>3. row[thread[t].run] # "absent"
    BY <1>5 DEF CommitResults, FailRun, JobsInv
  <2>4. \A r \in Runs : row'[r] # "absent" <=> row[r] # "absent"
    BY <2>2, <2>3
  <2>5. \A u \in Sessions : thread'[u].pc \in {"running", "evaluated"} =>
           row'[thread'[u].run] \in {"queued", "failed"}
    BY <2>1, <2>2 DEF JobsInv, NamedInv
  <2>. QED
    BY <2>2, <2>4, <2>5 DEF JobsInv, NamedInv
<1>6. ASSUME NEW t \in Sessions,
             AttemptMissing(t) \/ AttemptFound(t) \/ ReadContent(t) \/ EndThread(t)
      PROVE  JobsInv'
  <2>1. \A u \in Sessions : thread'[u].pc \in {"running", "evaluated"} =>
           row[thread'[u].run] \in {"queued", "failed"}
    <3>1. CASE AttemptFound(t)
      <4>1. /\ thread'[t].run = thread[t].run
            /\ thread'[t].pc = "running" => row[thread[t].run] # "completed"
            /\ thread'[t].pc # "evaluated"
            /\ row[thread[t].run] # "absent"
            /\ \A u \in Sessions \ {t} : thread'[u] = thread[u]
        BY <1>0, <3>1 DEF AttemptFound, ThreadRecords
      <4>2. thread[t].run \in Runs
        BY <3>1 DEF AttemptFound, NamedInv
      <4>. QED
        BY <1>0, <4>1, <4>2 DEF JobsInv
    <3>2. CASE AttemptMissing(t) \/ ReadContent(t) \/ EndThread(t)
      <4>1. /\ thread'[t].run = thread[t].run
            /\ thread'[t].pc \in {"running", "evaluated"} => thread[t].pc \in {"running", "evaluated"}
            /\ \A u \in Sessions \ {t} : thread'[u] = thread[u]
        BY <1>0, <3>2 DEF AttemptMissing, ReadContent, EndThread, ThreadRecords
      <4>. QED
        BY <4>1 DEF JobsInv
    <3>. QED
      BY <1>6, <3>1, <3>2
  <2>. QED
    BY <1>6, <2>1 DEF AttemptMissing, AttemptFound, ReadContent, EndThread, JobsInv
<1>7. CASE Crash
  <2>1. /\ \A t \in Sessions : thread'[t].pc \notin {"running", "evaluated"}
        /\ \A o \in Sessions : session'[o].pc \notin {"inserting", "inserted"}
    BY <1>7 DEF Crash
  <2>. QED
    BY <1>7, <2>1 DEF Crash, JobsInv
<1>8. CASE UNCHANGED <<row, session, thread>>
  BY <1>8 DEF JobsInv
<1>. QED
  BY <1>1, <1>2, <1>3, <1>4, <1>5, <1>6, <1>7, <1>8
     DEF Next, vars, AmendContent, SessionStep, ThreadStep

\* Threads see committed content only.
LEMMA SeenStep ==
  ASSUME TypeOK, SeenInv, [Next]_vars
  PROVE  SeenInv'
<1>0. /\ thread \in [Sessions -> ThreadRecords]
      /\ content \in Nat
  BY DispatchAssumption DEF TypeOK, ThreadRecords
<1>1. CASE AmendContent
  BY <1>0, <1>1 DEF AmendContent, SeenInv, ThreadRecords
<1>2. ASSUME NEW s \in Sessions, InsertAndDispatch(s) PROVE SeenInv'
  BY <1>0, <1>2, Spawned DEF InsertAndDispatch, SeenInv
<1>3. ASSUME NEW t \in Sessions, ThreadStep(t) PROVE SeenInv'
  <2>1. content' = content
    BY <1>3 DEF ThreadStep, AttemptMissing, AttemptFound, ReadContent, CommitResults,
                FailRun, EndThread
  <2>2. \A u \in Sessions : thread'[u].seen = thread[u].seen \/ thread'[u].seen = content
    BY <1>0, <1>3 DEF ThreadStep, AttemptMissing, AttemptFound, ReadContent, CommitResults,
                      FailRun, EndThread, ThreadRecords
  <2>. QED
    BY <1>0, <2>1, <2>2 DEF SeenInv
<1>4. CASE Crash
  BY <1>0, <1>4 DEF Crash, SeenInv, ThreadRecords
<1>5. CASE UNCHANGED <<content, thread>>
  BY <1>5 DEF SeenInv
<1>. QED
  BY <1>1, <1>2, <1>3, <1>4, <1>5
     DEF Next, vars, SessionStep, FindPending, NumberRun, InsertConflict, CommitEnqueue,
         RollbackEnqueue

\* A step of a session is an enqueue of the abstract runs, or invisible.
LEMMA SessionRefines ==
  ASSUME TypeOK, NamedInv, OpenInv, JobsInv, NEW s \in Sessions, SessionStep(s)
  PROVE  Jobs!Next \/ UNCHANGED Jobs!runVars
<1>1. CASE CommitEnqueue(s)
  <2>1. /\ session[s].run \in Runs
        /\ row[session[s].run] = "absent"
        /\ \A q \in Runs : q < session[s].run => row[q] # "absent"
    BY <1>1 DEF CommitEnqueue, NamedInv, OpenInv, JobsInv
  <2>2. \A q \in Runs : row[q] # "absent" <=> q < session[s].run
    BY <2>1, NextNumber
  <2>3. Jobs!Enqueue(session[s].run)
    BY <1>1, <2>2 DEF CommitEnqueue, Jobs!Enqueue
  <2>. QED
    BY <2>1, <2>3 DEF Jobs!Next
<1>2. CASE \/ FindPending(s) \/ NumberRun(s) \/ InsertConflict(s)
           \/ InsertAndDispatch(s) \/ RollbackEnqueue(s)
  BY <1>2 DEF FindPending, NumberRun, InsertConflict, InsertAndDispatch, RollbackEnqueue,
              Jobs!runVars
<1>. QED
  BY <1>1, <1>2 DEF SessionStep

\* A step of a thread completes or fails an abstract run, or is invisible.
LEMMA ThreadRefines ==
  ASSUME TypeOK, NamedInv, CoverInv, SeenInv, JobsInv, NEW t \in Sessions, ThreadStep(t)
  PROVE  Jobs!Next \/ UNCHANGED Jobs!runVars
<1>1. CASE CommitResults(t)
  <2> DEFINE r == thread[t].run
  <2>1. r \in Runs /\ row[r] \in {"queued", "failed"}
    BY <1>1 DEF CommitResults, NamedInv, JobsInv
  <2>2. thread[t].seen \in Int /\ thread[t].seen >= asked[r]
    BY <1>1 DEF CommitResults, CoverInv, TypeOK
  <2>3. /\ row' = [row EXCEPT ![r] = "completed"]
        /\ covered' = [covered EXCEPT ![r] = thread[t].seen]
        /\ UNCHANGED <<content, asked>>
    BY <1>1 DEF CommitResults
  <2>4. thread[t].seen <= content
    BY <1>1 DEF CommitResults, SeenInv
  <2>5. thread[t].seen \in asked[r]..content
    BY <2>1, <2>2, <2>4 DEF TypeOK
  <2>6. Jobs!Complete(r)
    BY <2>1, <2>3, <2>5 DEF Jobs!Complete, Jobs!Unfinished
  <2>. QED
    BY <2>1, <2>6 DEF Jobs!Next
<1>2. CASE FailRun(t)
  <2> DEFINE r == thread[t].run
  <2>1. r \in Runs /\ row[r] \in {"queued", "failed"}
    BY <1>2 DEF FailRun, NamedInv, JobsInv
  <2>2. Jobs!Fail(r)
    BY <1>2, <2>1 DEF FailRun, Jobs!Fail, Jobs!Unfinished
  <2>. QED
    BY <2>1, <2>2 DEF Jobs!Next
<1>3. CASE AttemptMissing(t) \/ AttemptFound(t) \/ ReadContent(t) \/ EndThread(t)
  BY <1>3 DEF AttemptMissing, AttemptFound, ReadContent, EndThread, Jobs!runVars
<1>. QED
  BY <1>1, <1>2, <1>3 DEF ThreadStep

\* Whatever sessions, threads and crashes do, the rows behave as CheckRuns.
THEOREM Refinement == Spec => ImplementsCheckRuns
<1> DEFINE Inv == TypeOK /\ NamedInv /\ RegisteredInv /\ OpenInv /\ CoverInv
                  /\ SeenInv /\ JobsInv
<1>1. Init => Inv
  <2> SUFFICES ASSUME Init PROVE OpenInv /\ CoverInv /\ SeenInv /\ JobsInv /\ RegisteredInv
    BY InitType
  <2>. QED
    BY DEF Init, RegisteredInv, Registered, Alive, OpenInv, CoverInv, ResultsCoverEnqueue,
           SeenInv, JobsInv, NoThread
<1>2. Inv /\ [Next]_vars => Inv'
  BY TypeStep, RegisteredStep, OpenStep, CoverStep, SeenStep, JobsStep
<1>3. Init => Jobs!Init
  BY DEF Init, Jobs!Init
<1>4. Inv /\ [Next]_vars => [Jobs!Next]_Jobs!runVars
  <2> SUFFICES ASSUME Inv, [Next]_vars PROVE Jobs!Next \/ UNCHANGED Jobs!runVars
    OBVIOUS
  <2>1. CASE AmendContent
    BY <2>1 DEF AmendContent, Jobs!Amend, Jobs!Next
  <2>2. CASE \E s \in Sessions : SessionStep(s)
    BY <2>2, SessionRefines
  <2>3. CASE \E t \in Sessions : ThreadStep(t)
    BY <2>3, ThreadRefines
  <2>4. CASE Crash \/ UNCHANGED vars
    BY <2>4 DEF Crash, vars, Jobs!runVars
  <2>. QED
    BY <2>1, <2>2, <2>3, <2>4 DEF Next
<1>. QED
  BY <1>1, <1>2, <1>3, <1>4, PTL DEF Spec, ImplementsCheckRuns, Jobs!Spec
=============================================================================
