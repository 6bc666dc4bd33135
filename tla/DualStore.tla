----------------------------- MODULE DualStore -----------------------------
(***************************************************************************)
(* One request under the DynamoDB persistence backend.  The request and    *)
(* its check runs are items of a table, and a check run is also a SQL row, *)
(* which the worker executes.  Nothing spans the two stores: a command is  *)
(* a series of item puts and SQL commits (DynamoDbGovernancePersistence-   *)
(* Adapter), and so is the execution of a run (execute_check_run).  An     *)
(* item is put as a whole, computed from the item read at the start.       *)
(*                                                                         *)
(* The statuses between submission and review are one, "working", and so   *)
(* are the final ones; whether a gate has checks, and whether they have    *)
(* passed, is left open.  Events and relationships are left out.           *)
(***************************************************************************)
EXTENDS Sequences, Naturals

CONSTANTS
  Commanders,       \* handlers that work at the same time
  Workers,          \* check workers
  Runs,             \* check runs that may be created
  MaxItemCommands,  \* bound: commands begun in all
  MaxResends        \* bound: tasks the broker delivers again

VARIABLES
  item,          \* status in the request's item
  runItem,       \* status in each check run's item
  runRow,        \* committed status of each check run's row
  commander,     \* what each handler has read and has still to do
  itemCommands,
  tasks,         \* undelivered tasks, named by their run
  resends,
  worker,        \* what each worker does, and with which run
  lost           \* history: runs whose handler, task or worker was lost on the way

dualVars == <<item, runItem, runRow, commander, itemCommands, tasks, resends, worker, lost>>
itemVars == <<item, runItem, runRow>>
commandVars == <<commander, itemCommands>>
workerVars == <<tasks, resends, worker>>

-----------------------------------------------------------------------------
Status == {"draft", "submitted", "working", "awaiting_review", "approved", "closed"}
CheckRunStatus == {"none", "queued", "running", "completed", "failed"}
CommandSteps == {"effects", "put", "scan", "run", "row"}
NoRun == "none"
ASSUME RunsAssumption == NoRun \notin Runs

AtRest == [todo |-> <<>>, want |-> "draft", run |-> NoRun]
FreeWorker == [at |-> "free", run |-> NoRun]

PendingItem(r) == runItem[r] \in {"queued", "running"}
Unused == {r \in Runs : runItem[r] = "none" /\ runRow[r] = "none"
                          /\ \A s \in Commanders : commander[s].run # r}

DualTypeOK ==
  /\ item \in Status
  /\ runItem \in [Runs -> CheckRunStatus]
  /\ runRow \in [Runs -> CheckRunStatus \ {"running"}]
  /\ \A s \in Commanders :
       /\ commander[s].todo \in Seq(CommandSteps)
       /\ commander[s].want \in Status
       /\ commander[s].run \in Runs \union {NoRun}
  /\ tasks \subseteq Runs
  /\ worker \in [Workers ->
       {FreeWorker} \union [at: {"announced", "locked", "committed", "raised", "recorded"}, run: Runs]]
  /\ lost \subseteq Runs

DualInit ==
  /\ item = "draft"
  /\ runItem = [r \in Runs |-> "none"]
  /\ runRow = [r \in Runs |-> "none"]
  /\ commander = [s \in Commanders |-> AtRest]
  /\ itemCommands = 0
  /\ tasks = {}
  /\ resends = 0
  /\ worker = [w \in Workers |-> FreeWorker]
  /\ lost = {}

-----------------------------------------------------------------------------
(* Commands: the item is read, the guard asked, and the steps follow *)

\* the steps of _put_request_check_run
Enqueue == <<"scan", "run", "row">>

Amendable == {"draft", "submitted", "working", "awaiting_review", "approved"}
Allowed(st) ==
  CASE st = "submitted"       -> {"working"}
    [] st = "working"         -> {"working", "awaiting_review", "approved", "closed"}
    [] st = "awaiting_review" -> {"working", "approved"}
    [] st = "approved"        -> {"working", "closed"}
    [] OTHER                  -> {}

Command(s, steps, target) ==
  /\ commander[s] = AtRest
  /\ itemCommands < MaxItemCommands
  /\ itemCommands' = itemCommands + 1
  /\ commander' = [commander EXCEPT ![s] = [todo |-> steps, want |-> target, run |-> NoRun]]
  /\ UNCHANGED <<itemVars, workerVars, lost>>

\* changes_requested, validation_failed and awaiting_input are "working" here
SubmitRequest(s) ==
  /\ item \in {"draft", "working"}
  /\ Command(s, <<"put">> \o Enqueue, "submitted")

AmendRequestItem(s) ==
  /\ item \in Amendable
  /\ Command(s, <<"put">>, "draft")

\* cancel_request and supersede_request
CloseRequest(s) ==
  /\ item # "closed"
  /\ Command(s, <<"put">>, "closed")

\* execute_escalation puts the item it read back with another owner
Escalate(s) == Command(s, <<"put">>, item)

RunRequestChecks(s) == Command(s, Enqueue, item)

\* where the target has a gate, pending items refuse the transition, and so do
\* checks that have not passed, which are evaluated again
TransitionRequest(s, target) ==
  /\ target \in Allowed(item)
  /\ Command(s, <<"effects", "put">>, target)

TransitionNotReady(s, target) ==
  /\ target \in Allowed(item)
  /\ \A r \in Runs : ~PendingItem(r)
  /\ Command(s, Enqueue, target)

-----------------------------------------------------------------------------
(* The steps *)

Doing(s, what) == commander[s].todo # <<>> /\ Head(commander[s].todo) = what

Advanced(s, run) ==
  LET rest == Tail(commander[s].todo)
  IN [commander EXCEPT ![s] =
        IF rest = <<>> THEN AtRest ELSE [@ EXCEPT !.todo = rest, !.run = run]]

PutItem(s) ==
  /\ Doing(s, "put")
  /\ item' = commander[s].want
  /\ commander' = Advanced(s, NoRun)
  /\ UNCHANGED <<runItem, runRow, itemCommands, workerVars, lost>>

\* entering review or approval queues a run in SQL alone, unless one is pending;
\* its task may be lost as well (InsertRunRow)
ApplySideEffects(s) ==
  /\ Doing(s, "effects")
  /\ \/ /\ commander[s].want \in {"awaiting_review", "approved"}
        /\ \A r \in Runs : runRow[r] # "queued"
        /\ \E r \in Unused :
             /\ runRow' = [runRow EXCEPT ![r] = "queued"]
             /\ tasks' \in {tasks \union {r}, tasks}
     \/ /\ \/ commander[s].want \notin {"awaiting_review", "approved"}
           \/ \E r \in Runs : runRow[r] = "queued"
        /\ UNCHANGED <<runRow, tasks>>
  /\ commander' = Advanced(s, NoRun)
  /\ UNCHANGED <<item, runItem, itemCommands, resends, worker, lost>>

\* _put_request_check_run answers with a pending item, if it finds one
ScanRunItems(s) ==
  /\ Doing(s, "scan")
  /\ commander' = IF \E r \in Runs : PendingItem(r)
                  THEN [commander EXCEPT ![s] = AtRest] ELSE Advanced(s, NoRun)
  /\ UNCHANGED <<itemVars, itemCommands, workerVars, lost>>

PutRunItem(s) ==
  /\ Doing(s, "run")
  /\ \E r \in Unused :
       /\ runItem' = [runItem EXCEPT ![r] = "queued"]
       /\ commander' = Advanced(s, r)
  /\ UNCHANGED <<item, runRow, itemCommands, workerVars, lost>>

\* the task is sent before the row is committed: a worker that takes it at
\* once finds no row, raises, and the task is gone
InsertRunRow(s) ==
  /\ Doing(s, "row")
  /\ runRow' = [runRow EXCEPT ![commander[s].run] = "queued"]
  /\ \/ tasks' = tasks \union {commander[s].run} /\ UNCHANGED lost
     \/ lost' = lost \union {commander[s].run} /\ UNCHANGED tasks
  /\ commander' = Advanced(s, NoRun)
  /\ UNCHANGED <<item, runItem, itemCommands, resends, worker>>

\* the broker or a store fails, or the process dies: the steps left are not done
FailCommand(s) ==
  /\ commander[s] # AtRest
  /\ commander' = [commander EXCEPT ![s] = AtRest]
  /\ lost' = IF commander[s].run = NoRun THEN lost ELSE lost \union {commander[s].run}
  /\ UNCHANGED <<itemVars, itemCommands, workerVars>>

-----------------------------------------------------------------------------
(* execute_check_run *)

\* a put of the item of run r, when there is one
Put(r, st) == IF runItem[r] = "none" THEN runItem ELSE [runItem EXCEPT ![r] = st]

\* a completed run is not executed again; otherwise its item says running
\* before anything of the transaction is flushed
TakeTask(w) ==
  /\ worker[w] = FreeWorker
  /\ \E r \in tasks :
       /\ tasks' = tasks \ {r}
       /\ IF runRow[r] = "completed"
            THEN UNCHANGED <<runItem, worker>>
            ELSE /\ runItem' = Put(r, "running")
                 /\ worker' = [worker EXCEPT ![w] = [at |-> "announced", run |-> r]]
  /\ UNCHANGED <<item, runRow, commandVars, resends, lost>>

Redeliver(r) ==
  /\ runRow[r] # "none"
  /\ r \notin tasks
  /\ resends < MaxResends
  /\ resends' = resends + 1
  /\ tasks' = tasks \union {r}
  /\ UNCHANGED <<itemVars, commandVars, worker, lost>>

At(w, what) == worker[w].at = what
Moves(w, what) == worker' = [worker EXCEPT ![w].at = what]

\* the flush locks the row until the transaction ends
LockRow(w) ==
  /\ At(w, "announced")
  /\ \A v \in Workers : ~(At(v, "locked") /\ worker[v].run = worker[w].run)
  /\ Moves(w, "locked")
  /\ UNCHANGED <<itemVars, commandVars, tasks, resends, lost>>

CommitRun(w) ==
  /\ At(w, "locked")
  /\ runRow' = [runRow EXCEPT ![worker[w].run] = "completed"]
  /\ Moves(w, "committed")
  /\ UNCHANGED <<item, runItem, commandVars, tasks, resends, lost>>

\* an exception in the evaluation, or in putting the item after the commit
Raise(w) ==
  /\ At(w, "locked") \/ At(w, "committed")
  /\ Moves(w, "raised")
  /\ UNCHANGED <<itemVars, commandVars, tasks, resends, lost>>

\* the status is failed even where the run was committed as completed
RecordFailure(w) ==
  /\ At(w, "raised")
  /\ runRow' = [runRow EXCEPT ![worker[w].run] = "failed"]
  /\ Moves(w, "recorded")
  /\ UNCHANGED <<item, runItem, commandVars, tasks, resends, lost>>

Outcome_unrecorded(at) == IF at = "committed" THEN "completed" ELSE "running"

\* the status the last put gives the item
Outcome(at) == IF at = "committed" THEN "completed" ELSE "failed"

PutOutcome(w) ==
  /\ At(w, "committed") \/ At(w, "recorded")
  /\ runItem' = Put(worker[w].run, Outcome(worker[w].at))
  /\ \/ worker' = [worker EXCEPT ![w] = FreeWorker]
     \/ At(w, "committed") /\ Moves(w, "raised")   \* the event is not recorded
  /\ UNCHANGED <<item, runRow, commandVars, tasks, resends, lost>>

\* the process dies, or a store refuses the last put as well
FailWorker(w) ==
  /\ worker[w] # FreeWorker
  /\ worker' = [worker EXCEPT ![w] = FreeWorker]
  /\ lost' = lost \union {worker[w].run}
  /\ UNCHANGED <<itemVars, commandVars, tasks, resends>>

DualNext ==
  \/ \E s \in Commanders :
       \/ SubmitRequest(s) \/ AmendRequestItem(s) \/ CloseRequest(s)
       \/ Escalate(s) \/ RunRequestChecks(s)
       \/ \E target \in Status :
            TransitionRequest(s, target) \/ TransitionNotReady(s, target)
       \/ PutItem(s) \/ ApplySideEffects(s) \/ ScanRunItems(s)
       \/ PutRunItem(s) \/ InsertRunRow(s) \/ FailCommand(s)
  \/ \E r \in Runs : Redeliver(r)
  \/ \E w \in Workers :
       \/ TakeTask(w) \/ LockRow(w) \/ CommitRun(w) \/ Raise(w)
       \/ RecordFailure(w) \/ PutOutcome(w) \/ FailWorker(w)

DualSpec == DualInit /\ [][DualNext]_dualVars

-----------------------------------------------------------------------------
\* A check run whose item says it is pending, which closes the gates of its
\* request and stands in for any further run, is still to be executed or is
\* being executed, whatever is delivered twice or raises.  It takes a command
\* or a worker that dies between its puts and commits, or a task that a worker
\* takes before its row is committed, to leave one behind for good: no later
\* execution touches the item of a completed row, and none follows a lost task.
PendingItemHasWork ==
  \A r \in Runs \ lost : PendingItem(r) =>
    \/ r \in tasks
    \/ \E w \in Workers : worker[w].run = r
    \/ \E s \in Commanders : commander[s].run = r
=============================================================================
