--------------------------- MODULE WorkflowEngine ---------------------------
(***************************************************************************)
(* One workflow execution under WorkflowEngineService, driven by handlers  *)
(* and by the advance tasks that AsyncDispatchService puts on the queue,   *)
(* which may be delivered more than once.                                  *)
(*                                                                         *)
(* Every operation reads the execution and its step rows in its session    *)
(* and writes the columns it has changed when it commits; nothing is       *)
(* locked.  retry_step has no action: it wants a failed step, and nothing  *)
(* sets one.                                                               *)
(***************************************************************************)
EXTENDS Integers

CONSTANTS
  Handlers,     \* sessions that work at the same time
  Steps,        \* number of steps of the definition
  MaxCommands   \* bound: operations begun in all

\* start_workflow takes a run without a definition as one of no steps
ASSUME StepsAssumption == Steps \in Nat

VARIABLES
  status,       \* workflow_executions.status
  index,        \* current_step_index
  step,         \* status of each step row
  handler,      \* what each session has read and is about to write
  commands,
  ended,        \* history: the first final status committed, or "none"
  overtaken     \* history: a commit from a read that was out of date

workflowVars == <<status, index, step, handler, commands, ended, overtaken>>

-----------------------------------------------------------------------------
Indexes == 0 .. Steps - 1
StepStatus == {"pending", "running", "completed", "skipped"}
ExecutionStatus == {"running", "paused", "completed", "canceled"}
Final == {"completed", "canceled"}
Idle == [op |-> "idle"]

WorkflowTypeOK ==
  /\ status \in ExecutionStatus
  /\ index \in 0 .. Steps
  /\ step \in [Indexes -> StepStatus]
  /\ ended \in Final \union {"none"}
  /\ overtaken \in BOOLEAN
  /\ \A h \in Handlers :
       \/ handler[h] = Idle
       \/ /\ handler[h].op \in {"advance", "pause", "resume", "cancel"}
          /\ handler[h].status \in ExecutionStatus
          /\ handler[h].index \in 0 .. Steps

\* start_workflow leaves the first step pending
WorkflowInit ==
  /\ status = "running"
  /\ index = 0
  /\ step = [i \in Indexes |-> "pending"]
  /\ handler = [h \in Handlers |-> Idle]
  /\ commands = 0
  /\ ended = "none"
  /\ overtaken = FALSE

-----------------------------------------------------------------------------
Read(h, op) ==
  /\ handler[h] = Idle
  /\ commands < MaxCommands
  /\ commands' = commands + 1
  /\ handler' = [handler EXCEPT ![h] = [op |-> op, status |-> status, index |-> index]]
  /\ UNCHANGED <<status, index, step, ended, overtaken>>

BeginAdvance(h) == status = "running" /\ Read(h, "advance")
BeginPause(h)   == status = "running" /\ Read(h, "pause")
BeginResume(h)  == status = "paused" /\ Read(h, "resume")
BeginCancel(h)  == status \notin Final /\ Read(h, "cancel")

\* an advance was overtaken when the execution is more than one step further
\* than it read, or has ended; another command when the status has changed
Overtaken(h) ==
  IF handler[h].op = "advance"
    THEN \/ index \notin {handler[h].index, handler[h].index + 1}
         \/ status = "canceled"
         \/ status = "completed" /\ handler[h].index + 1 < Steps
    ELSE status # handler[h].status

Commit(h, newStatus, newIndex, newStep) ==
  /\ status' = newStatus
  /\ index' = newIndex
  /\ step' = newStep
  /\ handler' = [handler EXCEPT ![h] = Idle]
  /\ ended' = IF ended = "none" /\ newStatus \in Final THEN newStatus ELSE ended
  /\ overtaken' = (overtaken \/ Overtaken(h))
  /\ UNCHANGED commands

AfterAdvance_keep(i) ==
  [j \in Indexes |-> IF j = i + 1 THEN "running" ELSE step[j]]

AfterAdvance(i) ==
  [j \in Indexes |-> CASE j = i     -> "completed"
                       [] j = i + 1 -> "running"
                       [] OTHER     -> step[j]]

\* the index is left where it is when the last step completes; the status
\* is written only then
CommitAdvance(h) ==
  /\ handler[h].op = "advance"
  /\ LET i == handler[h].index  last == i + 1 >= Steps
     IN Commit(h, IF last THEN "completed" ELSE status,
                  IF last THEN index ELSE i + 1,
                  AfterAdvance(i))

CommitCommand(h) ==
  /\ handler[h].op \in {"pause", "resume", "cancel"}
  /\ LET new == CASE handler[h].op = "pause"  -> "paused"
                  [] handler[h].op = "resume" -> "running"
                  [] handler[h].op = "cancel" -> "canceled"
     IN Commit(h, new, index, step)

\* an advance task that fails after its read: nothing is written
GiveUp(h) ==
  /\ handler[h] # Idle
  /\ handler' = [handler EXCEPT ![h] = Idle]
  /\ UNCHANGED <<status, index, step, commands, ended, overtaken>>

\* skip_step asks neither where the execution is nor what the step was, and
\* its one write needs nothing it has read
SkipStep(i) ==
  /\ commands < MaxCommands
  /\ commands' = commands + 1
  /\ step' = [step EXCEPT ![i] = "skipped"]
  /\ UNCHANGED <<status, index, handler, ended, overtaken>>

WorkflowNext ==
  \/ \E h \in Handlers :
       \/ BeginAdvance(h) \/ BeginPause(h) \/ BeginResume(h) \/ BeginCancel(h)
       \/ CommitAdvance(h) \/ CommitCommand(h) \/ GiveUp(h)
  \/ \E i \in Indexes : SkipStep(i)

WorkflowSpec == WorkflowInit /\ [][WorkflowNext]_workflowVars

-----------------------------------------------------------------------------
\* Advances delivered twice, commands and skips in any order leave the steps
\* in sequence: every step before the current one is done and none after it
\* has begun, an execution that completes has no step left to do, and one
\* that has ended stays as it ended.  Two advances of the same step are one.
\* It takes an operation that others have overtaken to break this: no row is
\* locked between the read and the commit.
StepsInOrder ==
  ~overtaken =>
    /\ \A i \in Indexes : i < index => step[i] \in {"completed", "skipped"}
    /\ \A i \in Indexes : i > index => step[i] \in {"pending", "skipped"}
    /\ status = "completed" => \A i \in Indexes : step[i] \in {"completed", "skipped"}
    /\ ended # "none" => status = ended
=============================================================================
