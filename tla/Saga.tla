-------------------------------- MODULE Saga --------------------------------
(***************************************************************************)
(* One saga execution under SagaOrchestrationService.                      *)
(*                                                                         *)
(* advance_saga and compensate copy the list in step_states, change the    *)
(* step objects inside it and assign the copy back.  The objects are those *)
(* of the loaded value too, so that at the flush the new value equals the  *)
(* loaded one and the column is left out of the UPDATE: what a call does   *)
(* to the steps lasts as long as its session.                              *)
(***************************************************************************)
EXTENDS Naturals, Sequences

CONSTANTS
  Steps,        \* number of steps of the definition
  MaxCalls      \* bound: calls made in all

VARIABLES
  status,       \* saga_executions.status
  stepStates,   \* the stored status of each step
  log,          \* compensation_log: indexes of the steps compensated
  calls,
  advanced      \* history: advance_saga calls that returned a record

sagaVars == <<status, stepStates, log, calls, advanced>>

-----------------------------------------------------------------------------
Indexes == 1 .. Steps

TypeOK ==
  /\ status \in {"running", "completed", "compensated"}
  /\ stepStates \in [Indexes -> {"pending", "completed"}]
  /\ log \in Seq(Indexes)
  /\ calls \in 0 .. MaxCalls
  /\ advanced \in 0 .. calls

Init ==
  /\ status = "running"
  /\ stepStates = [i \in Indexes |-> "pending"]
  /\ log = <<>>
  /\ calls = 0
  /\ advanced = 0

-----------------------------------------------------------------------------
\* what the session holds once the first pending step is marked
Marked(i) == [stepStates EXCEPT ![i] = "completed"]

FirstPending(i) ==
  /\ stepStates[i] = "pending"
  /\ \A j \in Indexes : j < i => stepStates[j] # "pending"

\* the column as the flush leaves it when the value assigned shares its step
\* objects with the value loaded
Flushed(assigned) == stepStates

AdvanceSaga ==
  /\ calls < MaxCalls
  /\ status = "running"
  /\ \E i \in Indexes :
       /\ FirstPending(i)
       /\ stepStates' = Flushed(Marked(i))
       /\ status' = IF \A j \in Indexes : Marked(i)[j] = "completed"
                      THEN "completed" ELSE status
  /\ calls' = calls + 1
  /\ advanced' = advanced + 1
  /\ UNCHANGED log

\* compensate asks for no status; it logs the stored steps that are completed,
\* the last one first
Compensate ==
  /\ calls < MaxCalls
  /\ status' = "compensated"
  /\ log' = log \o SelectSeq([k \in Indexes |-> Steps + 1 - k],
                             LAMBDA i : stepStates[i] = "completed")
  /\ calls' = calls + 1
  /\ UNCHANGED <<stepStates, advanced>>

Next == AdvanceSaga \/ Compensate

Spec == Init /\ [][Next]_sagaVars

-----------------------------------------------------------------------------
\* A saga that was advanced once for each of its steps has them all completed,
\* and so has itself (the docstring of advance_saga).
AdvancesComplete == advanced >= Steps => status # "running"
=============================================================================
