-------------------------- MODULE ExecutionProofs ---------------------------
(***************************************************************************)
(* Proofs about what executes for a request: the steps of a workflow       *)
(* (WorkflowEngine), its run at the runtime (RuntimeRun) and the commands  *)
(* and check runs that two stores share (DualStore), for any handlers,     *)
(* workers, events, runs and bounds.                                       *)
(***************************************************************************)
EXTENDS WorkflowEngine, RuntimeRun, DualStore, FiniteSetTheorems, SequenceTheorems, TLAPS

-----------------------------------------------------------------------------
(* Workflow engine *)

\* An execution is at one of its steps, or at the start if it has none; so was
\* it when a handler read it.
Positions == Indexes \union {0}

IndexInv ==
  /\ DOMAIN handler = Handlers
  /\ index \in Positions
  /\ \A h \in Handlers : handler[h] # Idle => handler[h].index \in Positions

\* Positions are numbers, and the last of them has no successor.
LEMMA IndexTypes ==
  /\ Positions \subseteq 0..Steps /\ Indexes \subseteq Positions
  /\ 0 \in Positions
  /\ \A i \in Positions : i \in Nat /\ (i + 1 < Steps => i + 1 \in Positions)
  /\ \A i \in Positions : i < Steps \/ i = 0
BY StepsAssumption DEF Positions, Indexes

\* A handler that has read has an operation, and what it read has its types.
LEMMA ExecutionAtWork ==
  ASSUME WorkflowTypeOK, IndexInv, NEW h \in Handlers, handler[h].op # "idle"
  PROVE  /\ handler[h] # Idle
         /\ handler[h].index \in Positions
         /\ handler[h].status \in ExecutionStatus
BY DEF WorkflowTypeOK, IndexInv, Idle

\* A handler that ends or begins leaves the types of the others.
LEMMA HandlerTypes ==
  ASSUME WorkflowTypeOK, IndexInv, NEW h \in Handlers, NEW next,
         \/ next = Idle
         \/ /\ next.op \in {"advance", "pause", "resume", "cancel"}
            /\ next.status \in ExecutionStatus
            /\ next.index \in Positions
            /\ next.index \in 0..Steps,
         handler' = [handler EXCEPT ![h] = next]
  PROVE  /\ DOMAIN handler' = Handlers
         /\ \A g \in Handlers :
              /\ handler'[g] # Idle => handler'[g].index \in Positions
              /\ \/ handler'[g] = Idle
                 \/ /\ handler'[g].op \in {"advance", "pause", "resume", "cancel"}
                    /\ handler'[g].status \in ExecutionStatus
                    /\ handler'[g].index \in 0..Steps
BY DEF WorkflowTypeOK, IndexInv

\* The reading half of every operation keeps the types.
LEMMA ReadTypes ==
  ASSUME WorkflowTypeOK, IndexInv, NEW h \in Handlers,
         NEW op \in {"advance", "pause", "resume", "cancel"}, Read(h, op)
  PROVE  WorkflowTypeOK' /\ IndexInv'
<1> DEFINE next == [op |-> op, status |-> status, index |-> index]
<1>1. next.op = op /\ next.status \in ExecutionStatus /\ next.index \in Positions
      /\ next.index \in 0..Steps
  BY IndexTypes DEF WorkflowTypeOK, IndexInv
<1>2. handler' = [handler EXCEPT ![h] = next]
      /\ UNCHANGED <<status, index, step, ended, overtaken>>
  BY DEF Read
<1> HIDE DEF next
<1>3. /\ DOMAIN handler' = Handlers
      /\ \A g \in Handlers :
              /\ handler'[g] # Idle => handler'[g].index \in Positions
              /\ \/ handler'[g] = Idle
                 \/ /\ handler'[g].op \in {"advance", "pause", "resume", "cancel"}
                    /\ handler'[g].status \in ExecutionStatus
                    /\ handler'[g].index \in 0..Steps
  BY <1>1, <1>2, HandlerTypes
<1> QED  BY <1>2, <1>3 DEF WorkflowTypeOK, IndexInv

\* The writing half keeps them when what it writes has its types.
LEMMA CommitTypes ==
  ASSUME WorkflowTypeOK, IndexInv, NEW h \in Handlers,
         NEW newStatus \in ExecutionStatus, NEW newIndex \in Positions,
         NEW newStep \in [Indexes -> StepStatus],
         Commit(h, newStatus, newIndex, newStep)
  PROVE  WorkflowTypeOK' /\ IndexInv'
<1>1. /\ handler' = [handler EXCEPT ![h] = Idle]
      /\ status' = newStatus /\ index' = newIndex /\ step' = newStep
  BY DEF Commit
<1>2. ended' \in Final \union {"none"} /\ overtaken' \in BOOLEAN
  BY DEF Commit, WorkflowTypeOK
<1>3. /\ DOMAIN handler' = Handlers
      /\ \A g \in Handlers :
              /\ handler'[g] # Idle => handler'[g].index \in Positions
              /\ \/ handler'[g] = Idle
                 \/ /\ handler'[g].op \in {"advance", "pause", "resume", "cancel"}
                    /\ handler'[g].status \in ExecutionStatus
                    /\ handler'[g].index \in 0..Steps
  BY <1>1, HandlerTypes
<1> QED  BY <1>1, <1>2, <1>3, IndexTypes DEF WorkflowTypeOK, IndexInv

\* Initially every variable has its type.
LEMMA WorkflowStarts ==
  ASSUME WorkflowInit
  PROVE  WorkflowTypeOK /\ IndexInv
BY IndexTypes DEF WorkflowInit, WorkflowTypeOK, IndexInv, ExecutionStatus, StepStatus

\* What an advance makes of the steps are steps.
LEMMA AdvanceTypes ==
  ASSUME WorkflowTypeOK, NEW i
  PROVE  AfterAdvance(i) \in [Indexes -> StepStatus]
BY DEF AfterAdvance, WorkflowTypeOK, StepStatus

\* Every step keeps the types (WorkflowEngineService as a whole).
LEMMA WorkflowTypes ==
  ASSUME WorkflowTypeOK, IndexInv, [WorkflowNext]_workflowVars
  PROVE  WorkflowTypeOK' /\ IndexInv'
<1>1. ASSUME NEW h \in Handlers, BeginAdvance(h) \/ BeginPause(h) \/ BeginResume(h) \/ BeginCancel(h)
      PROVE  WorkflowTypeOK' /\ IndexInv'
  BY <1>1, ReadTypes DEF BeginAdvance, BeginPause, BeginResume, BeginCancel
<1>2. ASSUME NEW h \in Handlers, CommitAdvance(h) PROVE WorkflowTypeOK' /\ IndexInv'
  <2> DEFINE i == handler[h].index
             last == i + 1 >= Steps
  <2>1. i \in Positions
    BY <1>2, ExecutionAtWork DEF CommitAdvance
  <2>2. (IF last THEN index ELSE i + 1) \in Positions
    <3>1. i \in Nat /\ (i + 1 < Steps => i + 1 \in Positions)
      BY <2>1, IndexTypes
    <3>2. ~last => i + 1 < Steps
      BY <3>1, StepsAssumption
    <3> HIDE DEF last
    <3> QED  BY <3>1, <3>2 DEF IndexInv
  <2>3. (IF last THEN "completed" ELSE status) \in ExecutionStatus
    BY DEF WorkflowTypeOK, ExecutionStatus
  <2>4. Commit(h, IF last THEN "completed" ELSE status,
                  IF last THEN index ELSE i + 1, AfterAdvance(i))
    BY <1>2 DEF CommitAdvance
  <2> HIDE DEF i, last
  <2> QED  BY <2>2, <2>3, <2>4, CommitTypes, AdvanceTypes
<1>3. ASSUME NEW h \in Handlers, CommitCommand(h) PROVE WorkflowTypeOK' /\ IndexInv'
  <2>1. PICK new \in ExecutionStatus : Commit(h, new, index, step)
    BY <1>3 DEF CommitCommand, ExecutionStatus
  <2> QED  BY <2>1, CommitTypes DEF WorkflowTypeOK, IndexInv
<1>4. ASSUME NEW h \in Handlers, GiveUp(h) PROVE WorkflowTypeOK' /\ IndexInv'
  <2>1. handler' = [handler EXCEPT ![h] = Idle]
        /\ UNCHANGED <<status, index, step, ended, overtaken>>
    BY <1>4 DEF GiveUp
  <2>2. /\ DOMAIN handler' = Handlers
        /\ \A g \in Handlers :
              /\ handler'[g] # Idle => handler'[g].index \in Positions
              /\ \/ handler'[g] = Idle
                 \/ /\ handler'[g].op \in {"advance", "pause", "resume", "cancel"}
                    /\ handler'[g].status \in ExecutionStatus
                    /\ handler'[g].index \in 0..Steps
    BY <2>1, HandlerTypes
  <2> QED  BY <2>1, <2>2 DEF WorkflowTypeOK, IndexInv
<1>5. ASSUME NEW i \in Indexes, SkipStep(i) PROVE WorkflowTypeOK' /\ IndexInv'
  <2>1. step' \in [Indexes -> StepStatus]
        /\ UNCHANGED <<status, index, handler, ended, overtaken>>
    BY <1>5 DEF SkipStep, WorkflowTypeOK, StepStatus
  <2> QED  BY <2>1 DEF WorkflowTypeOK, IndexInv
<1>6. CASE UNCHANGED workflowVars
  BY <1>6 DEF workflowVars, WorkflowTypeOK, IndexInv
<1> QED  BY <1>1, <1>2, <1>3, <1>4, <1>5, <1>6 DEF WorkflowNext

\* Every reachable state has its types.
THEOREM WorkflowTypeCorrect == WorkflowSpec => []WorkflowTypeOK
<1>1. WorkflowInit => WorkflowTypeOK /\ IndexInv
  BY WorkflowStarts
<1>2. WorkflowTypeOK /\ IndexInv /\ [WorkflowNext]_workflowVars => WorkflowTypeOK' /\ IndexInv'
  BY WorkflowTypes
<1> QED  BY <1>1, <1>2, PTL DEF WorkflowSpec

-----------------------------------------------------------------------------
(* Steps in order *)

\* What a handler asked of the execution before it began: an advance and a
\* pause of a running one, a resume of a paused one, a cancel of one that has
\* not ended.
AskedInv ==
  \A h \in Handlers :
    /\ handler[h].op = "pause" => handler[h].status = "running"
    /\ handler[h].op = "resume" => handler[h].status = "paused"
    /\ handler[h].op = "cancel" => handler[h].status \notin Final

\* Every step keeps it: what a handler has read does not change.
LEMMA NextAsked ==
  ASSUME WorkflowTypeOK, IndexInv, AskedInv, [WorkflowNext]_workflowVars
  PROVE  AskedInv'
<1>1. ASSUME NEW h \in Handlers, handler' = [handler EXCEPT ![h] = Idle] PROVE AskedInv'
  BY <1>1 DEF AskedInv, IndexInv, Idle
<1>2. ASSUME NEW h \in Handlers, NEW op, Read(h, op),
             /\ op = "pause" => status = "running"
             /\ op = "resume" => status = "paused"
             /\ op = "cancel" => status \notin Final
      PROVE  AskedInv'
  BY <1>2 DEF Read, AskedInv, IndexInv
<1>3. ASSUME NEW h \in Handlers, BeginAdvance(h) \/ BeginPause(h) \/ BeginResume(h) \/ BeginCancel(h)
      PROVE  AskedInv'
  BY <1>2, <1>3 DEF BeginAdvance, BeginPause, BeginResume, BeginCancel
<1>4. ASSUME NEW h \in Handlers, CommitAdvance(h) \/ CommitCommand(h) \/ GiveUp(h) PROVE AskedInv'
  BY <1>1, <1>4 DEF CommitAdvance, CommitCommand, GiveUp, Commit
<1>5. ASSUME UNCHANGED handler PROVE AskedInv'
  BY <1>5 DEF AskedInv
<1>6. ASSUME NEW i \in Indexes, SkipStep(i) PROVE AskedInv'
  BY <1>5, <1>6 DEF SkipStep
<1>7. CASE UNCHANGED workflowVars
  BY <1>5, <1>7 DEF workflowVars
<1> QED  BY <1>3, <1>4, <1>6, <1>7 DEF WorkflowNext

\* An advance that was not overtaken finds the execution at the step it read,
\* or one further because another advance of that step came first, and leaves
\* the steps in order (advance_step).
LEMMA AdvanceInOrder ==
  ASSUME WorkflowTypeOK, IndexInv, StepsInOrder,
         NEW h \in Handlers, CommitAdvance(h)
  PROVE  StepsInOrder'
<1> DEFINE i == handler[h].index
<1> SUFFICES ASSUME ~overtaken'
             PROVE  /\ \A j \in Indexes : j < index' => step'[j] \in {"completed", "skipped"}
                    /\ \A j \in Indexes : j > index' => step'[j] \in {"pending", "skipped"}
                    /\ status' = "completed" =>
                         \A j \in Indexes : step'[j] \in {"completed", "skipped"}
                    /\ ended' # "none" => status' = ended'
  BY DEF StepsInOrder
<1>1. i \in Positions /\ i \in Nat /\ index \in Positions /\ index \in Nat
  BY ExecutionAtWork, IndexTypes DEF CommitAdvance, IndexInv
<1>2. /\ ~overtaken /\ ~Overtaken(h)
      /\ step' = AfterAdvance(i)
      /\ status' = IF i + 1 >= Steps THEN "completed" ELSE status
      /\ index' = IF i + 1 >= Steps THEN index ELSE i + 1
      /\ ended' = IF ended = "none" /\ status' \in Final THEN status' ELSE ended
  BY DEF CommitAdvance, Commit
<1>3. /\ index \in {i, i + 1}
      /\ status # "canceled"
      /\ status = "completed" => i + 1 >= Steps
  <2>1. handler[h].op = "advance"
    BY DEF CommitAdvance
  <2> QED  BY <1>1, <1>2, <2>1, StepsAssumption DEF Overtaken
<1>4. /\ \A j \in Indexes : j < index => step[j] \in {"completed", "skipped"}
      /\ \A j \in Indexes : j > index => step[j] \in {"pending", "skipped"}
      /\ ended # "none" => status = ended
  BY <1>2 DEF StepsInOrder
<1>5. ended \in Final \union {"none"}
  BY DEF WorkflowTypeOK
<1>s. \A j \in Indexes : step'[j] = CASE j = i     -> "completed"
                                      [] j = i + 1 -> "running"
                                      [] OTHER     -> step[j]
  BY <1>2 DEF AfterAdvance
<1>n. \A j \in Indexes : j \in Nat /\ j < Steps
  BY StepsAssumption DEF Indexes
<1> HIDE DEF i
<1>6. CASE i + 1 < Steps
  <2>1. index' = i + 1 /\ status' = status /\ status \notin Final
    BY <1>1, <1>2, <1>3, <1>6, StepsAssumption DEF Final
  <2>2. \A j \in Indexes : j < i + 1 => step'[j] \in {"completed", "skipped"}
    BY <1>1, <1>3, <1>4, <1>s, <1>n
  <2>3. \A j \in Indexes : j > i + 1 => step'[j] \in {"pending", "skipped"}
    BY <1>1, <1>3, <1>4, <1>s, <1>n
  <2>4. ended' = "none"
    BY <1>2, <1>4, <1>5, <2>1
  <2> QED  BY <2>1, <2>2, <2>3, <2>4 DEF Final
<1>7. CASE i + 1 >= Steps
  <2>1. index' = index /\ status' = "completed"
    BY <1>2, <1>7
  <2>2. index = i
    BY <1>1, <1>3, <1>7, IndexTypes, StepsAssumption
  <2>3. \A j \in Indexes : j <= i
    BY <1>1, <1>7, <1>n, StepsAssumption
  <2>4. \A j \in Indexes : step'[j] \in {"completed", "skipped"}
    BY <1>1, <1>4, <1>s, <1>n, <2>2, <2>3
  <2>5. \A j \in Indexes : ~(j > index')
    BY <1>1, <1>n, <2>1, <2>2, <2>3
  <2>6. ended' = "completed"
    BY <1>2, <1>3, <1>4, <1>5, <2>1 DEF Final
  <2> QED  BY <2>1, <2>4, <2>5, <2>6
<1> QED  BY <1>1, <1>6, <1>7, <1>n, StepsAssumption

\* A command that was not overtaken finds the status it read, which was not
\* final (pause_workflow, resume_workflow, cancel_workflow).
LEMMA CommandInOrder ==
  ASSUME WorkflowTypeOK, IndexInv, AskedInv, StepsInOrder, NEW h \in Handlers, CommitCommand(h)
  PROVE  StepsInOrder'
<1> SUFFICES ASSUME ~overtaken' PROVE StepsInOrder'
  BY DEF StepsInOrder
<1>1. /\ handler[h].op \in {"pause", "resume", "cancel"}
      /\ ~overtaken /\ ~Overtaken(h)
      /\ index' = index /\ step' = step
      /\ status' = CASE handler[h].op = "pause"  -> "paused"
                     [] handler[h].op = "resume" -> "running"
                     [] handler[h].op = "cancel" -> "canceled"
      /\ ended' = IF ended = "none" /\ status' \in Final THEN status' ELSE ended
  BY DEF CommitCommand, Commit
<1>2. status = handler[h].status
  BY <1>1 DEF Overtaken
<1>3. status \notin Final
  BY <1>1, <1>2 DEF AskedInv, Final
<1>4. ended = "none"
  BY <1>1, <1>3 DEF StepsInOrder, WorkflowTypeOK
<1>5. status' # "completed" /\ (ended' # "none" => status' = ended')
  BY <1>1, <1>4 DEF Final
<1> QED  BY <1>1, <1>5 DEF StepsInOrder

\* However often advances are delivered and in whatever order commands and
\* skips come, the steps before the current one are done, those after it have
\* not begun, and an execution that has ended stays so, as long as no
\* operation was overtaken (WorkflowEngineService).
THEOREM StepsStayInOrder == WorkflowSpec => []StepsInOrder
<1> DEFINE IInv == WorkflowTypeOK /\ IndexInv /\ AskedInv /\ StepsInOrder
<1>1. WorkflowInit => IInv
  <2> SUFFICES ASSUME WorkflowInit PROVE IInv
    OBVIOUS
  <2>1. AskedInv
    BY DEF WorkflowInit, AskedInv, Idle
  <2>2. \A i \in Indexes : ~(i < 0)
    BY IndexTypes
  <2>3. StepsInOrder
    BY <2>2 DEF WorkflowInit, StepsInOrder
  <2> QED  BY <2>1, <2>3, WorkflowStarts
<1>2. IInv /\ [WorkflowNext]_workflowVars => IInv'
  <2> SUFFICES ASSUME IInv, [WorkflowNext]_workflowVars PROVE IInv'
    OBVIOUS
  <2>1. ASSUME UNCHANGED <<status, index, step, ended, overtaken>> PROVE StepsInOrder'
    BY <2>1 DEF StepsInOrder
  <2>2. ASSUME NEW h \in Handlers, BeginAdvance(h) \/ BeginPause(h) \/ BeginResume(h) \/ BeginCancel(h)
        PROVE  StepsInOrder'
    BY <2>1, <2>2 DEF BeginAdvance, BeginPause, BeginResume, BeginCancel, Read
  <2>3. ASSUME NEW h \in Handlers, GiveUp(h) PROVE StepsInOrder'
    BY <2>1, <2>3 DEF GiveUp
  <2>4. ASSUME NEW i \in Indexes, SkipStep(i) PROVE StepsInOrder'
    BY <2>4 DEF SkipStep, StepsInOrder, WorkflowTypeOK
  <2>5. ASSUME UNCHANGED workflowVars PROVE StepsInOrder'
    BY <2>1, <2>5 DEF workflowVars
  <2>6. StepsInOrder'
    BY <2>2, <2>3, <2>4, <2>5, AdvanceInOrder, CommandInOrder DEF WorkflowNext
  <2>7. WorkflowTypeOK' /\ IndexInv'
    BY WorkflowTypes
  <2>8. AskedInv'
    BY NextAsked
  <2> QED  BY <2>6, <2>7, <2>8
<1>3. IInv => StepsInOrder
  OBVIOUS
<1> QED  BY <1>1, <1>2, <1>3, PTL DEF WorkflowSpec

-----------------------------------------------------------------------------
(* Runs *)

\* What a handler may have read and may be doing is one of the states of Work.
LEMMA SessionTypes ==
  ASSUME RuntimeTypeOK, NEW s \in Sessions, session[s] # Resting
  PROVE  /\ session[s] \in Work
         /\ session[s].run \in RunStatus
         /\ session[s].request \in RequestStatus
         /\ session[s].op \in Commands \union Events
BY DEF RuntimeTypeOK, Work, Resting

\* A handler that has read or told is at work.
LEMMA SessionAtWork ==
  ASSUME NEW s \in Sessions, session[s].at # "idle"
  PROVE  session[s] # Resting
BY DEF Resting

\* A column that is written keeps its type (the UPDATE of the ORM).
LEMMA ColumnTypes ==
  ASSUME NEW S, NEW old \in S, NEW read, NEW want \in S
  PROVE  Column(old, read, want) \in S
BY DEF Column

\* The statuses commands and callbacks ask for are statuses of the tables
\* (command_run and reconcile_run).
LEMMA WantedTypes ==
  /\ \A command \in Commands : RunAfter(command) \in RunStatus
  /\ \A st \in RunStatus, read \in RequestStatus :
       RequestAfter(st, read) \in RequestStatus
BY DEF RunAfter, RequestAfter, Commands, RunStatus, RequestStatus

\* A write of the two columns leaves statuses in them and history in history.
LEMMA WriteTypes ==
  ASSUME RuntimeTypeOK, NEW s \in Sessions, session[s] # Resting,
         NEW runStatus \in RunStatus, NEW want \in RequestStatus,
         WriteStatuses(s, runStatus, want)
  PROVE  /\ run' \in RunStatus
         /\ request' \in RequestStatus
         /\ closing' \in {"none", "completed", "failed"}
         /\ runOvertaken' \in BOOLEAN
<1>1. run' \in RunStatus /\ request' \in RequestStatus
  BY ColumnTypes DEF RuntimeTypeOK, WriteStatuses
<1>2. closing' \in {"none", "completed", "failed"}
  BY DEF RuntimeTypeOK, WriteStatuses
<1>3. runOvertaken' \in BOOLEAN
  BY DEF RuntimeTypeOK, WriteStatuses
<1> QED  BY <1>1, <1>2, <1>3

\* Initially every variable has its type.
LEMMA RuntimeStarts == RuntimeInit => RuntimeTypeOK
<1> SUFFICES ASSUME RuntimeInit PROVE RuntimeTypeOK
  OBVIOUS
<1>1. run \in RunStatus /\ request \in RequestStatus /\ reports \in [Events -> RunStatus]
  BY DEF RuntimeInit, RunStatus, RequestStatus
<1>2. session \in [Sessions -> Work \union {Resting}] /\ applied \in [Events -> Nat]
  BY DEF RuntimeInit
<1> QED  BY <1>1, <1>2 DEF RuntimeInit, RuntimeTypeOK

\* Every step keeps the types (all of command_run and reconcile_run).
LEMMA RuntimeTypes == RuntimeTypeOK /\ [RuntimeNext]_runtimeVars => RuntimeTypeOK'
<1> SUFFICES ASSUME RuntimeTypeOK, [RuntimeNext]_runtimeVars PROVE RuntimeTypeOK'
  OBVIOUS
<1>1. ASSUME NEW st \in RequestStatus, GovernRequest(st) PROVE RuntimeTypeOK'
  BY <1>1 DEF RuntimeTypeOK, GovernRequest
<1>2. ASSUME NEW e \in Events, AnswerDuplicate(e) PROVE RuntimeTypeOK'
  BY <1>2 DEF RuntimeTypeOK, AnswerDuplicate
<1>3. ASSUME NEW s \in Sessions, NEW op \in Commands \union Events, Begin(s, op) PROVE RuntimeTypeOK'
  <2>1. [at |-> "read", op |-> op, run |-> run, request |-> request] \in Work
    BY DEF RuntimeTypeOK, Work
  <2>2. session' \in [Sessions -> Work \union {Resting}]
    BY <1>3, <2>1 DEF RuntimeTypeOK, Begin
  <2> QED  BY <1>3, <2>2 DEF RuntimeTypeOK, Begin, historyVars
<1>4. ASSUME NEW s \in Sessions, Dispatch(s) PROVE RuntimeTypeOK'
  <2>1. session[s] \in Work /\ session[s].op \in Commands
    BY <1>4, SessionAtWork, SessionTypes DEF Dispatch
  <2>2. [session[s] EXCEPT !.at = "told"] \in Work
    BY <2>1 DEF Work
  <2>3. session' \in [Sessions -> Work \union {Resting}]
    BY <1>4, <2>2 DEF RuntimeTypeOK, Dispatch, Free
  <2> QED  BY <1>4, <2>3 DEF RuntimeTypeOK, Dispatch
<1>5. ASSUME NEW s \in Sessions, CommitRunCommand(s) PROVE RuntimeTypeOK'
  <2>1. session[s] # Resting /\ session[s].op \in Commands
    BY <1>5, SessionAtWork DEF CommitRunCommand
  <2>2. PICK want \in RequestStatus : WriteStatuses(s, RunAfter(session[s].op), want)
    BY <1>5, <2>1, SessionTypes DEF CommitRunCommand, RequestStatus
  <2>3. /\ run' \in RunStatus /\ request' \in RequestStatus
        /\ closing' \in {"none", "completed", "failed"} /\ runOvertaken' \in BOOLEAN
    BY <2>1, <2>2, WriteTypes, WantedTypes
  <2>4. session' \in [Sessions -> Work \union {Resting}]
    BY <1>5 DEF RuntimeTypeOK, CommitRunCommand, Free
  <2>5. /\ UNCHANGED <<reports, signals, calls, told, applied, acked>>
        /\ dispatches' = dispatches + 1
    BY <1>5 DEF CommitRunCommand
  <2> QED  BY <2>3, <2>4, <2>5 DEF RuntimeTypeOK
<1>6. ASSUME NEW s \in Sessions, CommitCallback(s) PROVE RuntimeTypeOK'
  <2>1. session[s] # Resting /\ session[s].op \in Events
    BY <1>6, SessionAtWork DEF CommitCallback
  <2>2. /\ run' \in RunStatus /\ request' \in RequestStatus
        /\ closing' \in {"none", "completed", "failed"} /\ runOvertaken' \in BOOLEAN
    BY <1>6, <2>1, WriteTypes, WantedTypes, SessionTypes DEF CommitCallback, RuntimeTypeOK
  <2>3. session' \in [Sessions -> Work \union {Resting}]
    BY <1>6 DEF RuntimeTypeOK, CommitCallback, Free
  <2>4. applied' \in [Events -> Nat] /\ signals' \subseteq Events /\ acked' \subseteq Events
    BY <1>6, <2>1 DEF RuntimeTypeOK, CommitCallback
  <2> QED  BY <1>6, <2>2, <2>3, <2>4 DEF RuntimeTypeOK, CommitCallback
<1>7. ASSUME NEW s \in Sessions, RollBack(s) PROVE RuntimeTypeOK'
  <2>1. session' \in [Sessions -> Work \union {Resting}]
    BY <1>7 DEF RuntimeTypeOK, RollBack, Free
  <2> QED  BY <1>7, <2>1 DEF RuntimeTypeOK, RollBack, historyVars
<1>8. CASE UNCHANGED runtimeVars
  BY <1>8 DEF RuntimeTypeOK, runtimeVars
<1> QED
  BY <1>1, <1>2, <1>3, <1>4, <1>5, <1>6, <1>7, <1>8
     DEF RuntimeNext, BeginRunCommand, BeginCallback

\* Every reachable state has its types (RuntimeRun as a whole).
THEOREM RuntimeTypeCorrect == RuntimeSpec => []RuntimeTypeOK
<1>1. RuntimeInit => RuntimeTypeOK
  BY RuntimeStarts
<1>2. RuntimeTypeOK /\ [RuntimeNext]_runtimeVars => RuntimeTypeOK'
  BY RuntimeTypes
<1> QED  BY <1>1, <1>2, PTL DEF RuntimeSpec

-----------------------------------------------------------------------------
(* What repeated deliveries add up to *)

\* The handlers whose dispatch the runtime has accepted and whose row is not
\* committed: each stands for one of the dispatches that are not on record.
Unrecorded == {s \in Sessions : session[s].at = "told"}

CountInv ==
  /\ acked \subseteq signals
  /\ \A e \in Events : applied[e] = IF e \in signals THEN 1 ELSE 0
  /\ IsFiniteSet(Unrecorded)
  /\ dispatches + Cardinality(Unrecorded) <= told

\* A step that changes neither the handlers nor the dispatches keeps their sum.
LEMMA SumKept ==
  ASSUME CountInv, UNCHANGED <<session, dispatches, told>>
  PROVE  IsFiniteSet(Unrecorded') /\ dispatches' + Cardinality(Unrecorded') <= told'
<1>1. Unrecorded' = Unrecorded
  BY DEF Unrecorded
<1> QED  BY <1>1 DEF CountInv

\* A handler that begins has told the runtime nothing.
LEMMA BeginUnrecorded ==
  ASSUME RuntimeTypeOK, NEW s \in Sessions, NEW op, Begin(s, op)
  PROVE  Unrecorded' = Unrecorded
BY DEF RuntimeTypeOK, Begin, Unrecorded, Resting

\* A handler that ends leaves the set of those whose dispatch is not on record.
LEMMA FreeUnrecorded ==
  ASSUME RuntimeTypeOK, NEW s \in Sessions, Free(s)
  PROVE  Unrecorded' = Unrecorded \ {s}
BY DEF RuntimeTypeOK, Free, Unrecorded, Resting

\* A dispatch that is told, whether its handler survives the answer or not,
\* leaves room for the row that may follow (command_run calls the runtime
\* before it commits).
LEMMA DispatchSum ==
  ASSUME RuntimeTypeOK, CountInv, NEW s \in Sessions, Dispatch(s)
  PROVE  IsFiniteSet(Unrecorded') /\ dispatches' + Cardinality(Unrecorded') <= told'
<1>1. s \notin Unrecorded
  BY DEF Dispatch, Unrecorded
<1>2. IsFiniteSet(Unrecorded) /\ Cardinality(Unrecorded) \in Nat
  BY FS_CardinalityType DEF CountInv
<1>3. dispatches' = dispatches /\ told' = told + 1 /\ dispatches \in Nat /\ told \in Nat
  BY DEF Dispatch, RuntimeTypeOK
<1>4. CASE session' = [session EXCEPT ![s].at = "told"]
  <2>1. Unrecorded' = Unrecorded \union {s}
    BY <1>4 DEF RuntimeTypeOK, Unrecorded
  <2>2. IsFiniteSet(Unrecorded') /\ Cardinality(Unrecorded') = Cardinality(Unrecorded) + 1
    BY <1>1, <1>2, <2>1, FS_AddElement
  <2> QED  BY <1>2, <1>3, <2>2 DEF CountInv
<1>5. CASE Free(s)
  <2>1. Unrecorded' = Unrecorded
    BY <1>1, <1>5, FreeUnrecorded
  <2> QED  BY <1>2, <1>3, <2>1 DEF CountInv
<1> QED  BY <1>4, <1>5 DEF Dispatch

\* A handler that ends without a row only lowers the sum.
LEMMA FreeSum ==
  ASSUME RuntimeTypeOK, CountInv, NEW s \in Sessions, Free(s), UNCHANGED <<dispatches, told>>
  PROVE  IsFiniteSet(Unrecorded') /\ dispatches' + Cardinality(Unrecorded') <= told'
<1>1. Unrecorded' = Unrecorded \ {s}
  BY FreeUnrecorded
<1>2. IsFiniteSet(Unrecorded) /\ Cardinality(Unrecorded) \in Nat
  BY FS_CardinalityType DEF CountInv
<1>3. IsFiniteSet(Unrecorded')
  BY <1>1, <1>2, FS_RemoveElement
<1>4. Cardinality(Unrecorded') \in Nat
  BY <1>3, FS_CardinalityType
<1>5. Cardinality(Unrecorded') <= Cardinality(Unrecorded)
  BY <1>1, <1>2, FS_RemoveElement
<1> QED  BY <1>2, <1>3, <1>4, <1>5 DEF CountInv, RuntimeTypeOK

\* A command's commit puts one dispatch on record and has one fewer to put.
LEMMA CommandSum ==
  ASSUME RuntimeTypeOK, CountInv, NEW s \in Sessions, CommitRunCommand(s)
  PROVE  IsFiniteSet(Unrecorded') /\ dispatches' + Cardinality(Unrecorded') <= told'
<1>1. s \in Unrecorded /\ Free(s)
  BY DEF CommitRunCommand, Unrecorded
<1>2. Unrecorded' = Unrecorded \ {s}
  BY <1>1, FreeUnrecorded
<1>3. IsFiniteSet(Unrecorded) /\ Cardinality(Unrecorded) \in Nat
  BY FS_CardinalityType DEF CountInv
<1>4. IsFiniteSet(Unrecorded') /\ Cardinality(Unrecorded') = Cardinality(Unrecorded) - 1
  BY <1>1, <1>2, <1>3, FS_RemoveElement
<1>5. dispatches' = dispatches + 1 /\ told' = told
  BY DEF CommitRunCommand
<1> QED  BY <1>3, <1>4, <1>5 DEF CountInv, RuntimeTypeOK

\* Initially nothing was told or reported.
LEMMA InitCount == RuntimeInit => CountInv
<1> SUFFICES ASSUME RuntimeInit PROVE CountInv
  OBVIOUS
<1>1. Unrecorded = {}
  BY DEF RuntimeInit, Unrecorded, Resting
<1>2. IsFiniteSet(Unrecorded) /\ Cardinality(Unrecorded) = 0
  BY <1>1, FS_EmptySet
<1> QED  BY <1>2 DEF RuntimeInit, CountInv

\* Every step keeps the counts: a copy of an event is answered from its row or
\* its INSERT raises, and a dispatch is told before it is recorded.
LEMMA NextCount == RuntimeTypeOK /\ CountInv /\ [RuntimeNext]_runtimeVars => CountInv'
<1> SUFFICES ASSUME RuntimeTypeOK, CountInv, [RuntimeNext]_runtimeVars PROVE CountInv'
  OBVIOUS
<1>1. ASSUME NEW st \in RequestStatus, GovernRequest(st) PROVE CountInv'
  <2>1. UNCHANGED <<session, dispatches, told, signals, applied, acked>>
    BY <1>1 DEF GovernRequest
  <2> QED  BY <2>1, SumKept DEF CountInv
<1>2. ASSUME NEW e \in Events, AnswerDuplicate(e) PROVE CountInv'
  <2>1. /\ UNCHANGED <<session, dispatches, told, signals, applied>>
        /\ acked' = acked \union {e} /\ e \in signals
    BY <1>2 DEF AnswerDuplicate
  <2> QED  BY <2>1, SumKept DEF CountInv
<1>3. ASSUME NEW s \in Sessions, NEW op, Begin(s, op) PROVE CountInv'
  <2>1. UNCHANGED <<dispatches, told, signals, applied, acked>>
    BY <1>3 DEF Begin, historyVars
  <2> QED  BY <1>3, <2>1, BeginUnrecorded DEF CountInv
<1>4. ASSUME NEW s \in Sessions, Dispatch(s) PROVE CountInv'
  <2>1. UNCHANGED <<signals, applied, acked>>
    BY <1>4 DEF Dispatch
  <2> QED  BY <1>4, <2>1, DispatchSum DEF CountInv
<1>5. ASSUME NEW s \in Sessions, CommitRunCommand(s) PROVE CountInv'
  <2>1. UNCHANGED <<signals, applied, acked>>
    BY <1>5 DEF CommitRunCommand
  <2> QED  BY <1>5, <2>1, CommandSum DEF CountInv
<1>6. ASSUME NEW s \in Sessions, CommitCallback(s) PROVE CountInv'
  <2> DEFINE e == session[s].op
  <2>1. /\ e \in Events /\ e \notin signals
        /\ signals' = signals \union {e}
        /\ applied' = [applied EXCEPT ![e] = @ + 1]
        /\ acked' = acked \union {e} \/ acked' = acked
    BY <1>6 DEF CommitCallback, InsertSignal
  <2>2. acked' \subseteq signals'
    BY <2>1 DEF CountInv
  <2>3. \A d \in Events : applied'[d] = IF d \in signals' THEN 1 ELSE 0
    BY <2>1 DEF CountInv, RuntimeTypeOK
  <2>4. Free(s) /\ UNCHANGED <<dispatches, told>>
    BY <1>6 DEF CommitCallback
  <2> QED  BY <2>2, <2>3, <2>4, FreeSum DEF CountInv
<1>7. ASSUME NEW s \in Sessions, RollBack(s) PROVE CountInv'
  <2>1. Free(s) /\ UNCHANGED <<dispatches, told, signals, applied, acked>>
    BY <1>7 DEF RollBack, historyVars
  <2> QED  BY <2>1, FreeSum DEF CountInv
<1>8. CASE UNCHANGED runtimeVars
  <2>1. UNCHANGED <<session, dispatches, told, signals, applied, acked>>
    BY <1>8 DEF runtimeVars
  <2> QED  BY <2>1, SumKept DEF CountInv
<1> QED
  BY <1>1, <1>2, <1>3, <1>4, <1>5, <1>6, <1>7, <1>8
     DEF RuntimeNext, BeginRunCommand, BeginCallback

\* An answered event has taken effect, each event that has a signal exactly
\* once, and every dispatch on record was told (reconcile_run, command_run).
THEOREM EffectsCounted == RuntimeSpec => []EffectsCountOnce
<1>1. RuntimeInit => RuntimeTypeOK /\ CountInv
  BY RuntimeStarts, InitCount
<1>2. RuntimeTypeOK /\ CountInv /\ [RuntimeNext]_runtimeVars => RuntimeTypeOK' /\ CountInv'
  BY RuntimeTypes, NextCount
<1>3. RuntimeTypeOK /\ CountInv => EffectsCountOnce
  <2> SUFFICES ASSUME RuntimeTypeOK, CountInv PROVE EffectsCountOnce
    OBVIOUS
  <2>1. Cardinality(Unrecorded) \in Nat /\ dispatches + Cardinality(Unrecorded) <= told
    BY FS_CardinalityType DEF CountInv
  <2>2. dispatches <= told
    BY <2>1 DEF RuntimeTypeOK
  <2> QED  BY <2>2 DEF CountInv, EffectsCountOnce
<1> QED  BY <1>1, <1>2, <1>3, PTL DEF RuntimeSpec

-----------------------------------------------------------------------------
(* Ended requests *)

\* A write that no other has runOvertaken leaves an ended request as it ended: it
\* asks for an end of its own, for no change, or for the execution of a request
\* that is queued.
LEMMA WriteKeepsEnd ==
  ASSUME RuntimeTypeOK, EndedNotReopened, NEW s \in Sessions, NEW runStatus, NEW want,
         WriteStatuses(s, runStatus, want),
         \/ want \in {"completed", "failed"}
         \/ want = session[s].request
         \/ session[s].request = "queued"
  PROVE  EndedNotReopened'
<1> SUFFICES ASSUME ~runOvertaken', closing' # "none" PROVE request' = closing'
  BY DEF EndedNotReopened
<1>1. ~runOvertaken /\ (want = session[s].request \/ request = session[s].request)
  BY DEF WriteStatuses
<1>2. CASE want = session[s].request
  BY <1>1, <1>2 DEF WriteStatuses, Column, EndedNotReopened
<1>3. CASE want # session[s].request /\ want \in {"completed", "failed"}
  BY <1>3 DEF WriteStatuses, Column
<1>4. CASE want # session[s].request /\ want \notin {"completed", "failed"}
  <2>1. request = "queued" /\ closing' = closing
    BY <1>1, <1>4 DEF WriteStatuses
  <2> QED  BY <1>1, <2>1 DEF EndedNotReopened, RuntimeTypeOK
<1> QED  BY <1>2, <1>3, <1>4

\* A request that the runtime or Cancel Run has ended stays as it ended
\* (reconcile_run moves only a queued request into execution).
THEOREM EndedStays == RuntimeSpec => []EndedNotReopened
<1>1. RuntimeInit => EndedNotReopened
  BY DEF RuntimeInit, EndedNotReopened
<1>2. RuntimeTypeOK /\ EndedNotReopened /\ [RuntimeNext]_runtimeVars => EndedNotReopened'
  <2> SUFFICES ASSUME RuntimeTypeOK, EndedNotReopened, [RuntimeNext]_runtimeVars PROVE EndedNotReopened'
    OBVIOUS
  <2>1. ASSUME NEW st \in RequestStatus, GovernRequest(st) PROVE EndedNotReopened'
    BY <2>1 DEF GovernRequest, EndedNotReopened
  <2>2. ASSUME NEW s \in Sessions, CommitRunCommand(s) PROVE EndedNotReopened'
    BY <2>2, WriteKeepsEnd DEF CommitRunCommand
  <2>3. ASSUME NEW s \in Sessions, CommitCallback(s) PROVE EndedNotReopened'
    <3> DEFINE want == RequestAfter(reports[session[s].op], session[s].request)
    <3>1. WriteStatuses(s, reports[session[s].op], want)
      BY <2>3 DEF CommitCallback
    <3>2. \/ want \in {"completed", "failed"}
          \/ want = session[s].request
          \/ session[s].request = "queued"
      BY DEF RequestAfter
    <3> HIDE DEF want
    <3> QED  BY <3>1, <3>2, WriteKeepsEnd
  <2>4. ASSUME UNCHANGED <<request, closing, runOvertaken>> PROVE EndedNotReopened'
    BY <2>4 DEF EndedNotReopened
  <2>5. ASSUME NEW e \in Events, AnswerDuplicate(e) PROVE EndedNotReopened'
    BY <2>4, <2>5 DEF AnswerDuplicate
  <2>6. ASSUME NEW s \in Sessions, NEW op, Begin(s, op) PROVE EndedNotReopened'
    BY <2>4, <2>6 DEF Begin, historyVars
  <2>7. ASSUME NEW s \in Sessions, Dispatch(s) \/ RollBack(s) PROVE EndedNotReopened'
    BY <2>4, <2>7 DEF Dispatch, RollBack, historyVars
  <2>8. CASE UNCHANGED runtimeVars
    BY <2>4, <2>8 DEF runtimeVars
  <2> QED
    BY <2>1, <2>2, <2>3, <2>5, <2>6, <2>7, <2>8 DEF RuntimeNext, BeginRunCommand, BeginCallback
<1> QED  BY <1>1, <1>2, RuntimeTypeCorrect, PTL DEF RuntimeSpec

-----------------------------------------------------------------------------
(* Two stores *)

\* The steps a handler may still have to do: the suffixes of its commands.
Todos == {<<>>, <<"row">>, <<"run", "row">>, <<"scan", "run", "row">>,
          <<"put", "scan", "run", "row">>, <<"put">>, <<"effects", "put">>}

\* A handler has a run exactly between the put of its item and the insertion
\* of its row.
CommanderType(c) ==
  /\ c \in [todo: Todos, want: Status, run: Runs \union {NoRun}]
  /\ c.run # NoRun <=> c.todo = <<"row">>

CommandersInv ==
  DOMAIN commander = Commanders /\ \A s \in Commanders : CommanderType(commander[s])

\* A run whose item is pending has work to come; a completed one is in the hands
\* of a worker, for a worker passes over the task of a completed row.
RunInv(r) ==
  PendingItem(r) =>
    /\ \/ r \in tasks
       \/ \E w \in Workers : worker[w].run = r
       \/ \E s \in Commanders : commander[s].run = r
    /\ runRow[r] = "completed" => \E w \in Workers : worker[w].run = r

DualInv == DualTypeOK /\ CommandersInv /\ \A r \in Runs \ lost : RunInv(r)

LEMMA TodoSteps ==
  ASSUME NEW todo \in Todos
  PROVE  /\ todo \in Seq(CommandSteps)
         /\ todo # <<>> => /\ Tail(todo) \in Todos
                           /\ Head(todo) = "row" <=> todo = <<"row">>
                           /\ Head(todo) = "row" => Tail(todo) = <<>>
                           /\ Head(todo) = "run" <=> Tail(todo) = <<"row">>
<1>1. CASE todo = <<>>
  BY <1>1
<1>2. CASE todo = <<"row">>
  BY <1>2 DEF Todos, CommandSteps
<1>3. CASE todo = <<"run", "row">>
  BY <1>3 DEF Todos, CommandSteps
<1>4. CASE todo = <<"scan", "run", "row">>
  BY <1>4 DEF Todos, CommandSteps
<1>5. CASE todo = <<"put", "scan", "run", "row">>
  BY <1>5 DEF Todos, CommandSteps
<1>6. CASE todo = <<"put">>
  BY <1>6 DEF Todos, CommandSteps
<1>7. CASE todo = <<"effects", "put">>
  BY <1>7 DEF Todos, CommandSteps
<1> QED  BY <1>1, <1>2, <1>3, <1>4, <1>5, <1>6, <1>7 DEF Todos

WorkerStates ==
  {FreeWorker} \union [at: {"announced", "locked", "committed", "raised", "recorded"}, run: Runs]

LEMMA CommanderTypes ==
  /\ \A c : CommanderType(c) =>
       c.todo \in Seq(CommandSteps) /\ c.want \in Status /\ c.run \in Runs \union {NoRun}
  /\ CommanderType(AtRest) /\ AtRest.run = NoRun
  /\ \A todo \in Todos \ {<<"row">>}, want \in Status :
       CommanderType([todo |-> todo, want |-> want, run |-> NoRun])
<1>1. \A c : CommanderType(c) => c.todo \in Todos /\ c.want \in Status /\ c.run \in Runs \union {NoRun}
  BY DEF CommanderType
<1>2. \A todo \in Todos \ {<<"row">>}, want \in Status :
        CommanderType([todo |-> todo, want |-> want, run |-> NoRun])
  BY DEF CommanderType
<1>3. <<>> \in Todos \ {<<"row">>} /\ "draft" \in Status
  BY DEF Todos, Status
<1>4. CommanderType(AtRest) /\ AtRest.run = NoRun
  BY <1>2, <1>3 DEF AtRest
<1> QED  BY <1>1, <1>2, <1>4, TodoSteps

LEMMA WorkerTypes ==
  /\ FreeWorker.at = "free" /\ FreeWorker.run = NoRun
  /\ \A x \in WorkerStates, at \in {"announced", "locked", "committed", "raised", "recorded"} :
       x.at # "free" => /\ x.run \in Runs
                        /\ [x EXCEPT !.at = at] \in WorkerStates
                        /\ [x EXCEPT !.at = at].run = x.run
<1>1. FreeWorker.at = "free" /\ FreeWorker.run = NoRun
  BY DEF FreeWorker
<1> QED  BY <1>1 DEF WorkerStates

\* A handler's next step: it is at rest after the last one, and has the run it
\* is given.
LEMMA AdvancedHandler ==
  ASSUME CommandersInv, NEW s \in Commanders, commander[s].todo # <<>>,
         NEW r \in Runs \union {NoRun},
         r \in Runs <=> Head(commander[s].todo) = "run"
  PROVE  \E c : Advanced(s, r) = [commander EXCEPT ![s] = c] /\ CommanderType(c) /\ c.run = r
<1> DEFINE todo == commander[s].todo  rest == Tail(todo)
           c == IF rest = <<>> THEN AtRest ELSE [commander[s] EXCEPT !.todo = rest, !.run = r]
<1>1. Advanced(s, r) = [commander EXCEPT ![s] = c]
  BY DEF Advanced
<1>2. commander[s] \in [todo: Todos, want: Status, run: Runs \union {NoRun}]
  BY DEF CommandersInv, CommanderType
<1>3. /\ rest \in Todos
      /\ Head(todo) = "run" <=> rest = <<"row">>
  BY <1>2, TodoSteps
<1>4. CASE rest = <<>>
  <2>1. r = NoRun
    BY <1>3, <1>4
  <2> QED  BY <1>1, <1>4, <2>1, CommanderTypes
<1>5. CASE rest # <<>>
  <2> HIDE DEF rest
  <2>1. [commander[s] EXCEPT !.todo = rest, !.run = r]
          \in [todo: Todos, want: Status, run: Runs \union {NoRun}]
    BY <1>2, <1>3
  <2>2. /\ [commander[s] EXCEPT !.todo = rest, !.run = r].todo = rest
        /\ [commander[s] EXCEPT !.todo = rest, !.run = r].run = r
    BY <1>2
  <2>3. CommanderType(c) /\ c.run = r
    BY <1>3, <1>5, <2>1, <2>2, RunsAssumption DEF CommanderType
  <2> QED  BY <1>1, <2>3
<1> QED  BY <1>4, <1>5

\* A run keeps what it has, unless its item is no longer pending.
LEMMA RunKept ==
  ASSUME NEW r, RunInv(r),
         PendingItem(r)' => PendingItem(r),
         r \in tasks => r \in tasks',
         \A w \in Workers : worker[w].run = r => worker'[w].run = r \/ ~PendingItem(r)',
         \A s \in Commanders : commander[s].run = r => commander'[s].run = r \/ r \in tasks',
         runRow'[r] = "completed" => runRow[r] = "completed" \/ \E w \in Workers : worker[w].run = r
  PROVE  RunInv(r)'
BY DEF RunInv

\* The types of the next state, from what an action says of each variable.
LEMMA DualTypesKept ==
  ASSUME CommandersInv', item' \in Status,
         runItem' \in [Runs -> CheckRunStatus],
         runRow' \in [Runs -> CheckRunStatus \ {"running"}],
         tasks' \subseteq Runs, worker' \in [Workers -> WorkerStates], lost' \subseteq Runs
  PROVE  DualTypeOK'
BY CommanderTypes DEF DualTypeOK, CommandersInv, WorkerStates

\* A step of one handler that touches neither the workers nor the run items.
LEMMA HandlerMoves ==
  ASSUME DualInv, NEW s \in Commanders, NEW c, CommanderType(c),
         commander' = [commander EXCEPT ![s] = c],
         item' \in Status, runItem' = runItem, worker' = worker,
         runRow' \in [Runs -> CheckRunStatus \ {"running"}],
         \A r \in Runs : runRow'[r] = "completed" => runRow[r] = "completed",
         tasks \subseteq tasks', tasks' \subseteq Runs,
         lost \subseteq lost', lost' \subseteq Runs,
         commander[s].run \in Runs => commander[s].run \in tasks' \union lost'
  PROVE  DualInv'
<1>1. /\ DOMAIN commander' = Commanders
      /\ \A t \in Commanders : commander'[t] = IF t = s THEN c ELSE commander[t]
  BY DEF DualInv, CommandersInv
<1>2. CommandersInv'
  BY <1>1 DEF DualInv, CommandersInv
<1>3. DualTypeOK'
  BY <1>2, DualTypesKept DEF DualInv, DualTypeOK, WorkerStates
<1>4. ASSUME NEW r \in Runs \ lost' PROVE RunInv(r)'
  <2>1. RunInv(r) /\ (PendingItem(r)' => PendingItem(r))
    BY <1>4 DEF DualInv, PendingItem
  <2>2. \A t \in Commanders : commander[t].run = r => commander'[t].run = r \/ r \in tasks'
    BY <1>1, <1>4
  <2> QED  BY <2>1, <2>2, <1>4, RunKept
<1> QED  BY <1>2, <1>3, <1>4 DEF DualInv

\* The steps of the commands.
LEMMA CommandTodos ==
  /\ <<"put">> \o Enqueue \in Todos \ {<<"row">>}
  /\ Enqueue \in Todos \ {<<"row">>}
  /\ <<"put">> \in Todos \ {<<"row">>}
  /\ <<"effects", "put">> \in Todos \ {<<"row">>}
<1>1. <<"put">> \o Enqueue = <<"put", "scan", "run", "row">>
  <2> DEFINE p == <<"put">>  t == <<"put", "scan", "run", "row">>
  <2>1. /\ p \in Seq(CommandSteps) /\ Enqueue \in Seq(CommandSteps) /\ t \in Seq(CommandSteps)
        /\ Len(p) = 1 /\ Len(Enqueue) = 3 /\ Len(t) = 4
        /\ p[1] = t[1] /\ Enqueue[1] = t[2] /\ Enqueue[2] = t[3] /\ Enqueue[3] = t[4]
    BY DEF Enqueue, CommandSteps
  <2> HIDE DEF p, t
  <2>2. \A u, v \in Seq(CommandSteps) :
          /\ u \o v \in Seq(CommandSteps)
          /\ Len(u \o v) = Len(u) + Len(v)
          /\ \A i \in 1 .. Len(u) + Len(v) : (u \o v)[i] = IF i <= Len(u) THEN u[i] ELSE v[i - Len(u)]
    BY ConcatProperties
  <2> DEFINE q == p \o Enqueue
  <2>3. /\ q \in Seq(CommandSteps) /\ Len(q) = 4
        /\ \A i \in 1 .. 4 : q[i] = IF i <= 1 THEN p[i] ELSE Enqueue[i - 1]
    <3>1. /\ q \in Seq(CommandSteps) /\ Len(q) = Len(p) + Len(Enqueue)
          /\ \A i \in 1 .. Len(p) + Len(Enqueue) :
               q[i] = IF i <= Len(p) THEN p[i] ELSE Enqueue[i - Len(p)]
      BY <2>1, <2>2, Zenon
    <3> HIDE DEF q
    <3> QED  BY <2>1, <3>1
  <2> HIDE DEF q
  <2>4. \A i \in 1 .. 4 : q[i] = t[i]
    BY <2>1, <2>3
  <2>5. q = t
    BY <2>1, <2>3, <2>4, SeqEqual
  <2> QED  BY <2>5 DEF p, t, q
<1>2. <<"put", "scan", "run", "row">> # <<"row">> /\ <<"scan", "run", "row">> # <<"row">>
      /\ <<"effects", "put">> # <<"row">> /\ <<"put">> # <<"row">>
  OBVIOUS
<1> QED  BY <1>1, <1>2 DEF Enqueue, Todos

\* A command begins with none of its steps done.
LEMMA CommandBegins ==
  ASSUME DualInv, NEW s \in Commanders, NEW steps \in Todos \ {<<"row">>}, NEW target \in Status,
         Command(s, steps, target)
  PROVE  DualInv'
<1> DEFINE c == [todo |-> steps, want |-> target, run |-> NoRun]
<1>1. CommanderType(c)
  BY CommanderTypes
<1>2. /\ commander[s] = AtRest /\ commander' = [commander EXCEPT ![s] = c]
      /\ UNCHANGED <<item, runItem, runRow, tasks, worker, lost>>
  BY DEF Command, itemVars, workerVars
<1>3. commander[s].run \notin Runs
  BY <1>2, CommanderTypes, RunsAssumption
<1> HIDE DEF c
<1> QED  BY <1>1, <1>2, <1>3, HandlerMoves DEF DualInv, DualTypeOK

LEMMA CommandsBegin ==
  ASSUME DualInv, NEW s \in Commanders,
         \/ SubmitRequest(s) \/ AmendRequestItem(s) \/ CloseRequest(s)
         \/ Escalate(s) \/ RunRequestChecks(s)
         \/ \E target \in Status : TransitionRequest(s, target) \/ TransitionNotReady(s, target)
  PROVE  DualInv'
<1>1. {"submitted", "draft", "closed", item} \subseteq Status
  BY DEF DualInv, DualTypeOK, Status
<1>2. CASE SubmitRequest(s)
  BY <1>1, <1>2, CommandTodos, CommandBegins DEF SubmitRequest
<1>3. CASE AmendRequestItem(s) \/ CloseRequest(s) \/ Escalate(s)
  BY <1>1, <1>3, CommandTodos, CommandBegins DEF AmendRequestItem, CloseRequest, Escalate
<1>4. CASE RunRequestChecks(s)
  BY <1>1, <1>4, CommandTodos, CommandBegins DEF RunRequestChecks
<1>5. ASSUME NEW target \in Status, TransitionRequest(s, target) \/ TransitionNotReady(s, target)
      PROVE  DualInv'
  BY <1>5, CommandTodos, CommandBegins DEF TransitionRequest, TransitionNotReady
<1> QED  BY <1>2, <1>3, <1>4, <1>5

\* What a handler that does a step other than the put of a run's item becomes.
LEMMA HandlerSteps ==
  ASSUME DualInv, NEW s \in Commanders, NEW what, Doing(s, what)
  PROVE  /\ commander[s].todo # <<>> /\ commander[s].todo \in Todos
         /\ commander[s].want \in Status
         /\ what = "row" => commander[s].run \in Runs
         /\ what # "row" => commander[s].run = NoRun
         /\ what # "run" =>
              \E c : Advanced(s, NoRun) = [commander EXCEPT ![s] = c] /\ CommanderType(c)
<1>1. /\ commander[s].todo # <<>> /\ Head(commander[s].todo) = what
      /\ CommanderType(commander[s])
  BY DEF Doing, DualInv, CommandersInv
<1>2. /\ commander[s].todo \in Todos
      /\ commander[s].want \in Status /\ commander[s].run \in Runs \union {NoRun}
      /\ commander[s].run # NoRun <=> commander[s].todo = <<"row">>
  BY <1>1 DEF CommanderType
<1>3. what = "row" <=> commander[s].todo = <<"row">>
  BY <1>1, <1>2, TodoSteps
<1>4. ASSUME what # "run"
      PROVE  \E c : Advanced(s, NoRun) = [commander EXCEPT ![s] = c] /\ CommanderType(c)
  BY <1>1, <1>4, AdvancedHandler, RunsAssumption DEF DualInv
<1> QED  BY <1>1, <1>2, <1>3, <1>4

LEMMA ItemPut ==
  ASSUME DualInv, NEW s \in Commanders, PutItem(s)
  PROVE  DualInv'
<1>1. /\ commander[s].want \in Status /\ commander[s].run \notin Runs
      /\ \E c : Advanced(s, NoRun) = [commander EXCEPT ![s] = c] /\ CommanderType(c)
  BY HandlerSteps, RunsAssumption DEF PutItem
<1>2. /\ item' = commander[s].want /\ commander' = Advanced(s, NoRun)
      /\ UNCHANGED <<runItem, runRow, tasks, worker, lost>>
  BY DEF PutItem, workerVars
<1> QED  BY <1>1, <1>2, HandlerMoves DEF DualInv, DualTypeOK

\* A run queued in SQL alone has no item.
LEMMA EffectsApplied ==
  ASSUME DualInv, NEW s \in Commanders, ApplySideEffects(s)
  PROVE  DualInv'
<1>1. /\ commander[s].run \notin Runs
      /\ \E c : Advanced(s, NoRun) = [commander EXCEPT ![s] = c] /\ CommanderType(c)
  BY HandlerSteps, RunsAssumption DEF ApplySideEffects
<1>2. /\ commander' = Advanced(s, NoRun)
      /\ UNCHANGED <<item, runItem, worker, lost>>
  BY DEF ApplySideEffects
<1>3. /\ runRow' \in [Runs -> CheckRunStatus \ {"running"}]
      /\ \A r \in Runs : runRow'[r] = "completed" => runRow[r] = "completed"
      /\ tasks \subseteq tasks' /\ tasks' \subseteq Runs
  <2>1. CASE UNCHANGED <<runRow, tasks>>
    BY <2>1 DEF DualInv, DualTypeOK
  <2>2. CASE \E r \in Unused : /\ runRow' = [runRow EXCEPT ![r] = "queued"]
                               /\ tasks' \in {tasks \union {r}, tasks}
    <3>1. PICK r \in Runs : /\ runRow' = [runRow EXCEPT ![r] = "queued"]
                            /\ tasks' \in {tasks \union {r}, tasks}
      BY <2>2 DEF Unused
    <3>2. "queued" \in CheckRunStatus \ {"running"} /\ "queued" # "completed"
      BY DEF CheckRunStatus
    <3> QED  BY <3>1, <3>2 DEF DualInv, DualTypeOK
  <2> QED  BY <2>1, <2>2 DEF ApplySideEffects
<1> QED  BY <1>1, <1>2, <1>3, HandlerMoves DEF DualInv, DualTypeOK

LEMMA ItemsScanned ==
  ASSUME DualInv, NEW s \in Commanders, ScanRunItems(s)
  PROVE  DualInv'
<1>1. /\ commander[s].run \notin Runs
      /\ \E c : Advanced(s, NoRun) = [commander EXCEPT ![s] = c] /\ CommanderType(c)
  BY HandlerSteps, RunsAssumption DEF ScanRunItems
<1>2. /\ \/ commander' = [commander EXCEPT ![s] = AtRest]
         \/ commander' = Advanced(s, NoRun)
      /\ UNCHANGED <<item, runItem, runRow, tasks, worker, lost>>
  BY DEF ScanRunItems, itemVars, workerVars
<1>3. CASE commander' = [commander EXCEPT ![s] = AtRest]
  BY <1>1, <1>2, <1>3, CommanderTypes, HandlerMoves DEF DualInv, DualTypeOK
<1>4. CASE commander' = Advanced(s, NoRun)
  BY <1>1, <1>2, <1>4, HandlerMoves DEF DualInv, DualTypeOK
<1> QED  BY <1>2, <1>3, <1>4

\* The row is queued, and its task is sent or lost with the handler.
LEMMA RowInserted ==
  ASSUME DualInv, NEW s \in Commanders, InsertRunRow(s)
  PROVE  DualInv'
<1> DEFINE given == commander[s].run
<1>1. /\ given \in Runs
      /\ \E c : Advanced(s, NoRun) = [commander EXCEPT ![s] = c] /\ CommanderType(c)
  BY HandlerSteps DEF InsertRunRow
<1>2. /\ runRow' = [runRow EXCEPT ![given] = "queued"]
      /\ \/ tasks' = tasks \union {given} /\ lost' = lost
         \/ lost' = lost \union {given} /\ tasks' = tasks
      /\ commander' = Advanced(s, NoRun)
      /\ UNCHANGED <<item, runItem, worker>>
  BY DEF InsertRunRow
<1>3. "queued" \in CheckRunStatus \ {"running"} /\ "queued" # "completed"
  BY DEF CheckRunStatus
<1>4. /\ runRow' \in [Runs -> CheckRunStatus \ {"running"}]
      /\ \A r \in Runs : runRow'[r] = "completed" => runRow[r] = "completed"
  BY <1>1, <1>2, <1>3 DEF DualInv, DualTypeOK
<1>5. /\ tasks \subseteq tasks' /\ tasks' \subseteq Runs
      /\ lost \subseteq lost' /\ lost' \subseteq Runs
      /\ given \in tasks' \union lost'
  BY <1>1, <1>2 DEF DualInv, DualTypeOK
<1> QED  BY <1>1, <1>2, <1>4, <1>5, HandlerMoves DEF DualInv, DualTypeOK

LEMMA CommandFails ==
  ASSUME DualInv, NEW s \in Commanders, FailCommand(s)
  PROVE  DualInv'
<1>1. /\ commander' = [commander EXCEPT ![s] = AtRest]
      /\ lost' = IF commander[s].run = NoRun THEN lost ELSE lost \union {commander[s].run}
      /\ UNCHANGED <<item, runItem, runRow, tasks, worker>>
  BY DEF FailCommand, itemVars, workerVars
<1>2. commander[s].run \in Runs \union {NoRun}
  BY DEF DualInv, DualTypeOK
<1>3. /\ lost \subseteq lost' /\ lost' \subseteq Runs
      /\ commander[s].run \in Runs => commander[s].run \in tasks' \union lost'
  BY <1>1, <1>2, RunsAssumption DEF DualInv, DualTypeOK
<1> QED  BY <1>1, <1>3, CommanderTypes, HandlerMoves DEF DualInv, DualTypeOK

\* The put of a run's item makes it pending, in the hands of its handler.
LEMMA RunItemPut ==
  ASSUME DualInv, NEW s \in Commanders, PutRunItem(s)
  PROVE  DualInv'
<1>1. PICK n \in Unused : /\ runItem' = [runItem EXCEPT ![n] = "queued"]
                          /\ commander' = Advanced(s, n)
  BY DEF PutRunItem
<1>2. /\ Doing(s, "run") /\ n \in Runs /\ runRow[n] = "none"
      /\ UNCHANGED <<item, runRow, tasks, worker, lost>>
  BY DEF PutRunItem, workerVars, Unused
<1>3. commander[s].run = NoRun
  BY <1>2, HandlerSteps
<1>4. PICK c : commander' = [commander EXCEPT ![s] = c] /\ CommanderType(c) /\ c.run = n
  <2>1. commander[s].todo # <<>> /\ (n \in Runs <=> Head(commander[s].todo) = "run")
    BY <1>2 DEF Doing
  <2> QED  BY <1>1, <1>2, <2>1, AdvancedHandler DEF DualInv
<1>5. /\ DOMAIN commander' = Commanders
      /\ \A t \in Commanders : commander'[t] = IF t = s THEN c ELSE commander[t]
  BY <1>4 DEF DualInv, CommandersInv
<1>6. CommandersInv'
  BY <1>4, <1>5 DEF DualInv, CommandersInv
<1>7. DualTypeOK'
  <2>1. runItem' \in [Runs -> CheckRunStatus]
    BY <1>1 DEF DualInv, DualTypeOK, CheckRunStatus
  <2> QED  BY <1>2, <1>6, <2>1, DualTypesKept DEF DualInv, DualTypeOK, WorkerStates
<1>8. ASSUME NEW r \in Runs \ lost' PROVE RunInv(r)'
  <2>1. CASE r = n
    <3>1. runRow'[n] # "completed"
      BY <1>2
    <3>2. commander'[s].run = n
      BY <1>4, <1>5
    <3> QED  BY <2>1, <3>1, <3>2 DEF RunInv
  <2>2. CASE r # n
    <3>1. RunInv(r) /\ (PendingItem(r)' => PendingItem(r))
      BY <1>1, <1>2, <1>8, <2>2 DEF DualInv, DualTypeOK, PendingItem
    <3>2. \A t \in Commanders : commander[t].run = r => commander'[t].run = r
      BY <1>3, <1>5, <1>8, RunsAssumption
    <3> QED  BY <1>2, <3>1, <3>2, RunKept
  <2> QED  BY <2>1, <2>2
<1> QED  BY <1>2, <1>6, <1>7, <1>8 DEF DualInv

\* A step of one worker leaves every run with what it has, if it does so with
\* the worker's own.
LEMMA WorkerMoves ==
  ASSUME DualInv, NEW w \in Workers, NEW x \in WorkerStates,
         worker' = [worker EXCEPT ![w] = x],
         UNCHANGED <<item, commander, tasks>>,
         runItem' \in [Runs -> CheckRunStatus],
         runRow' \in [Runs -> CheckRunStatus \ {"running"}],
         lost \subseteq lost', lost' \subseteq Runs,
         \A r \in Runs \ lost' :
           /\ PendingItem(r)' => PendingItem(r) /\ (worker[w].run = r => x.run = r)
           /\ runRow'[r] = "completed" => runRow[r] = "completed" \/ worker[w].run = r
  PROVE  DualInv'
<1>1. /\ worker' \in [Workers -> WorkerStates]
      /\ \A v \in Workers : worker'[v] = IF v = w THEN x ELSE worker[v]
  BY DEF DualInv, DualTypeOK, WorkerStates
<1>2. CommandersInv'
  BY DEF DualInv, CommandersInv
<1>3. DualTypeOK'
  BY <1>1, <1>2, DualTypesKept DEF DualInv, DualTypeOK
<1>4. ASSUME NEW r \in Runs \ lost' PROVE RunInv(r)'
  <2>1. RunInv(r)
    BY <1>4 DEF DualInv
  <2>2. \A v \in Workers : worker[v].run = r => worker'[v].run = r \/ ~PendingItem(r)'
    BY <1>1, <1>4
  <2> QED  BY <2>1, <2>2, <1>4, RunKept
<1> QED  BY <1>2, <1>3, <1>4 DEF DualInv

\* A worker that has a task is in one of the states of its execution.
LEMMA WorkerHasRun ==
  ASSUME DualInv, NEW w \in Workers
  PROVE  /\ worker[w] \in WorkerStates
         /\ worker[w].at # "free" => worker[w].run \in Runs
BY WorkerTypes DEF DualInv, DualTypeOK, WorkerStates

\* A worker that goes on with its run, and does not put its item.
LEMMA WorkerGoesOn ==
  ASSUME DualInv, NEW w \in Workers, worker[w].at # "free",
         NEW at \in {"announced", "locked", "committed", "raised", "recorded"}, Moves(w, at),
         UNCHANGED <<item, runItem, commander, tasks, lost>>,
         \/ runRow' = runRow
         \/ \E st \in {"completed", "failed"} : runRow' = [runRow EXCEPT ![worker[w].run] = st]
  PROVE  DualInv'
<1> DEFINE x == [worker[w] EXCEPT !.at = at]
<1>1. /\ worker[w].run \in Runs /\ x \in WorkerStates /\ x.run = worker[w].run
      /\ worker' = [worker EXCEPT ![w] = x]
  BY WorkerHasRun, WorkerTypes DEF Moves
<1>2. {"completed", "failed"} \subseteq CheckRunStatus \ {"running"}
  BY DEF CheckRunStatus
<1>3. /\ runRow' \in [Runs -> CheckRunStatus \ {"running"}]
      /\ \A r \in Runs : runRow'[r] = "completed" => runRow[r] = "completed" \/ worker[w].run = r
  BY <1>1, <1>2 DEF DualInv, DualTypeOK
<1> HIDE DEF x
<1>4. /\ runItem' \in [Runs -> CheckRunStatus] /\ lost \subseteq lost' /\ lost' \subseteq Runs
      /\ UNCHANGED <<item, commander, tasks>>
  BY DEF DualInv, DualTypeOK
<1>5. \A r \in Runs \ lost' :
        /\ PendingItem(r)' => PendingItem(r) /\ (worker[w].run = r => x.run = r)
        /\ runRow'[r] = "completed" => runRow[r] = "completed" \/ worker[w].run = r
  BY <1>1, <1>3 DEF PendingItem
<1> QED  BY <1>1, <1>3, <1>4, <1>5, WorkerMoves

LEMMA ExecutionGoesOn ==
  ASSUME DualInv, NEW w \in Workers,
         LockRow(w) \/ CommitRun(w) \/ Raise(w) \/ RecordFailure(w)
  PROVE  DualInv'
<1>1. worker[w].at # "free" /\ UNCHANGED <<item, runItem, commander, tasks, lost>>
  BY DEF LockRow, CommitRun, Raise, RecordFailure, At, itemVars, commandVars
<1>2. \/ runRow' = runRow
      \/ \E st \in {"completed", "failed"} : runRow' = [runRow EXCEPT ![worker[w].run] = st]
  BY DEF LockRow, CommitRun, Raise, RecordFailure, itemVars
<1>3. PICK at \in {"announced", "locked", "committed", "raised", "recorded"} : Moves(w, at)
  BY DEF LockRow, CommitRun, Raise, RecordFailure
<1> QED  BY <1>1, <1>2, <1>3, WorkerGoesOn

\* The last put ends the run's item, where there is one.
LEMMA OutcomePut ==
  ASSUME DualInv, NEW w \in Workers, PutOutcome(w)
  PROVE  DualInv'
<1> DEFINE n == worker[w].run  st == Outcome(worker[w].at)
<1>1. /\ worker[w].at # "free" /\ UNCHANGED <<item, runRow, commander, tasks, lost>>
      /\ runItem' = Put(n, st)
  BY DEF PutOutcome, At, commandVars
<1>2. n \in Runs /\ worker[w] \in WorkerStates
  BY <1>1, WorkerHasRun
<1>3. st \in CheckRunStatus /\ st \notin {"queued", "running"}
  BY DEF Outcome, CheckRunStatus
<1> HIDE DEF st
<1>4. /\ runItem' \in [Runs -> CheckRunStatus]
      /\ \A r \in Runs : PendingItem(r)' => PendingItem(r) /\ r # n
  BY <1>1, <1>2, <1>3 DEF Put, PendingItem, DualInv, DualTypeOK
<1>5. PICK x \in WorkerStates : worker' = [worker EXCEPT ![w] = x]
  <2>1. FreeWorker \in WorkerStates
    BY DEF WorkerStates
  <2>2. [worker[w] EXCEPT !.at = "raised"] \in WorkerStates
    BY <1>1, <1>2, WorkerTypes
  <2> QED  BY <2>1, <2>2 DEF PutOutcome, Moves
<1>6. /\ lost \subseteq lost' /\ lost' \subseteq Runs
      /\ runRow' \in [Runs -> CheckRunStatus \ {"running"}]
  BY <1>1 DEF DualInv, DualTypeOK
<1>7. \A r \in Runs \ lost' :
        /\ PendingItem(r)' => PendingItem(r) /\ (worker[w].run = r => x.run = r)
        /\ runRow'[r] = "completed" => runRow[r] = "completed" \/ worker[w].run = r
  BY <1>1, <1>4
<1> QED  BY <1>1, <1>4, <1>5, <1>6, <1>7, WorkerMoves

LEMMA WorkerFails ==
  ASSUME DualInv, NEW w \in Workers, FailWorker(w)
  PROVE  DualInv'
<1>1. /\ worker' = [worker EXCEPT ![w] = FreeWorker]
      /\ lost' = lost \union {worker[w].run}
      /\ UNCHANGED <<item, runItem, runRow, commander, tasks>>
  BY DEF FailWorker, itemVars, commandVars
<1>2. worker[w].run \in Runs
  BY WorkerHasRun DEF FailWorker, WorkerStates
<1>3. FreeWorker \in WorkerStates
  BY DEF WorkerStates
<1>4. /\ lost \subseteq lost' /\ lost' \subseteq Runs
      /\ runItem' \in [Runs -> CheckRunStatus]
      /\ runRow' \in [Runs -> CheckRunStatus \ {"running"}]
  BY <1>1, <1>2 DEF DualInv, DualTypeOK
<1>5. \A r \in Runs \ lost' :
        /\ PendingItem(r)' => PendingItem(r) /\ (worker[w].run = r => FreeWorker.run = r)
        /\ runRow'[r] = "completed" => runRow[r] = "completed" \/ worker[w].run = r
  BY <1>1 DEF PendingItem
<1> QED  BY <1>1, <1>3, <1>4, <1>5, WorkerMoves

\* A worker takes the task, or passes over that of a completed run, which is
\* then not pending or in the hands of another.
LEMMA TaskTaken ==
  ASSUME DualInv, NEW w \in Workers, TakeTask(w)
  PROVE  DualInv'
<1>1. PICK n \in tasks :
        /\ tasks' = tasks \ {n}
        /\ IF runRow[n] = "completed"
             THEN UNCHANGED <<runItem, worker>>
             ELSE /\ runItem' = Put(n, "running")
                  /\ worker' = [worker EXCEPT ![w] = [at |-> "announced", run |-> n]]
  BY DEF TakeTask
<1>2. /\ worker[w] = FreeWorker /\ n \in Runs /\ tasks' \subseteq Runs
      /\ UNCHANGED <<item, runRow, commander, lost>>
  BY <1>1 DEF TakeTask, commandVars, DualInv, DualTypeOK
<1>3. CommandersInv'
  BY <1>2 DEF DualInv, CommandersInv
<1>4. CASE runRow[n] = "completed"
  <2>1. DualTypeOK'
    BY <1>1, <1>2, <1>3, <1>4, DualTypesKept DEF DualInv, DualTypeOK, WorkerStates
  <2>2. ASSUME NEW r \in Runs \ lost' PROVE RunInv(r)'
    <3>1. RunInv(r) /\ PendingItem(r)' = PendingItem(r)
      BY <1>1, <1>2, <1>4, <2>2 DEF DualInv, PendingItem
    <3> QED  BY <1>1, <1>2, <1>4, <3>1 DEF RunInv
  <2> QED  BY <1>3, <2>1, <2>2 DEF DualInv
<1>5. CASE runRow[n] # "completed"
  <2> DEFINE x == [at |-> "announced", run |-> n]
  <2>1. /\ runItem' = Put(n, "running") /\ worker' = [worker EXCEPT ![w] = x]
        /\ x \in WorkerStates /\ x.run = n
    BY <1>1, <1>2, <1>5 DEF WorkerStates
  <2> HIDE DEF x
  <2>2. /\ worker' \in [Workers -> WorkerStates]
        /\ \A v \in Workers : worker'[v] = IF v = w THEN x ELSE worker[v]
    BY <2>1 DEF DualInv, DualTypeOK, WorkerStates
  <2>3. runItem' \in [Runs -> CheckRunStatus]
    BY <2>1 DEF Put, CheckRunStatus, DualInv, DualTypeOK
  <2>4. DualTypeOK'
    BY <1>2, <1>3, <2>2, <2>3, DualTypesKept DEF DualInv, DualTypeOK
  <2>5. ASSUME NEW r \in Runs \ lost' PROVE RunInv(r)'
    <3>1. CASE r = n
      BY <1>2, <1>5, <2>1, <2>2, <3>1 DEF RunInv
    <3>2. CASE r # n
      <4>1. RunInv(r) /\ (PendingItem(r)' => PendingItem(r))
        BY <1>2, <2>1, <2>5, <3>2 DEF DualInv, DualTypeOK, PendingItem, Put
      <4>2. \A v \in Workers : worker[v].run = r => worker'[v].run = r
        BY <1>2, <2>2, <2>5, WorkerTypes, RunsAssumption
      <4> QED  BY <1>1, <1>2, <3>2, <4>1, <4>2, RunKept
    <3> QED  BY <3>1, <3>2
  <2> QED  BY <1>3, <2>4, <2>5 DEF DualInv
<1> QED  BY <1>4, <1>5

LEMMA TaskRedelivered ==
  ASSUME DualInv, NEW n \in Runs, Redeliver(n)
  PROVE  DualInv'
<1>1. tasks' = tasks \union {n} /\ UNCHANGED <<item, runItem, runRow, commander, worker, lost>>
  BY DEF Redeliver, itemVars, commandVars
<1>2. CommandersInv'
  BY <1>1 DEF DualInv, CommandersInv
<1>3. DualTypeOK'
  BY <1>1 DEF DualInv, DualTypeOK
<1>4. \A r : RunInv(r) => RunInv(r)'
  BY <1>1 DEF RunInv, PendingItem
<1> QED  BY <1>1, <1>2, <1>3, <1>4 DEF DualInv

LEMMA DualStarts == DualInit => DualInv
<1> SUFFICES ASSUME DualInit PROVE DualInv
  OBVIOUS
<1>1. CommandersInv
  BY CommanderTypes DEF DualInit, CommandersInv
<1>2. DualTypeOK
  BY <1>1, CommanderTypes DEF DualInit, DualTypeOK, CommandersInv, CheckRunStatus, Status
<1>3. \A r \in Runs : ~PendingItem(r)
  BY DEF DualInit, PendingItem
<1> QED  BY <1>1, <1>2, <1>3 DEF DualInv, RunInv

LEMMA DualSteps == DualInv /\ [DualNext]_dualVars => DualInv'
<1> SUFFICES ASSUME DualInv, [DualNext]_dualVars PROVE DualInv'
  OBVIOUS
<1>1. CASE UNCHANGED dualVars
  <2>1. UNCHANGED <<item, runItem, runRow, commander, itemCommands, tasks, resends, worker, lost>>
    BY <1>1 DEF dualVars
  <2> QED  BY <2>1 DEF DualInv, DualTypeOK, CommandersInv, RunInv, PendingItem
<1>2. ASSUME NEW s \in Commanders,
             \/ SubmitRequest(s) \/ AmendRequestItem(s) \/ CloseRequest(s)
             \/ Escalate(s) \/ RunRequestChecks(s)
             \/ \E target \in Status : TransitionRequest(s, target) \/ TransitionNotReady(s, target)
      PROVE  DualInv'
  BY <1>2, CommandsBegin
<1>3. ASSUME NEW s \in Commanders,
             \/ PutItem(s) \/ ApplySideEffects(s) \/ ScanRunItems(s)
             \/ PutRunItem(s) \/ InsertRunRow(s) \/ FailCommand(s)
      PROVE  DualInv'
  BY <1>3, ItemPut, EffectsApplied, ItemsScanned, RunItemPut, RowInserted, CommandFails
<1>4. CASE \E r \in Runs : Redeliver(r)
  BY <1>4, TaskRedelivered
<1>5. ASSUME NEW w \in Workers,
             \/ TakeTask(w) \/ LockRow(w) \/ CommitRun(w) \/ Raise(w)
             \/ RecordFailure(w) \/ PutOutcome(w) \/ FailWorker(w)
      PROVE  DualInv'
  BY <1>5, TaskTaken, ExecutionGoesOn, OutcomePut, WorkerFails
<1> QED  BY <1>1, <1>2, <1>3, <1>4, <1>5 DEF DualNext

LEMMA DualInvariant == DualSpec => []DualInv
BY DualStarts, DualSteps, PTL DEF DualSpec

\* The items, the rows, the handlers' remaining steps and the workers keep
\* their types.
THEOREM DualTypeCorrect == DualSpec => []DualTypeOK
<1>1. DualInv => DualTypeOK
  BY DEF DualInv
<1> QED  BY <1>1, DualInvariant, PTL

\* For any number of handlers, workers and runs: a check run whose item says
\* it is pending has a task, a worker or a handler, unless one of these was
\* lost on the way.
THEOREM PendingItemsHaveWork == DualSpec => []PendingItemHasWork
<1>1. DualInv => PendingItemHasWork
  BY DEF DualInv, RunInv, PendingItemHasWork
<1> QED  BY <1>1, DualInvariant, PTL

-----------------------------------------------------------------------------
(* Workflow engine: one handler at a time *)

\* What a handler has read of the execution is still so.
ExecutionCurrent ==
  /\ ~overtaken
  /\ \A h \in Handlers : handler[h].op # "idle" =>
       /\ handler[h].index = index /\ handler[h].status = status
       /\ handler[h].op = "advance" => status = "running"

LEMMA ExecutionStaysCurrent ==
  ASSUME \A g, h \in Handlers : g = h,
         IndexInv, ExecutionCurrent, [WorkflowNext]_workflowVars
  PROVE  ExecutionCurrent'
<1>1. Idle.op = "idle"
  BY DEF Idle
<1>2. ASSUME NEW h \in Handlers, handler' = [handler EXCEPT ![h] = Idle], ~overtaken'
      PROVE  ExecutionCurrent'
  <2>1. \A g \in Handlers : handler'[g].op = "idle"
    BY <1>1, <1>2 DEF IndexInv
  <2> QED  BY <1>2, <2>1 DEF ExecutionCurrent
<1>3. ASSUME NEW h \in Handlers, handler[h].op # "idle" PROVE ~Overtaken(h)
  BY <1>3 DEF ExecutionCurrent, Overtaken
<1>4. ASSUME NEW h \in Handlers, BeginAdvance(h) \/ BeginPause(h) \/ BeginResume(h) \/ BeginCancel(h)
      PROVE  ExecutionCurrent'
  <2>1. PICK op : Read(h, op) /\ (op = "advance" => status = "running")
    BY <1>4 DEF BeginAdvance, BeginPause, BeginResume, BeginCancel
  <2> DEFINE next == [op |-> op, status |-> status, index |-> index]
  <2>2. \A g \in Handlers : handler'[g] = next
    BY <2>1 DEF Read, IndexInv
  <2>3. UNCHANGED <<status, index, overtaken>>
    BY <2>1 DEF Read
  <2> QED  BY <2>1, <2>2, <2>3 DEF ExecutionCurrent
<1>5. ASSUME NEW h \in Handlers, CommitAdvance(h) \/ CommitCommand(h) PROVE ExecutionCurrent'
  <2>1. handler[h].op # "idle" /\ handler' = [handler EXCEPT ![h] = Idle]
        /\ overtaken' = (overtaken \/ Overtaken(h))
    BY <1>5 DEF CommitAdvance, CommitCommand, Commit
  <2> QED  BY <1>2, <1>3, <2>1 DEF ExecutionCurrent
<1>6. ASSUME NEW h \in Handlers, GiveUp(h) PROVE ExecutionCurrent'
  BY <1>2, <1>6 DEF GiveUp, ExecutionCurrent
<1>7. ASSUME NEW i \in Indexes, SkipStep(i) PROVE ExecutionCurrent'
  BY <1>7 DEF SkipStep, ExecutionCurrent
<1>8. CASE UNCHANGED workflowVars
  BY <1>8 DEF workflowVars, ExecutionCurrent
<1> QED  BY <1>4, <1>5, <1>6, <1>7, <1>8 DEF WorkflowNext

\* The exception of StepsInOrder takes two handlers: while one works at a
\* time, no operation is overtaken, and the steps stay in order whatever is
\* advanced, paused, resumed, canceled and skipped.
THEOREM OneHandlerOvertakesNothing ==
  ASSUME \A g, h \in Handlers : g = h
  PROVE  WorkflowSpec => [](~overtaken)
<1>1. WorkflowInit => WorkflowTypeOK /\ IndexInv /\ ExecutionCurrent
  <2>1. Idle.op = "idle"
    BY DEF Idle
  <2>2. WorkflowInit => ExecutionCurrent
    BY <2>1 DEF WorkflowInit, ExecutionCurrent
  <2> QED  BY <2>2, WorkflowStarts
<1>2. /\ WorkflowTypeOK /\ IndexInv /\ ExecutionCurrent /\ [WorkflowNext]_workflowVars
      => WorkflowTypeOK' /\ IndexInv' /\ ExecutionCurrent'
  BY WorkflowTypes, ExecutionStaysCurrent
<1>3. ExecutionCurrent => ~overtaken
  BY DEF ExecutionCurrent
<1> QED  BY <1>1, <1>2, <1>3, PTL DEF WorkflowSpec
=============================================================================
