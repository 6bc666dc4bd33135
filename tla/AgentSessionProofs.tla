------------------------- MODULE AgentSessionProofs -------------------------
(***************************************************************************)
(* What AgentSession guarantees for any number of clients, turns and       *)
(* crashes: its types, one turn at a time, completed sessions that are not *)
(* handed back, and, while no call commits on a stale row, an answered     *)
(* last message and flags that agree.                                      *)
(***************************************************************************)
EXTENDS AgentSession, TLAPS

Statuses == {"streaming", "waiting_on_human", "failed", "completed"}

CallRecords ==
  [pc : {"idle", "read", "counted", "refresh", "start"},
   kind : {"none", "post", "control", "complete", "govern", "turn"},
   status : Statuses, awaiting : BOOLEAN, count : 0..MaxTurns]

ThreadRecords ==
  [pc : {"none", "started", "streaming", "finishing", "ending"},
   reply : 0..MaxTurns, produced : BOOLEAN]

Started == [pc |-> "started", reply |-> 0, produced |-> FALSE]
Idle == [pc |-> "idle", kind |-> "none", status |-> "streaming",
         awaiting |-> FALSE, count |-> 0]

\* Starting a turn leaves the threads alone or, when no session is registered,
\* occupies one free slot.
LEMMA StartCases ==
  ASSUME StartTurn
  PROVE  \/ UNCHANGED <<thread, inflight>>
         \/ /\ ~inflight
            /\ inflight' = TRUE
            /\ \E k \in Threads :
                 thread[k].pc = "none" /\ thread' = [thread EXCEPT ![k] = Started]
BY DEF StartTurn, turning, FreeThread, NoThread, Started

\* A finishing or failing turn keeps the types of the row.
LEMMA HandBackType ==
  ASSUME TypeOK, NEW s \in {"waiting_on_human", "failed"}, HandBack(s)
  PROVE  status' \in Statuses /\ awaiting' \in BOOLEAN
BY DEF HandBack, TypeOK, Statuses

\* What a commit may write on the row.
LEMMA WriteRowType ==
  ASSUME TypeOK, NEW c \in Callers, NEW s \in {"streaming", "completed"}, WriteRow(c, s)
  PROVE  /\ status' \in Statuses
         /\ awaiting' \in BOOLEAN
         /\ stale' \in BOOLEAN
BY DEF WriteRow, TypeOK, Statuses

-----------------------------------------------------------------------------
(* Type correctness.                                                       *)

\* Starting a turn keeps the threads' types.
LEMMA StartType ==
  ASSUME thread \in [Threads -> ThreadRecords], inflight \in BOOLEAN, StartTurn
  PROVE  thread' \in [Threads -> ThreadRecords] /\ inflight' \in BOOLEAN
<1>1. Started \in ThreadRecords
  BY AgentAssumption DEF Started, ThreadRecords
<1>. QED
  BY <1>1, StartCases

\* The initial state has the right types.
LEMMA InitType == Init => TypeOK /\ CountedInv
<1>. SUFFICES ASSUME Init PROVE TypeOK /\ CountedInv
  OBVIOUS
<1>1. NoThread \in ThreadRecords
  BY AgentAssumption DEF NoThread, ThreadRecords
<1>2. thread \in [Threads -> ThreadRecords]
  BY <1>1 DEF Init
<1>3. PICK c \in Callers :
        call = [d \in Callers |->
          IF d = c THEN [NoCall EXCEPT !.pc = "refresh", !.kind = "turn"] ELSE NoCall]
  BY DEF Init
<1>4. NoCall \in CallRecords
  BY AgentAssumption DEF NoCall, CallRecords, Statuses
<1>8. [NoCall EXCEPT !.pc = "refresh", !.kind = "turn"] \in CallRecords
  BY <1>4 DEF CallRecords
<1>5. call \in [Callers -> CallRecords]
  BY <1>3, <1>4, <1>8
<1>6. CountedInv
  BY <1>3 DEF CountedInv, NoCall
<1>7. turns \in 1..MaxTurns /\ crashes \in 0..MaxCrashes
  BY AgentAssumption DEF Init
<1>. QED
  BY <1>2, <1>5, <1>6, <1>7 DEF Init, TypeOK, CallRecords, ThreadRecords, Statuses

\* Types are kept by the calls.
LEMMA CallStepType ==
  ASSUME TypeOK, CountedInv, NEW c \in Callers, CallStep(c)
  PROVE  TypeOK' /\ CountedInv'
<1>0. /\ call \in [Callers -> CallRecords]
      /\ thread \in [Threads -> ThreadRecords]
      /\ turns \in Nat /\ MaxTurns \in Nat
  BY AgentAssumption DEF TypeOK, CallRecords, ThreadRecords, Statuses
<1>i. NoCall \in CallRecords
  BY AgentAssumption DEF NoCall, CallRecords, Statuses
<1>g. ASSUME NEW pc \in {"refresh", "start"},
             NEW kind \in {"none", "post", "control", "complete", "govern", "turn"},
             GoesTo(c, pc, kind)
      PROVE  call' \in [Callers -> CallRecords] /\ CountedInv'
  <2>1. [NoCall EXCEPT !.pc = pc, !.kind = kind] \in CallRecords
    BY <1>i DEF NoCall, CallRecords
  <2>2. call' \in [Callers -> CallRecords]
    BY <1>0, <1>g, <2>1 DEF GoesTo
  <2>3. call' = [call EXCEPT ![c] = [NoCall EXCEPT !.pc = pc, !.kind = kind]]
    BY <1>g DEF GoesTo
  <2>4. [NoCall EXCEPT !.pc = pc, !.kind = kind].pc # "counted"
    BY DEF NoCall
  <2>5. CountedInv'
    BY <1>0, <2>3, <2>4 DEF CountedInv
  <2>. QED
    BY <2>2, <2>5
<1>e. ASSUME Ends(c)
      PROVE  call' \in [Callers -> CallRecords] /\ CountedInv'
  <2>1. NoCall.pc = "idle"
    BY DEF NoCall
  <2>2. call' = [call EXCEPT ![c] = NoCall]
    BY <1>e DEF Ends
  <2>. QED
    BY <1>0, <1>i, <2>1, <2>2 DEF CountedInv
<1>r. ASSUME NEW kind \in {"post", "control", "complete"}, ReadRow(c, kind)
      PROVE  TypeOK' /\ CountedInv'
  <2> DEFINE r == [pc |-> "read", kind |-> kind, status |-> status,
                   awaiting |-> awaiting, count |-> 0]
  <2>1. r \in CallRecords
    BY AgentAssumption DEF TypeOK, CallRecords, Statuses
  <2>2. r.pc # "counted"
    OBVIOUS
  <2>3. call' = [call EXCEPT ![c] = r]
    BY <1>r DEF ReadRow
  <2> HIDE DEF r
  <2>4. call' \in [Callers -> CallRecords] /\ CountedInv'
    BY <1>0, <2>1, <2>2, <2>3 DEF CountedInv
  <2>. QED
    BY <1>r, <2>4 DEF ReadRow, TypeOK, CallRecords, Statuses, database, turning
<1>1. CASE \/ PostMessage(c) \/ ResumeRuntime(c) \/ ApproveCheckpoint(c) \/ AcceptResponse(c)
  BY <1>1, <1>r DEF PostMessage, ResumeRuntime, ApproveCheckpoint, AcceptResponse
<1>2. CASE UpdateGovernance(c)
  BY <1>2, <1>g DEF UpdateGovernance, TypeOK, CallRecords, Statuses, database, turning
<1>3. CASE CountMessages(c)
  <2>1. turns \in 0..MaxTurns /\ turns < MaxTurns
    BY <1>0, <1>3 DEF CountMessages
  <2>2. call' = [call EXCEPT ![c] = [call[c] EXCEPT !.pc = "counted", !.count = turns]]
    BY <1>0, <1>3 DEF CountMessages, CallRecords
  <2> DEFINE r == [call[c] EXCEPT !.pc = "counted", !.count = turns]
  <2>3. r \in CallRecords /\ r.count = turns
    BY <1>0, <2>1 DEF CallRecords
  <2> HIDE DEF r
  <2>4. call' \in [Callers -> CallRecords]
    BY <1>0, <2>2, <2>3 DEF r
  <2>5. CountedInv'
    BY <1>0, <2>1, <2>2, <2>3 DEF CountedInv, r
  <2>. QED
    BY <1>3, <2>4, <2>5 DEF CountMessages, TypeOK, CallRecords, Statuses, database, turning
<1>4. CASE QueueTurn(c)
  <2>1. turns + 1 \in 1..MaxTurns
    BY <1>0, <1>4 DEF QueueTurn, CountedInv
  <2>2. reply' \in [1..MaxTurns -> {"none", "empty", "partial", "full"}]
    BY <1>4, <2>1 DEF QueueTurn, TypeOK
  <2>3. call' \in [Callers -> CallRecords] /\ CountedInv'
    BY <1>4, <1>g DEF QueueTurn
  <2>4. status' \in Statuses /\ awaiting' \in BOOLEAN /\ stale' \in BOOLEAN
    BY <1>4, WriteRowType DEF QueueTurn
  <2>5. request' \in {"awaiting_input", "resumed"}
    BY <1>4 DEF QueueTurn
  <2>. QED
    BY <1>4, <2>1, <2>2, <2>3, <2>4, <2>5
       DEF QueueTurn, TypeOK, CallRecords, Statuses, turning
<1>5. CASE QueueConflict(c)
  BY <1>5, <1>e DEF QueueConflict, TypeOK, CallRecords, Statuses, database, turning
<1>6. CASE CompleteSession(c)
  <2>1. status' \in Statuses /\ awaiting' \in BOOLEAN /\ stale' \in BOOLEAN
    BY <1>6, WriteRowType DEF CompleteSession
  <2>2. call' \in [Callers -> CallRecords] /\ CountedInv'
    BY <1>6, <1>e DEF CompleteSession
  <2>. QED
    BY <1>6, <2>1, <2>2 DEF CompleteSession, TypeOK, CallRecords, Statuses, turning
<1>7. CASE RefreshContext(c)
  <2>1. call' \in [Callers -> CallRecords] /\ CountedInv'
    BY <1>7, <1>g, <1>e DEF RefreshContext
  <2>. QED
    BY <1>7, <2>1 DEF RefreshContext, TypeOK, CallRecords, Statuses, database, turning
<1>8. CASE CallRaises(c)
  BY <1>8, <1>e DEF CallRaises, TypeOK, CallRecords, Statuses, database, turning
<1>9. CASE StartAfterCall(c)
  <2>1. thread' \in [Threads -> ThreadRecords] /\ inflight' \in BOOLEAN
    BY <1>0, <1>9, StartType DEF StartAfterCall, TypeOK
  <2>2. call' \in [Callers -> CallRecords] /\ CountedInv'
    BY <1>9, <1>e DEF StartAfterCall
  <2>. QED
    BY <1>9, <2>1, <2>2
       DEF StartAfterCall, TypeOK, CallRecords, ThreadRecords, Statuses, database
<1>. QED
  BY <1>1, <1>2, <1>3, <1>4, <1>5, <1>6, <1>7, <1>8, <1>9 DEF CallStep

\* Types are kept by the turns.
LEMMA TurnStepType ==
  ASSUME TypeOK, NEW k \in Threads, TurnStep(k)
  PROVE  TypeOK'
<1>0. /\ thread \in [Threads -> ThreadRecords]
      /\ turns \in 0..MaxTurns
  BY AgentAssumption DEF TypeOK, ThreadRecords
<1>1. CASE ReadTurn(k)
  <2>1. [thread[k] EXCEPT !.pc = "ending"] \in ThreadRecords
    BY <1>0 DEF ThreadRecords
  <2>2. [thread[k] EXCEPT !.pc = "streaming", !.reply = PendingReply] \in ThreadRecords
    BY <1>0 DEF ThreadRecords, PendingReply
  <2>3. thread' \in [Threads -> ThreadRecords]
    BY <1>0, <1>1, <2>1, <2>2 DEF ReadTurn
  <2>. QED
    BY <1>1, <2>3 DEF ReadTurn, TypeOK, ThreadRecords, database
<1>2. CASE StreamChunk(k)
  <2>1. thread' \in [Threads -> ThreadRecords]
    BY <1>0, <1>2 DEF StreamChunk, ThreadRecords
  <2>2. reply' \in [1..MaxTurns -> {"none", "empty", "partial", "full"}]
    BY <1>2 DEF StreamChunk, TypeOK
  <2>. QED
    BY <1>2, <2>1, <2>2 DEF StreamChunk, TypeOK, ThreadRecords
<1>3. CASE StreamLast(k)
  <2>1. thread' \in [Threads -> ThreadRecords]
    BY <1>0, <1>3 DEF StreamLast, ThreadRecords
  <2>2. reply' \in [1..MaxTurns -> {"none", "empty", "partial", "full"}]
    BY <1>3 DEF StreamLast, TypeOK
  <2>. QED
    BY <1>3, <2>1, <2>2 DEF StreamLast, TypeOK, ThreadRecords
<1>4. CASE FinishTurn(k) \/ FailTurn(k)
  <2>1. thread' \in [Threads -> ThreadRecords]
    BY <1>0, <1>4 DEF FinishTurn, FailTurn, ThreadRecords
  <2>2. status' \in Statuses /\ awaiting' \in BOOLEAN
    BY <1>4, HandBackType DEF FinishTurn, FailTurn
  <2>. QED
    BY <1>4, <2>1, <2>2 DEF FinishTurn, FailTurn, TypeOK, ThreadRecords, Statuses
<1>5. CASE EndTurn(k)
  <2>1. NoThread \in ThreadRecords
    BY AgentAssumption DEF NoThread, ThreadRecords
  <2>2. thread' \in [Threads -> ThreadRecords]
    BY <1>0, <1>5, <2>1 DEF EndTurn
  <2>. QED
    BY <1>5, <2>2 DEF EndTurn, TypeOK, ThreadRecords, database
<1>. QED
  BY <1>1, <1>2, <1>3, <1>4, <1>5 DEF TurnStep

\* Types are kept by every step.
LEMMA NextType ==
  ASSUME TypeOK, CountedInv, [Next]_vars
  PROVE  TypeOK' /\ CountedInv'
<1>0. /\ thread \in [Threads -> ThreadRecords]
      /\ inflight \in BOOLEAN
  BY DEF TypeOK, ThreadRecords
<1>1. CASE OpenStream
  <2>1. thread' \in [Threads -> ThreadRecords] /\ inflight' \in BOOLEAN
    BY <1>0, <1>1, StartType DEF OpenStream
  <2>. QED
    BY <1>1, <2>1 DEF OpenStream, TypeOK, CountedInv, ThreadRecords, database
<1>2. CASE \E c \in Callers : CallStep(c)
  BY <1>2, CallStepType
<1>3. ASSUME NEW k \in Threads, TurnStep(k)
      PROVE  TypeOK' /\ CountedInv'
  <2>1. call' = call
    BY <1>3 DEF TurnStep, ReadTurn, StreamChunk, StreamLast, FinishTurn, FailTurn, EndTurn
  <2>. QED
    BY <1>3, <2>1, TurnStepType DEF CountedInv
<1>4. CASE Crash
  <2>1. NoCall \in CallRecords /\ NoThread \in ThreadRecords
    BY AgentAssumption DEF NoCall, NoThread, CallRecords, ThreadRecords, Statuses
  <2>2. call' \in [Callers -> CallRecords] /\ thread' \in [Threads -> ThreadRecords]
    BY <1>4, <2>1 DEF Crash
  <2>3. CountedInv'
    BY <1>4 DEF Crash, CountedInv, NoCall
  <2>4. crashes' \in 0..MaxCrashes
    BY <1>4, AgentAssumption DEF Crash, TypeOK
  <2>. QED
    BY <1>4, <2>2, <2>3, <2>4
       DEF Crash, TypeOK, CallRecords, ThreadRecords, Statuses, database
<1>5. CASE UNCHANGED vars
  BY <1>5 DEF vars, database, turning, TypeOK, CountedInv
<1>. QED
  BY <1>1, <1>2, <1>3, <1>4, <1>5 DEF Next

\* TypeOK and the room for counted messages are invariants.
THEOREM TypeCorrect == Spec => [](TypeOK /\ CountedInv)
<1>. QED
  BY InitType, NextType, PTL DEF Spec

-----------------------------------------------------------------------------
(* One turn at a time.                                                     *)

\* The registered thread is the only one, after every step.
LEMMA NextRegistered ==
  ASSUME TypeOK, RegisteredInv, [Next]_vars
  PROVE  RegisteredInv'
<1>0. /\ thread \in [Threads -> ThreadRecords]
      /\ inflight \in BOOLEAN
  BY DEF TypeOK, ThreadRecords
<1>s. ASSUME StartTurn PROVE RegisteredInv'
  <2>1. CASE UNCHANGED <<thread, inflight>>
    BY <2>1 DEF RegisteredInv, OneTurnAtATime
  <2>2. ASSUME ~inflight, inflight' = TRUE, NEW k \in Threads,
               thread' = [thread EXCEPT ![k] = Started]
        PROVE  RegisteredInv'
    <3>1. \A l \in Threads : thread[l].pc = "none"
      BY <2>2 DEF RegisteredInv
    <3>2. \A l \in Threads : l # k => thread'[l].pc = "none"
      BY <1>0, <2>2, <3>1
    <3>. QED
      BY <2>2, <3>2 DEF RegisteredInv, OneTurnAtATime
  <2>. QED
    BY <1>s, <2>1, <2>2, StartCases
<1>1. CASE OpenStream
  BY <1>1, <1>s DEF OpenStream
<1>2. ASSUME NEW c \in Callers, CallStep(c)
      PROVE  RegisteredInv'
  <2>1. StartTurn \/ UNCHANGED <<thread, inflight>>
    BY <1>2 DEF CallStep, PostMessage, ResumeRuntime, ApproveCheckpoint, AcceptResponse,
                ReadRow, UpdateGovernance, CountMessages, QueueTurn, QueueConflict,
                CompleteSession, RefreshContext, CallRaises, StartAfterCall,
                turning
  <2>2. CASE UNCHANGED <<thread, inflight>>
    BY <2>2 DEF RegisteredInv, OneTurnAtATime
  <2>. QED
    BY <1>s, <2>1, <2>2
<1>3. ASSUME NEW k \in Threads, TurnStep(k)
      PROVE  RegisteredInv'
  <2>1. CASE EndTurn(k)
    <3>1. \A l \in Threads : thread'[l].pc = "none"
      BY <1>0, <2>1 DEF EndTurn, RegisteredInv, OneTurnAtATime, NoThread
    <3>. QED
      BY <3>1 DEF RegisteredInv, OneTurnAtATime
  <2>2. CASE ReadTurn(k) \/ StreamChunk(k) \/ StreamLast(k) \/ FinishTurn(k) \/ FailTurn(k)
    <3>1. inflight' = inflight /\ thread[k].pc # "none"
      BY <2>2 DEF ReadTurn, StreamChunk, StreamLast, FinishTurn, FailTurn
    <3>2. \A l \in Threads : l # k => thread'[l] = thread[l]
      BY <1>0, <2>2 DEF ReadTurn, StreamChunk, StreamLast, FinishTurn, FailTurn
    <3>. QED
      BY <3>1, <3>2 DEF RegisteredInv, OneTurnAtATime
  <2>. QED
    BY <1>3, <2>1, <2>2 DEF TurnStep
<1>4. CASE Crash
  BY <1>4 DEF Crash, RegisteredInv, OneTurnAtATime, NoThread
<1>5. CASE UNCHANGED vars
  BY <1>5 DEF vars, turning, RegisteredInv, OneTurnAtATime
<1>. QED
  BY <1>1, <1>2, <1>3, <1>4, <1>5 DEF Next

\* However many calls and pages start turns, one thread executes them.
THEOREM OneTurnHolds == Spec => []OneTurnAtATime
<1>1. Init => RegisteredInv
  BY DEF Init, NoThread, RegisteredInv, OneTurnAtATime
<1>2. TypeOK /\ RegisteredInv /\ [Next]_vars => RegisteredInv'
  BY NextRegistered
<1>3. RegisteredInv => OneTurnAtATime
  BY DEF RegisteredInv
<1>. QED
  BY <1>1, <1>2, <1>3, TypeCorrect, PTL DEF Spec

-----------------------------------------------------------------------------
(* What the commits and the conditional updates do to the row.             *)

\* The calls and pages that do not commit on the row leave it alone; the two
\* that do write it as WriteRow says.
LEMMA CallWrites ==
  ASSUME NEW c \in Callers, CallStep(c)
  PROVE  \/ QueueTurn(c)
         \/ CompleteSession(c)
         \/ UNCHANGED <<database, stale>>
BY DEF CallStep, PostMessage, ResumeRuntime, ApproveCheckpoint, AcceptResponse, ReadRow,
       UpdateGovernance, CountMessages, QueueConflict, RefreshContext,
       CallRaises, StartAfterCall

\* Starting a turn does not touch a thread that works.
LEMMA StartKeepsThreads ==
  ASSUME TypeOK, StartTurn
  PROVE  \A l \in Threads : thread'[l].pc \in {"streaming", "finishing"} => thread'[l] = thread[l]
<1>0. thread \in [Threads -> ThreadRecords]
  BY DEF TypeOK, ThreadRecords
<1>1. ASSUME NEW k \in Threads, thread' = [thread EXCEPT ![k] = Started]
      PROVE  \A l \in Threads :
               thread'[l].pc \in {"streaming", "finishing"} => thread'[l] = thread[l]
  BY <1>0, <1>1 DEF Started
<1>. QED
  BY <1>1, StartCases

\* Calls do not touch a thread that works; at most they start one.
LEMMA CallThreads ==
  ASSUME TypeOK, NEW c \in Callers, CallStep(c)
  PROVE  \A k \in Threads : thread'[k].pc \in {"streaming", "finishing"} => thread'[k] = thread[k]
<1>1. StartTurn \/ UNCHANGED thread
  BY DEF CallStep, PostMessage, ResumeRuntime, ApproveCheckpoint, AcceptResponse, ReadRow,
         UpdateGovernance, CountMessages, QueueTurn, QueueConflict, CompleteSession,
         RefreshContext, CallRaises, StartAfterCall, turning
<1>. QED
  BY <1>1, StartKeepsThreads

\* No turn hands a completed session back, whatever has been completed under it.
THEOREM CompletedStays == Spec => CompletedNotHandedBack
<1>1. ASSUME TypeOK, [Next]_vars
      PROVE  [status = "completed" => status' \in {"completed", "streaming"}]_status
  <2>1. CASE OpenStream
    BY <2>1 DEF OpenStream, database
  <2>2. ASSUME NEW c \in Callers, CallStep(c)
        PROVE  [status = "completed" => status' \in {"completed", "streaming"}]_status
    BY <2>2, CallWrites DEF QueueTurn, CompleteSession, WriteRow, database
  <2>3. ASSUME NEW k \in Threads, TurnStep(k)
        PROVE  [status = "completed" => status' \in {"completed", "streaming"}]_status
    BY <2>3 DEF TurnStep, ReadTurn, StreamChunk, StreamLast, FinishTurn, FailTurn, EndTurn,
                HandBack, database
  <2>4. CASE Crash \/ UNCHANGED vars
    BY <2>4 DEF Crash, vars, database
  <2>. QED
    BY <1>1, <2>1, <2>2, <2>3, <2>4 DEF Next
<1>. QED
  BY <1>1, TypeCorrect, PTL DEF Spec, CompletedNotHandedBack

-----------------------------------------------------------------------------
(* Quiet sessions: no call has committed on a stale row.                   *)

\* A commit that is not stale read the row as it is, at rest.
LEMMA QuietWrite ==
  ASSUME TypeOK, NEW c \in Callers, NEW s \in {"streaming", "completed"},
         WriteRow(c, s), ~stale'
  PROVE  /\ ~stale
         /\ status # "streaming"
         /\ status' = s
         /\ awaiting' = FALSE
<1>1. /\ ~stale /\ call[c].status # "streaming"
      /\ call[c].status = status /\ call[c].awaiting = awaiting
  BY DEF WriteRow
<1>2. awaiting \in BOOLEAN
  BY DEF TypeOK
<1>. QED
  BY <1>1, <1>2 DEF WriteRow

\* The flags of a quiet session agree, after every step.
LEMMA NextFlags ==
  ASSUME TypeOK, FlagsAgree, [Next]_vars
  PROVE  FlagsAgree'
<1>1. CASE OpenStream
  BY <1>1 DEF OpenStream, database, FlagsAgree
<1>2. ASSUME NEW c \in Callers, CallStep(c)
      PROVE  FlagsAgree'
  <2>1. CASE QueueTurn(c)
    BY <2>1, QuietWrite DEF QueueTurn, FlagsAgree
  <2>2. CASE CompleteSession(c)
    BY <2>2, QuietWrite DEF CompleteSession, FlagsAgree
  <2>3. CASE UNCHANGED <<database, stale>>
    BY <2>3 DEF database, FlagsAgree
  <2>. QED
    BY <1>2, <2>1, <2>2, <2>3, CallWrites
<1>3. ASSUME NEW k \in Threads, TurnStep(k)
      PROVE  FlagsAgree'
  <2>1. CASE FinishTurn(k) \/ FailTurn(k)
    BY <2>1 DEF FinishTurn, FailTurn, HandBack, FlagsAgree
  <2>2. CASE ReadTurn(k) \/ StreamChunk(k) \/ StreamLast(k) \/ EndTurn(k)
    BY <2>2 DEF ReadTurn, StreamChunk, StreamLast, EndTurn, database, FlagsAgree
  <2>. QED
    BY <1>3, <2>1, <2>2 DEF TurnStep
<1>4. CASE Crash \/ UNCHANGED vars
  BY <1>4 DEF Crash, vars, database, FlagsAgree
<1>. QED
  BY <1>1, <1>2, <1>3, <1>4 DEF Next

\* What the page offers agrees with the turn, while no commit is stale.
THEOREM FlagsAlwaysAgree == Spec => []FlagsAgree
<1>1. Init => FlagsAgree
  BY DEF Init, FlagsAgree
<1>2. TypeOK /\ FlagsAgree /\ [Next]_vars => FlagsAgree'
  BY NextFlags
<1>. QED
  BY <1>1, <1>2, TypeCorrect, PTL DEF Spec

\* The turn of a quiet session works on its last message, after every step.
LEMMA NextTurn ==
  ASSUME TypeOK, RegisteredInv, TurnInv, [Next]_vars
  PROVE  TurnInv'
<1>0. /\ thread \in [Threads -> ThreadRecords]
      /\ turns \in 1..MaxTurns
      /\ reply \in [1..MaxTurns -> {"none", "empty", "partial", "full"}]
      /\ stale \in BOOLEAN
  BY DEF TypeOK, ThreadRecords
<1>1. CASE OpenStream
  <2>1. \A k \in Threads :
           thread'[k].pc \in {"streaming", "finishing"} => thread'[k] = thread[k]
    BY <1>1, StartKeepsThreads DEF OpenStream
  <2>. QED
    BY <1>1, <2>1 DEF OpenStream, database, TurnInv, LastMessageAnswered
<1>2. ASSUME NEW c \in Callers, CallStep(c)
      PROVE  TurnInv'
  <2>1. ASSUME NEW s \in {"streaming", "completed"}, WriteRow(c, s)
        PROVE  TurnInv'
    <3>1. SUFFICES ASSUME ~stale' PROVE TurnInv'
      BY DEF TurnInv, LastMessageAnswered
    <3>2. /\ ~stale /\ status # "streaming" /\ status' = s
      BY <2>1, <3>1, QuietWrite
    <3>3. \A k \in Threads : thread[k].pc \notin {"streaming", "finishing"}
      BY <3>2 DEF TurnInv
    <3>4. \A k \in Threads : thread'[k].pc \notin {"streaming", "finishing"}
      BY <1>2, <3>3, CallThreads
    <3>. QED
      BY <3>2, <3>4 DEF TurnInv, LastMessageAnswered
  <2>2. CASE UNCHANGED <<database, stale>>
    BY <1>2, <2>2, CallThreads DEF database, TurnInv, LastMessageAnswered
  <2>. QED
    BY <1>2, <2>1, <2>2, CallWrites DEF QueueTurn, CompleteSession
<1>3. ASSUME NEW k \in Threads, TurnStep(k)
      PROVE  TurnInv'
  <2>0. /\ thread[k].pc # "none"
        /\ \A l \in Threads : l # k => thread[l].pc = "none" /\ thread'[l] = thread[l]
    BY <1>0, <1>3 DEF TurnStep, ReadTurn, StreamChunk, StreamLast, FinishTurn, FailTurn,
                      EndTurn, RegisteredInv, OneTurnAtATime
  <2>1. CASE ReadTurn(k)
    <3>1. /\ thread'[k].pc \in {"streaming", "finishing"} =>
               status = "streaming" /\ thread'[k].reply = turns /\ thread'[k].pc = "streaming"
      BY <1>0, <2>1 DEF ReadTurn, PendingReply, ThreadRecords
    <3>. QED
      BY <2>0, <2>1, <3>1 DEF ReadTurn, database, TurnInv, LastMessageAnswered
  <2>2. CASE StreamChunk(k)
    <3>1. thread'[k].reply = thread[k].reply /\ thread'[k].pc = "streaming"
      BY <1>0, <2>2 DEF StreamChunk, ThreadRecords
    <3>2. ~stale => status = "streaming" /\ thread[k].reply = turns
      BY <2>2 DEF StreamChunk, TurnInv
    <3>. QED
      BY <2>0, <2>2, <3>1, <3>2 DEF StreamChunk, TurnInv, LastMessageAnswered
  <2>3. CASE StreamLast(k)
    <3>1. thread'[k].reply = thread[k].reply
      BY <1>0, <2>3 DEF StreamLast, ThreadRecords
    <3>2. ~stale => status = "streaming" /\ thread[k].reply = turns
      BY <2>3 DEF StreamLast, TurnInv
    <3>3. ~stale => reply'[turns] = "full"
      BY <1>0, <2>3, <3>2 DEF StreamLast
    <3>. QED
      BY <2>0, <2>3, <3>1, <3>2, <3>3 DEF StreamLast, TurnInv, LastMessageAnswered
  <2>4. CASE FinishTurn(k) \/ FailTurn(k)
    <3>1. thread'[k].pc = "ending"
      BY <1>0, <2>4 DEF FinishTurn, FailTurn, ThreadRecords
    <3>2. \A l \in Threads : thread'[l].pc \notin {"streaming", "finishing"}
      BY <2>0, <3>1
    <3>3. UNCHANGED <<turns, reply, stale>>
      BY <2>4 DEF FinishTurn, FailTurn
    <3>4. status' = "waiting_on_human" /\ ~stale => reply[turns] = "full"
      BY <2>4 DEF FinishTurn, FailTurn, HandBack, TurnInv, LastMessageAnswered
    <3>. QED
      BY <3>2, <3>3, <3>4 DEF TurnInv, LastMessageAnswered
  <2>5. CASE EndTurn(k)
    <3>1. thread'[k].pc = "none"
      BY <1>0, <2>5 DEF EndTurn, NoThread
    <3>. QED
      BY <2>0, <2>5, <3>1 DEF EndTurn, database, TurnInv, LastMessageAnswered
  <2>. QED
    BY <1>3, <2>1, <2>2, <2>3, <2>4, <2>5 DEF TurnStep
<1>4. CASE Crash
  BY <1>4 DEF Crash, NoThread, database, TurnInv, LastMessageAnswered
<1>5. CASE UNCHANGED vars
  BY <1>5 DEF vars, database, turning, TurnInv, LastMessageAnswered
<1>. QED
  BY <1>1, <1>2, <1>3, <1>4, <1>5 DEF Next

\* When the human's turn comes the last message has its whole answer, while no
\* commit is stale.
THEOREM LastMessageIsAnswered == Spec => []LastMessageAnswered
<1>1. Init => RegisteredInv /\ TurnInv
  BY DEF Init, NoThread, RegisteredInv, OneTurnAtATime, TurnInv, LastMessageAnswered
<1>2. TypeOK /\ RegisteredInv /\ TurnInv /\ [Next]_vars => RegisteredInv' /\ TurnInv'
  BY NextRegistered, NextTurn
<1>3. TurnInv => LastMessageAnswered
  BY DEF TurnInv
<1>. QED
  BY <1>1, <1>2, <1>3, TypeCorrect, PTL DEF Spec
=============================================================================
