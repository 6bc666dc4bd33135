---------------------------- MODULE AgentSession ----------------------------
(***************************************************************************)
(* One interactive agent session of a request: the API calls that queue    *)
(* turns, change its governance or complete it, the thread that streams    *)
(* the agent's reply, and the page that watches the stream.  Every call    *)
(* reads the session row, works, and commits; SQLAlchemy writes only the   *)
(* columns whose value differs from the one read, nothing is locked, and   *)
(* two inserted messages with the same number conflict.                    *)
(***************************************************************************)
EXTENDS Integers

CONSTANTS
  Callers,      \* clients of the API, each with one call at a time
  MaxThreads,   \* bound on the turn threads that exist at once
  MaxTurns,     \* bound on the human messages of the session
  MaxCrashes    \* bound on crashes of the API process

ASSUME AgentAssumption ==
  MaxThreads \in Nat \ {0} /\ MaxTurns \in Nat \ {0} /\ MaxCrashes \in Nat

Threads == 1..MaxThreads

VARIABLES
  governed,  \* the integration is an sbcl-agent runtime (never changes)
  status,    \* agent_sessions.status
  awaiting,  \* agent_sessions.awaiting_human
  turns,     \* human messages, each followed by a reply of the agent
  reply,     \* body of the reply to each human message
  request,   \* status of the request: paused for the session, or resumed
  call,      \* what each client is doing
  thread,    \* the turn threads
  inflight,  \* the session is in _agent_stream_inflight
  crashes,
  stale      \* a call committed on a session row that was not, or is no
             \* longer, at rest as the call read it

database == <<governed, status, awaiting, turns, reply, request>>
turning == <<thread, inflight>>
vars == <<database, call, turning, crashes, stale>>

NoCall == [pc |-> "idle", kind |-> "none", status |-> "streaming",
           awaiting |-> FALSE, count |-> 0]
NoThread == [pc |-> "none", reply |-> 0, produced |-> FALSE]

\* The commit of assign_agent_session: kickoff message and empty reply are
\* there, the assigning client is about to refresh the context.
Init ==
  /\ governed \in BOOLEAN
  /\ status = "streaming"
  /\ awaiting = FALSE
  /\ turns = 1
  /\ reply = [i \in 1..MaxTurns |-> IF i = 1 THEN "empty" ELSE "none"]
  /\ request = "awaiting_input"
  /\ \E c \in Callers :
        call = [d \in Callers |->
          IF d = c THEN [NoCall EXCEPT !.pc = "refresh", !.kind = "turn"] ELSE NoCall]
  /\ thread = [k \in Threads |-> NoThread]
  /\ inflight = FALSE
  /\ crashes = 0
  /\ stale = FALSE

-----------------------------------------------------------------------------
(* Starting a turn.                                                        *)

FreeThread(k) == thread[k].pc = "none" /\ \A l \in 1..(k - 1) : thread[l].pc # "none"

\* Faulty variant: the registered sessions are not looked at.
StartTurn_always ==
  /\ inflight' = TRUE
  /\ \E k \in Threads :
       FreeThread(k) /\ thread' = [thread EXCEPT ![k] = [NoThread EXCEPT !.pc = "started"]]

\* _start_agent_session_turn_async: nothing while a thread is registered.
StartTurn ==
  IF inflight
  THEN UNCHANGED turning
  ELSE /\ inflight' = TRUE
       /\ \E k \in Threads :
            FreeThread(k) /\ thread' = [thread EXCEPT ![k] = [NoThread EXCEPT !.pc = "started"]]

\* stream_agent_session_response, for a page that shows a streaming session.
OpenStream ==
  /\ status = "streaming"
  /\ StartTurn
  /\ UNCHANGED <<database, call, crashes, stale>>

-----------------------------------------------------------------------------
(* The API calls.                                                          *)

Ends(c) == call' = [call EXCEPT ![c] = NoCall]
GoesTo(c, pc, kind) == call' = [call EXCEPT ![c] = [NoCall EXCEPT !.pc = pc, !.kind = kind]]

\* The row as a call reads it.
ReadRow(c, kind) ==
  /\ call[c].pc = "idle"
  /\ call' = [call EXCEPT ![c] =
       [pc |-> "read", kind |-> kind, status |-> status, awaiting |-> awaiting, count |-> 0]]
  /\ UNCHANGED <<database, turning, crashes, stale>>

\* A message may be posted while a reply is streaming.
PostMessage(c) == ReadRow(c, "post")

ResumeRuntime(c) == governed /\ status # "streaming" /\ ReadRow(c, "control")

ApproveCheckpoint(c) == governed /\ status # "streaming" /\ ReadRow(c, "control")

AcceptResponse(c) == status # "streaming" /\ ReadRow(c, "complete")

\* update_agent_session_governance: commits columns that nothing here reads.
UpdateGovernance(c) ==
  /\ call[c].pc = "idle"
  /\ GoesTo(c, "refresh", "govern")
  /\ UNCHANGED <<database, turning, crashes, stale>>

\* The messages are counted; a control call has called the runtime before.
CountMessages(c) ==
  /\ call[c].pc = "read"
  /\ call[c].kind \in {"post", "control"}
  /\ turns < MaxTurns
  /\ call' = [call EXCEPT ![c].pc = "counted", ![c].count = turns]
  /\ UNCHANGED <<database, turning, crashes, stale>>

\* Faulty variant: the flag is not reset.
WriteRow_keepsFlag(c, newStatus) ==
  /\ status' = IF call[c].status = newStatus THEN status ELSE newStatus
  /\ stale' = (stale \/ call[c].status = "streaming"
                     \/ call[c].status # status \/ call[c].awaiting # awaiting)
  /\ UNCHANGED awaiting

\* Status and flag as a commit writes them: only if they change what it read.
WriteRow(c, newStatus) ==
  /\ status' = IF call[c].status = newStatus THEN status ELSE newStatus
  /\ awaiting' = (awaiting /\ ~call[c].awaiting)
  /\ stale' = (stale \/ call[c].status = "streaming"
                     \/ call[c].status # status \/ call[c].awaiting # awaiting)

\* The commit of post_agent_session_message, and of resume and approve
\* through _queue_agent_session_turn.
QueueTurn(c) ==
  /\ call[c].pc = "counted"
  /\ call[c].count = turns
  /\ turns' = turns + 1
  /\ reply' = [reply EXCEPT ![turns + 1] = "empty"]
  /\ WriteRow(c, "streaming")
  /\ request' = IF call[c].kind = "post" THEN "awaiting_input" ELSE "resumed"
  /\ GoesTo(c, "refresh", "turn")
  /\ UNCHANGED <<governed, turning, crashes>>

\* Another call has inserted messages with these numbers.
QueueConflict(c) ==
  /\ call[c].pc = "counted"
  /\ call[c].count # turns
  /\ Ends(c)
  /\ UNCHANGED <<database, turning, crashes, stale>>

CompleteSession(c) ==
  /\ call[c].pc = "read"
  /\ call[c].kind = "complete"
  /\ WriteRow(c, "completed")
  /\ request' = "resumed"
  /\ Ends(c)
  /\ UNCHANGED <<governed, turns, reply, turning, crashes>>

\* _refresh_agent_session_context, which commits a context bundle of its own.
RefreshContext(c) ==
  /\ call[c].pc = "refresh"
  /\ IF call[c].kind = "govern" THEN Ends(c) ELSE GoesTo(c, "start", "turn")
  /\ UNCHANGED <<database, turning, crashes, stale>>

\* A statement before the commit, the runtime call of a control call, or
\* the refresh after the commit, raises.
CallRaises(c) ==
  /\ call[c].pc \in {"read", "refresh"}
  /\ Ends(c)
  /\ UNCHANGED <<database, turning, crashes, stale>>

StartAfterCall(c) ==
  /\ call[c].pc = "start"
  /\ StartTurn
  /\ Ends(c)
  /\ UNCHANGED <<database, crashes, stale>>

-----------------------------------------------------------------------------
(* _runner and _execute_agent_session_turn, in the turn's thread.          *)

\* Faulty variant: the oldest reply that is not complete.
PendingReply_oldest ==
  CHOOSE i \in 1..turns : \A j \in 1..turns :
    (reply[j] # "full" => i <= j) /\ (reply[i] # "full" \/ \A h \in 1..turns : reply[h] = "full")

\* The last message of the agent.
PendingReply == turns

ReadTurn(k) ==
  /\ thread[k].pc = "started"
  /\ thread' = [thread EXCEPT ![k] =
       IF status # "streaming" THEN [@ EXCEPT !.pc = "ending"]
       ELSE [@ EXCEPT !.pc = "streaming", !.reply = PendingReply]]
  /\ UNCHANGED <<database, call, inflight, crashes, stale>>

\* What a provider's stream may do next: it ends only with a text.
StreamItems(produced) ==
  IF produced THEN {"chunk", "last", "error"} ELSE {"chunk", "error"}

\* A chunk is committed as the body so far; a governed runtime answers at once.
StreamChunk(k) ==
  /\ thread[k].pc = "streaming"
  /\ ~governed
  /\ "chunk" \in StreamItems(thread[k].produced)
  /\ reply' = [reply EXCEPT ![thread[k].reply] = "partial"]
  /\ thread' = [thread EXCEPT ![k].produced = TRUE]
  /\ UNCHANGED <<governed, status, awaiting, turns, request, call, inflight,
                 crashes, stale>>

StreamLast(k) ==
  /\ thread[k].pc = "streaming"
  /\ governed \/ "last" \in StreamItems(thread[k].produced)
  /\ reply' = [reply EXCEPT ![thread[k].reply] = "full"]
  /\ thread' = [thread EXCEPT ![k].pc = "finishing"]
  /\ UNCHANGED <<governed, status, awaiting, turns, request, call, inflight,
                 crashes, stale>>

\* Faulty variant: the update does not look at the status.
HandBack_always(newStatus) ==
  /\ status' = newStatus
  /\ awaiting' = TRUE

\* The conditional UPDATE ... WHERE status = 'streaming' at the end of a turn.
HandBack(newStatus) ==
  IF status = "streaming"
  THEN status' = newStatus /\ awaiting' = TRUE
  ELSE UNCHANGED <<status, awaiting>>

FinishTurn(k) ==
  /\ thread[k].pc = "finishing"
  /\ HandBack("waiting_on_human")
  /\ thread' = [thread EXCEPT ![k].pc = "ending"]
  /\ UNCHANGED <<governed, turns, reply, request, call, inflight, crashes, stale>>

\* Faulty variant: a status the clients do not know.
FailTurn_spelling(k) ==
  /\ thread[k].pc \in {"started", "streaming", "finishing"}
  /\ HandBack("error")
  /\ thread' = [thread EXCEPT ![k].pc = "ending"]
  /\ UNCHANGED <<governed, turns, reply, request, call, inflight, crashes, stale>>

FailTurn(k) ==
  /\ thread[k].pc \in {"started", "streaming", "finishing"}
  /\ HandBack("failed")
  /\ thread' = [thread EXCEPT ![k].pc = "ending"]
  /\ UNCHANGED <<governed, turns, reply, request, call, inflight, crashes, stale>>

\* Faulty variant: the registration is not removed.
EndTurn_registered(k) ==
  /\ thread[k].pc = "ending"
  /\ thread' = [thread EXCEPT ![k] = NoThread]
  /\ UNCHANGED <<database, call, inflight, crashes, stale>>

\* The finally block of _runner.
EndTurn(k) ==
  /\ thread[k].pc = "ending"
  /\ inflight' = FALSE
  /\ thread' = [thread EXCEPT ![k] = NoThread]
  /\ UNCHANGED <<database, call, crashes, stale>>

\* The API process dies: calls in progress roll back, daemon threads vanish.
Crash ==
  /\ crashes < MaxCrashes
  /\ crashes' = crashes + 1
  /\ call' = [c \in Callers |-> NoCall]
  /\ thread' = [k \in Threads |-> NoThread]
  /\ inflight' = FALSE
  /\ UNCHANGED <<database, stale>>

-----------------------------------------------------------------------------
CallStep(c) ==
  \/ PostMessage(c)
  \/ ResumeRuntime(c)
  \/ ApproveCheckpoint(c)
  \/ AcceptResponse(c)
  \/ UpdateGovernance(c)
  \/ CountMessages(c)
  \/ QueueTurn(c)
  \/ QueueConflict(c)
  \/ CompleteSession(c)
  \/ RefreshContext(c)
  \/ CallRaises(c)
  \/ StartAfterCall(c)

TurnStep(k) ==
  \/ ReadTurn(k)
  \/ StreamChunk(k)
  \/ StreamLast(k)
  \/ FinishTurn(k)
  \/ FailTurn(k)
  \/ EndTurn(k)

Next ==
  \/ OpenStream
  \/ \E c \in Callers : CallStep(c)
  \/ \E k \in Threads : TurnStep(k)
  \/ Crash

\* Threads are scheduled, a provider's stream does not go on for ever, and the
\* page is opened again while it shows a streaming session.
Fairness ==
  /\ \A k \in Threads : /\ WF_vars(ReadTurn(k))
                        /\ WF_vars(StreamLast(k) \/ FailTurn(k))
                        /\ WF_vars(FinishTurn(k))
                        /\ WF_vars(EndTurn(k))
  /\ WF_vars(OpenStream)

Spec == Init /\ [][Next]_vars
FairSpec == Spec /\ Fairness

-----------------------------------------------------------------------------
(* Properties.                                                             *)

\* Types of all variables.
TypeOK ==
  /\ governed \in BOOLEAN
  /\ status \in {"streaming", "waiting_on_human", "failed", "completed"}
  /\ awaiting \in BOOLEAN
  /\ turns \in 1..MaxTurns
  /\ reply \in [1..MaxTurns -> {"none", "empty", "partial", "full"}]
  /\ request \in {"awaiting_input", "resumed"}
  /\ call \in [Callers ->
       [pc : {"idle", "read", "counted", "refresh", "start"},
        kind : {"none", "post", "control", "complete", "govern", "turn"},
        status : {"streaming", "waiting_on_human", "failed", "completed"},
        awaiting : BOOLEAN, count : 0..MaxTurns]]
  /\ thread \in [Threads ->
       [pc : {"none", "started", "streaming", "finishing", "ending"},
        reply : 0..MaxTurns, produced : BOOLEAN]]
  /\ inflight \in BOOLEAN
  /\ crashes \in 0..MaxCrashes
  /\ stale \in BOOLEAN

\* Two threads never execute turns of the session at once, whoever starts them
\* (posts, resumptions, any number of pages opened on the stream).
OneTurnAtATime ==
  \A k, l \in Threads : k # l => thread[k].pc = "none" \/ thread[l].pc = "none"

\* A turn that is still being streamed when its session is completed does not
\* hand it back to the human: only another call reopens a completed session.
CompletedNotHandedBack ==
  [][status = "completed" => status' \in {"completed", "streaming"}]_status

\* When the human's turn comes, the last message has its whole answer, unless
\* a call committed on a session that was streaming or that changed under it
\* (then the message may stay unanswered: see the README).
LastMessageAnswered ==
  status = "waiting_on_human" /\ ~stale => reply[turns] = "full"

\* The page offers "accept" and "your turn" exactly when a turn has ended, and a
\* completed session has released its request, with the same exception.
FlagsAgree ==
  ~stale =>
    /\ awaiting <=> status \in {"waiting_on_human", "failed"}
    /\ status = "completed" => request = "resumed"

\* No session streams for ever while someone looks at it, even if the call that
\* queued the turn failed to start it, a thread was still registered for the
\* turn before, or the process crashed.
StreamingEnds == status = "streaming" ~> status # "streaming"

-----------------------------------------------------------------------------
(* Strengthenings that are inductive (given TypeOK); AgentSessionProofs      *)
(* proves them.                                                            *)

\* There is room for the messages a call is about to insert.
CountedInv == \A c \in Callers : call[c].pc = "counted" => call[c].count < MaxTurns

\* A thread that exists is the registered one.
RegisteredInv ==
  /\ \A k \in Threads : thread[k].pc # "none" => inflight
  /\ OneTurnAtATime

\* As long as no call has committed on a stale row, a turn that is being
\* streamed is the turn of a streaming session's last message.
TurnInv ==
  /\ LastMessageAnswered
  /\ ~stale => \A k \in Threads : thread[k].pc \in {"streaming", "finishing"} =>
       /\ status = "streaming"
       /\ thread[k].reply = turns
       /\ thread[k].pc = "finishing" => reply[turns] = "full"
=============================================================================
