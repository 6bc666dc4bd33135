----------------------------- MODULE RuntimeRun -----------------------------
(***************************************************************************)
(* A run between governance and the runtime: operator commands             *)
(* (command_run) and the runtime's callbacks (reconcile_run), which it     *)
(* repeats until one is answered and which may arrive in any order.        *)
(*                                                                         *)
(* A handler reads the run and its request, a command then calls the       *)
(* runtime, and the columns that differ from what was read are written at  *)
(* the commit.  Nothing is locked in between; only the event id of a       *)
(* signal is unique.                                                       *)
(***************************************************************************)
EXTENDS Naturals

CONSTANTS
  Events,       \* ids of the events the runtime reports
  Sessions,     \* handlers that work at the same time
  MaxCalls      \* bound: commands and callbacks begun in all

VARIABLES
  run,          \* runs.status
  request,      \* requests.status
  reports,      \* the run status each event reports
  signals,      \* ids with a row in runtime_signals
  dispatches,   \* rows in runtime_dispatches
  session,      \* what each handler has read and how far it is
  calls,
  told,         \* history: dispatches the runtime accepted
  applied,      \* history: how often each event's effect was committed
  acked,        \* history: events a callback was answered for
  closing,      \* history: how the runtime or Cancel Run last ended the
                \*   request, if nothing in governance has moved it since
  runOvertaken     \* history: a request column decided on an outdated read

runtimeVars == <<run, request, reports, signals, dispatches, session, calls,
                 told, applied, acked, closing, runOvertaken>>
historyVars == <<told, applied, acked, closing, runOvertaken>>

-----------------------------------------------------------------------------
RunStatus == {"queued", "running", "waiting", "failed", "completed", "paused"}
RequestStatus == {"queued", "in_execution", "completed", "failed", "elsewhere"}
Commands == {"Pause", "Resume", "Retry Step", "Cancel Run"}
Resting == [at |-> "idle"]
Work ==
  [at: {"read", "told"}, op: Commands, run: RunStatus, request: RequestStatus]
    \union [at: {"read"}, op: Events, run: RunStatus, request: RequestStatus]

RuntimeTypeOK ==
  /\ run \in RunStatus
  /\ request \in RequestStatus
  /\ reports \in [Events -> RunStatus]
  /\ signals \subseteq Events
  /\ session \in [Sessions -> Work \union {Resting}]
  /\ calls \in Nat
  /\ dispatches \in Nat /\ told \in Nat
  /\ applied \in [Events -> Nat]
  /\ acked \subseteq Events
  /\ closing \in {"none", "completed", "failed"}
  /\ runOvertaken \in BOOLEAN

\* _ensure_run_for_request, for a request that enters the queue
RuntimeInit ==
  /\ run = "queued"
  /\ request = "queued"
  /\ reports \in [Events -> {"running", "failed", "completed"}]
  /\ signals = {}
  /\ dispatches = 0
  /\ session = [s \in Sessions |-> Resting]
  /\ calls = 0
  /\ told = 0
  /\ applied = [e \in Events |-> 0]
  /\ acked = {}
  /\ closing = "none"
  /\ runOvertaken = FALSE

-----------------------------------------------------------------------------
\* an UPDATE leaves out a column that is assigned what was read
Column(old, read, want) == IF want = read THEN old ELSE want

Free(s) == session' = [session EXCEPT ![s] = Resting]

Begin(s, op) ==
  /\ session[s] = Resting
  /\ calls < MaxCalls
  /\ calls' = calls + 1
  /\ session' = [session EXCEPT ![s] =
       [at |-> "read", op |-> op, run |-> run, request |-> request]]
  /\ UNCHANGED <<run, request, reports, signals, dispatches, historyVars>>

\* the other commands on the request: submissions, transitions, reviews
GovernRequest(st) ==
  /\ calls < MaxCalls
  /\ calls' = calls + 1
  /\ request' = st
  /\ closing' = "none"
  /\ UNCHANGED <<run, reports, signals, dispatches, session, told, applied, acked, runOvertaken>>

\* the two columns; want is the request's, want # read when it is written
WriteStatuses(s, runStatus, want) ==
  /\ run' = Column(run, session[s].run, runStatus)
  /\ request' = Column(request, session[s].request, want)
  /\ closing' = IF want \in {"completed", "failed"} /\ want # session[s].request
                  THEN want ELSE closing
  /\ runOvertaken' = (runOvertaken \/ (want # session[s].request /\ request # session[s].request))

-----------------------------------------------------------------------------
(* command_run *)

BeginRunCommand(s, command) == Begin(s, command)

\* a forced dispatch: the runtime has accepted it whatever becomes of the row
Dispatch(s) ==
  /\ session[s].at = "read"
  /\ session[s].op \in Commands
  /\ told' = told + 1
  /\ \/ session' = [session EXCEPT ![s].at = "told"]
     \/ Free(s)                   \* the answer is lost, and the command with it
  /\ UNCHANGED <<run, request, reports, signals, dispatches, calls,
                 applied, acked, closing, runOvertaken>>

RunAfter_spelling(command) ==
  CASE command = "Pause"      -> "paused"
    [] command = "Cancel Run" -> "canceled"
    [] OTHER                  -> "running"

RunAfter(command) ==
  CASE command = "Pause"      -> "paused"
    [] command = "Cancel Run" -> "failed"
    [] OTHER                  -> "running"

CommitRunCommand(s) ==
  /\ session[s].at = "told"
  /\ session[s].op \in Commands
  /\ WriteStatuses(s, RunAfter(session[s].op),
       IF session[s].op = "Cancel Run" THEN "failed" ELSE session[s].request)
  /\ dispatches' = dispatches + 1
  /\ Free(s)
  /\ UNCHANGED <<reports, signals, calls, told, applied, acked>>

-----------------------------------------------------------------------------
(* reconcile_run *)

BeginCallback(s, e) ==
  /\ e \notin signals
  /\ Begin(s, e)

\* an event that has its row is answered, and nothing else
AnswerDuplicate(e) ==
  /\ e \in signals
  /\ e \notin acked
  /\ acked' = acked \union {e}
  /\ UNCHANGED <<run, request, reports, signals, dispatches, session, calls,
                 told, applied, closing, runOvertaken>>

InsertSignal_again(e) == TRUE

\* event_id is unique: the INSERT of a copy raises
InsertSignal(e) == e \notin signals

RequestAfter_anyStatus(status, read) ==
  CASE status \in {"completed", "failed"} -> status
    [] status = "running"                 -> "in_execution"
    [] OTHER                              -> read

\* what the callback makes of the request it has read
RequestAfter(status, read) ==
  CASE status \in {"completed", "failed"}         -> status
    [] status = "running" /\ read = "queued"      -> "in_execution"
    [] OTHER                                      -> read

CommitCallback(s) ==
  /\ session[s].at = "read"
  /\ session[s].op \in Events
  /\ LET e == session[s].op IN
       /\ InsertSignal(e)
       /\ signals' = signals \union {e}
       /\ WriteStatuses(s, reports[e], RequestAfter(reports[e], session[s].request))
       /\ applied' = [applied EXCEPT ![e] = @ + 1]
       \* the answer may be lost, and the runtime sends the event again
       /\ \/ acked' = acked \union {e}
          \/ UNCHANGED acked
  /\ Free(s)
  /\ UNCHANGED <<reports, dispatches, calls, told>>

\* the runtime refuses, the INSERT or the commit raises, or the process dies
RollBack(s) ==
  /\ session[s] # Resting
  /\ Free(s)
  /\ UNCHANGED <<run, request, reports, signals, dispatches, calls, historyVars>>

RuntimeNext ==
  \/ \E st \in RequestStatus : GovernRequest(st)
  \/ \E e \in Events : AnswerDuplicate(e)
  \/ \E s \in Sessions :
       \/ \E command \in Commands : BeginRunCommand(s, command)
       \/ \E e \in Events : BeginCallback(s, e)
       \/ Dispatch(s) \/ CommitRunCommand(s) \/ CommitCallback(s) \/ RollBack(s)

RuntimeSpec == RuntimeInit /\ [][RuntimeNext]_runtimeVars

-----------------------------------------------------------------------------
\* Whatever is delivered twice, at once or after a lost answer: an event that
\* was answered has taken effect, and exactly once, and no dispatch is on
\* record that the runtime was not told (it may be told of more: the row is
\* committed after the call).
EffectsCountOnce ==
  /\ acked \subseteq signals
  /\ \A e \in Events : applied[e] = IF e \in signals THEN 1 ELSE 0
  /\ dispatches <= told

\* A request that the runtime or Cancel Run has ended stays as it ended until
\* governance moves it: no late, repeated or reordered event and no run
\* command reopens it, although the run itself may be running again.  It takes
\* a handler that read the request before it was ended to break this.
EndedNotReopened == ~runOvertaken /\ closing # "none" => request = closing
=============================================================================
