------------------------- MODULE RequestLifecycle -------------------------
(***************************************************************************)
(* The lifecycle of one governed request and of the rows that hang off it: *)
(* its run, its current artifact, its review-queue item, its promotion     *)
(* record, its request checks and the worker that evaluates them, and the  *)
(* agent sessions assigned to it.  Requests share no rows, so one request  *)
(* is enough.                                                              *)
(*                                                                         *)
(* Every handler of GovernanceRepository runs in one database session that *)
(* commits once at its end, so a handler is one action here.  The check    *)
(* worker is the exception: it reads the rows, then commits, and handlers  *)
(* run in between (WorkerRead, WorkerCommit).                              *)
(***************************************************************************)
EXTENDS Naturals, FiniteSets

CONSTANTS
  Gates,            \* active transition gates: pairs <<target status, check>>
  Stages,           \* instructional review stages; 0 for other templates
  AssignableIn,     \* statuses in which operators assign an agent session
  MaxResume,        \* bound: distinct resume statuses that sessions record
  ExplicitTargets   \* target statuses callers pass when they end a session

RequestStatus ==
  {"draft", "submitted", "validation_failed", "validated", "classified",
   "ownership_resolved", "planned", "queued", "in_execution",
   "awaiting_input", "awaiting_review", "under_review", "changes_requested",
   "approved", "rejected", "promotion_pending", "promoted", "completed",
   "failed", "canceled", "archived"}

Intake    == "Intake Completeness"
Package   == "Review Package Readiness"
Freshness == "Approval Freshness"
CheckNames  == {Intake, Package, Freshness}
CheckStates == {"pending", "passed", "failed"}
Results     == [CheckNames -> CheckStates]

ASSUME GatesAssumption   == Gates \subseteq (RequestStatus \X CheckNames)
ASSUME StagesAssumption  == Stages \in Nat
ASSUME AgentAssumption   == /\ AssignableIn \subseteq RequestStatus
                            /\ ExplicitTargets \subseteq RequestStatus
                            /\ MaxResume \in Nat

VARIABLES
  status,      \* requests.status
  complete,    \* title and summary of the request are not blank
  submitted,   \* the audit trail holds a "Submitted" entry
  run,         \* current_run_id names a run (module RuntimeRun has its status)
  artifact,    \* stale_review of the request's latest artifact
  review,      \* blocking_status of the review-queue item
  promotion,   \* the promotion record, and whether execution would accept it
  checks,      \* committed results of the request checks, or NoRows
  pendingRun,  \* a request check run is queued or running
  snapshot,    \* results the worker computed and has not committed, or NoRows
  dispatched,  \* which of "enqueue" and "start" the runtime was sent
  decisions,   \* last instructional decision of each stage
  resume       \* resume_request_status of the agent sessions

work == <<run, artifact, review, promotion, dispatched>>
gate == <<checks, pendingRun, snapshot>>
vars == <<status, complete, submitted, decisions, resume, work, gate>>

NoRows == [c \in {} |-> "pending"]

-----------------------------------------------------------------------------
(* The transition table and the status sets of domain/state_machine.py.    *)

TRANSITION_RULES ==
  [s \in RequestStatus |->
     CASE s = "submitted"          -> {"validated", "validation_failed", "canceled"}
       [] s = "validation_failed"  -> {"draft", "canceled"}
       [] s = "validated"          -> {"classified", "canceled"}
       [] s = "classified"         -> {"ownership_resolved", "canceled"}
       [] s = "ownership_resolved" -> {"planned", "canceled"}
       [] s = "planned"            -> {"queued", "canceled"}
       [] s = "queued"             -> {"in_execution", "failed", "canceled"}
       [] s = "in_execution"       -> {"awaiting_input", "awaiting_review", "failed", "canceled"}
       [] s = "awaiting_input"     -> {"draft", "canceled"}
       [] s = "awaiting_review"    -> {"under_review", "changes_requested", "approved", "canceled"}
       [] s = "under_review"       -> {"changes_requested", "approved", "rejected", "canceled"}
       [] s = "changes_requested"  -> {"draft", "canceled"}
       [] s = "approved"           -> {"promotion_pending", "completed", "canceled"}
       [] s = "promotion_pending"  -> {"promoted", "failed", "canceled"}
       [] s = "promoted"           -> {"completed"}
       [] s = "failed"             -> {"planned", "canceled"}
       [] OTHER                    -> {}]

SUBMITTABLE_STATUSES ==
  {"draft", "changes_requested", "validation_failed", "awaiting_input"}
\* Faulty variant: canceled requests may be amended.
AMENDABLE_STATUSES_canceled ==
  RequestStatus \ {"in_execution", "promoted", "completed", "rejected", "archived"}
AMENDABLE_STATUSES ==
  RequestStatus \ {"in_execution", "promoted", "completed", "canceled",
                   "rejected", "archived"}
CANCELABLE_STATUSES ==
  RequestStatus \ {"promoted", "completed", "canceled", "rejected", "archived"}

-----------------------------------------------------------------------------
(* What entering a status does to the rows around the request              *)
(* (_apply_transition_side_effects and the helpers it calls).              *)

\* _ensure_run_for_request: one run for the life of the request.
RunAfter(target) ==
  run \/ target \in {"planned", "queued", "in_execution", "awaiting_review"}

\* _update_artifact_review_state does nothing without an artifact.
StampArtifact(staleness) == IF artifact = "none" THEN "none" ELSE staleness

\* Faulty variant: approving a request forgets to refresh the artifact.
ArtifactAfter_keepsStale(target) ==
  CASE target \in {"in_execution", "awaiting_review"} /\ artifact = "none" -> "fresh"
    [] target \in {"under_review", "promotion_pending", "promoted"}
                                                  -> StampArtifact("fresh")
    [] target = "changes_requested"               -> StampArtifact("stale")
    [] OTHER                                      -> artifact

ArtifactAfter(target) ==
  CASE target \in {"in_execution", "awaiting_review"} /\ artifact = "none" -> "fresh"
    [] target \in {"under_review", "approved", "promotion_pending", "promoted"}
                                                  -> StampArtifact("fresh")
    [] target = "changes_requested"               -> StampArtifact("stale")
    [] target = "completed" /\ run                 -> StampArtifact("fresh")
    [] OTHER                                      -> artifact

\* _update_review_queue_status does nothing without a queue item.
StampReview(blocking) == IF review = "none" THEN "none" ELSE blocking

\* Faulty variant: entering review updates an item but does not create one.
ReviewAfter_noItem(target) ==
  CASE target = "awaiting_review"   -> StampReview("blocking")
    [] target = "under_review"      -> StampReview("in_progress")
    [] target = "changes_requested" -> StampReview("changes_requested")
    [] target = "approved"          -> StampReview("approved")
    [] OTHER                        -> review

ReviewAfter(target) ==
  CASE target = "awaiting_review"   -> "blocking"
    [] target = "under_review"      -> StampReview("in_progress")
    [] target = "changes_requested" -> StampReview("changes_requested")
    [] target = "approved"          -> StampReview("approved")
    [] OTHER                        -> review

\* Entering promotion_pending creates the record, or resets its approvals.
PromotionAfter(target) ==
  IF target = "promotion_pending" THEN "blocked" ELSE promotion

\* Faulty variant: the enqueue is dispatched only along with a new run.
DispatchedAfter_newRunOnly(target) ==
  CASE target = "queued" /\ ~run -> dispatched \union {"enqueue"}
    [] target = "in_execution"    -> dispatched \union {"start"}
    [] OTHER                      -> dispatched

\* A dispatch of a type already on record for the run is not sent again.
DispatchedAfter(target) ==
  CASE target = "queued"       -> dispatched \union {"enqueue"}
    [] target = "in_execution" -> dispatched \union {"start"}
    [] OTHER                   -> dispatched

SideEffects(target) ==
  /\ run' = RunAfter(target)
  /\ artifact' = ArtifactAfter(target)
  /\ review' = ReviewAfter(target)
  /\ promotion' = PromotionAfter(target)
  /\ dispatched' = DispatchedAfter(target)
  /\ pendingRun' = (pendingRun \/ target \in {"awaiting_review", "approved"})
  /\ UNCHANGED <<checks, snapshot>>

-----------------------------------------------------------------------------
(* The author's commands: submit, amend, cancel, supersede.                *)

Init ==
  /\ status = "draft"
  /\ complete \in BOOLEAN
  /\ submitted = FALSE
  /\ run = FALSE
  /\ artifact = "none"
  /\ review = "none"
  /\ promotion = "none"
  /\ checks = NoRows
  /\ pendingRun = FALSE
  /\ snapshot = NoRows
  /\ dispatched = {}
  /\ decisions = [i \in 1..Stages |-> "none"]
  /\ resume = {}

\* enqueue_request_checks reuses a check run that is queued or running.
EnqueueRequestChecks == pendingRun' = TRUE /\ UNCHANGED <<checks, snapshot>>

SubmitRequest ==
  /\ status \in SUBMITTABLE_STATUSES
  /\ status' = "submitted"
  /\ submitted' = TRUE
  /\ EnqueueRequestChecks
  /\ UNCHANGED <<complete, decisions, resume, work>>

AmendRequest ==
  /\ status \in AMENDABLE_STATUSES
  /\ status' = "draft"
  /\ complete' \in BOOLEAN
  /\ UNCHANGED <<submitted, decisions, resume, work, gate>>

\* Faulty variant: the status is written with a spelling the enum lacks.
CancelRequest_spelling ==
  /\ status \in CANCELABLE_STATUSES
  /\ status' = "cancelled"
  /\ UNCHANGED <<complete, submitted, decisions, resume, work, gate>>

CancelRequest ==
  /\ status \in CANCELABLE_STATUSES
  /\ status' = "canceled"
  /\ UNCHANGED <<complete, submitted, decisions, resume, work, gate>>

SupersedeRequest ==
  /\ status \notin {"archived", "canceled", "completed"}
  /\ status' = "archived"
  /\ UNCHANGED <<complete, submitted, decisions, resume, work, gate>>

-----------------------------------------------------------------------------
(* transition_request: the table, then the gates of the target.            *)

Targets ==
  TRANSITION_RULES[status] \ {"draft", "submitted", "canceled", "archived"}

RequiredChecks(target) == {c \in CheckNames : <<target, c>> \in Gates}

ChecksPass(target) ==
  \A c \in RequiredChecks(target) : checks # NoRows /\ checks[c] = "passed"

TransitionRequest(target) ==
  /\ target \in Targets
  /\ RequiredChecks(target) # {} => ~pendingRun /\ ChecksPass(target)
  /\ status' = target
  /\ SideEffects(target)
  /\ UNCHANGED <<complete, submitted, decisions, resume>>

\* A gate that is not satisfied: the transition is refused, but a new
\* evaluation is queued and committed before the error is raised.
TransitionRefused(target) ==
  /\ target \in Targets
  /\ ~pendingRun
  /\ ~ChecksPass(target)
  /\ EnqueueRequestChecks
  /\ UNCHANGED <<status, complete, submitted, decisions, resume, work>>

-----------------------------------------------------------------------------
(* Instructional templates: stage by stage review decisions.               *)

StageBlocking(i) ==
  LET refused == {j \in 1..Stages : decisions[j] = "request_changes"}
  IN  IF refused # {}
      THEN i \in refused /\ \A j \in refused : j <= i
      ELSE decisions[i] = "none" /\ \A j \in 1..(i - 1) : decisions[j] = "approve"

\* Faulty variant: stages of a draft can be decided.
ActiveStage_draft(i) ==
  IF status \in {"approved", "promotion_pending", "promoted", "completed", "archived"}
  THEN i = Stages
  ELSE StageBlocking(i)

ActiveStage(i) ==
  CASE status = "draft" -> FALSE
    [] status \in {"approved", "promotion_pending", "promoted", "completed", "archived"}
                        -> i = Stages
    [] OTHER            -> StageBlocking(i)

StageTarget(i, decision) ==
  CASE decision = "request_changes" -> "changes_requested"
    [] i = Stages                   -> "approved"
    [] OTHER                        -> "under_review"

DecideInstructionalStage(i, decision) ==
  /\ status \notin {"canceled", "archived", "completed"}
  /\ ActiveStage(i)
  /\ decisions' = [decisions EXCEPT ![i] = decision]
  /\ status' = StageTarget(i, decision)
  /\ IF status' = status
     THEN UNCHANGED <<work, gate>>
     ELSE SideEffects(StageTarget(i, decision))
  /\ UNCHANGED <<complete, submitted, resume>>

-----------------------------------------------------------------------------
(* The review queue.  Its commands look at the item, never at the status.  *)

ApproveReview ==
  /\ review # "none"
  /\ review' = "approved"
  /\ artifact' = StampArtifact("fresh")
  /\ status' = "approved"
  /\ UNCHANGED <<complete, submitted, decisions, resume, run, promotion,
                 dispatched, gate>>

RequestReviewChanges ==
  /\ review # "none"
  /\ review' = "changes_requested"
  /\ artifact' = StampArtifact("stale")
  /\ status' = "changes_requested"
  /\ UNCHANGED <<complete, submitted, decisions, resume, run, promotion, dispatched, gate>>

OverrideReviewAssignment ==
  /\ review # "none"
  /\ review' = "reassigned"
  /\ UNCHANGED <<status, complete, submitted, decisions, resume, run, artifact,
                 promotion, dispatched, gate>>

-----------------------------------------------------------------------------
(* The run: the operator's Cancel Run, and callbacks from the runtime.      *)
(* The other commands and callbacks change the run only (RuntimeRun).       *)

CancelRun ==
  /\ run
  /\ status' = "failed"
  /\ UNCHANGED <<complete, submitted, decisions, resume, work, gate>>

ReconcileRun(signal) ==
  /\ run
  /\ status' = CASE signal = "completed"                     -> "completed"
                 [] signal = "failed"                        -> "failed"
                 [] signal = "running" /\ status = "queued"  -> "in_execution"
                 [] OTHER                                    -> status
  /\ artifact' = IF signal \in {"completed", "failed"} THEN StampArtifact("fresh")
                                                       ELSE artifact
  /\ UNCHANGED <<complete, submitted, decisions, resume, run, review, promotion,
                 dispatched, gate>>

-----------------------------------------------------------------------------
(* Promotion.  Module Promotion has the record in detail; here it is only  *)
(* blocked or ready, and any of its commands may move it between the two.  *)

PromotionReassessed ==
  /\ promotion # "none"
  /\ promotion' \in {"blocked", "ready"}
  /\ UNCHANGED <<status, complete, submitted, decisions, resume, run, artifact,
                 review, dispatched, gate>>

ExecutePromotion ==
  /\ promotion = "ready"
  /\ status' = "promoted"
  /\ artifact' = StampArtifact("fresh")
  /\ UNCHANGED <<complete, submitted, decisions, resume, run, review, promotion,
                 dispatched, gate>>

-----------------------------------------------------------------------------
(* Agent sessions.  A session records the status it was assigned in and    *)
(* returns the request to it, at any later time and as often as it is      *)
(* completed, so the set of recorded statuses stands for all sessions.     *)

AssignAgentSession ==
  /\ status \in AssignableIn
  /\ resume' = resume \union {status}
  /\ Cardinality(resume') <= MaxResume
  /\ status' = "awaiting_input"
  /\ UNCHANGED <<complete, submitted, decisions, work, gate>>

PostAgentSessionMessage ==
  /\ resume # {}
  /\ status' = "awaiting_input"
  /\ UNCHANGED <<complete, submitted, decisions, resume, work, gate>>

\* Faulty variant: the recorded status is ignored.
ResumeTarget_ignoresRecord(target) == IF run THEN "in_execution" ELSE "planned"

\* _resolve_agent_session_target_status
ResumeTarget(target) ==
  IF target # "awaiting_input" THEN target
  ELSE IF run THEN "in_execution" ELSE "planned"

ReturnFromSession ==
  /\ resume # {}
  /\ \E target \in resume \union ExplicitTargets : status' = ResumeTarget(target)
  /\ UNCHANGED <<complete, submitted, decisions, resume, work, gate>>

ImportAgentSessionArtifact ==
  /\ resume # {}
  /\ artifact' = "fresh"
  /\ UNCHANGED <<status, complete, submitted, decisions, resume, run, review,
                 promotion, dispatched, gate>>

-----------------------------------------------------------------------------
(* The request checks and the worker that evaluates them.                  *)

\* Faulty variant: one of artifact and review makes a review package.
EvaluateChecks_either ==
  [c \in CheckNames |->
     CASE c = Intake    -> IF complete THEN "passed" ELSE "failed"
       [] c = Package   -> IF artifact # "none" \/ review # "none" THEN "passed"
                                                                   ELSE "pending"
       [] c = Freshness -> IF artifact = "fresh" /\ review \in {"none", "approved"}
                           THEN "passed" ELSE "pending"]

EvaluateChecks ==
  [c \in CheckNames |->
     CASE c = Intake    -> IF complete THEN "passed" ELSE "failed"
       [] c = Package   -> IF artifact # "none" /\ review # "none" THEN "passed"
                                                                   ELSE "pending"
       [] c = Freshness -> IF artifact = "fresh" /\ review \in {"none", "approved"}
                           THEN "passed" ELSE "pending"]

RunRequestChecks ==
  /\ EnqueueRequestChecks
  /\ UNCHANGED <<status, complete, submitted, decisions, resume, work>>

WorkerRead ==
  /\ pendingRun
  /\ snapshot = NoRows
  /\ snapshot' = EvaluateChecks
  /\ UNCHANGED <<status, complete, submitted, decisions, resume, work, checks,
                 pendingRun>>

WorkerCommit ==
  /\ snapshot # NoRows
  /\ checks' = snapshot
  /\ snapshot' = NoRows
  /\ pendingRun' = FALSE
  /\ UNCHANGED <<status, complete, submitted, decisions, resume, work>>

\* An exception rolls the results back; the run becomes "failed", which is
\* not pending, and the previous results stay in force.
WorkerFail ==
  /\ pendingRun
  /\ snapshot' = NoRows
  /\ pendingRun' = FALSE
  /\ UNCHANGED <<status, complete, submitted, decisions, resume, work, checks>>

-----------------------------------------------------------------------------
Next ==
  \/ SubmitRequest
  \/ AmendRequest
  \/ CancelRequest
  \/ SupersedeRequest
  \/ \E target \in RequestStatus : TransitionRequest(target)
  \/ \E target \in RequestStatus : TransitionRefused(target)
  \/ \E i \in 1..Stages, d \in {"approve", "request_changes"} :
        DecideInstructionalStage(i, d)
  \/ ApproveReview
  \/ RequestReviewChanges
  \/ OverrideReviewAssignment
  \/ CancelRun
  \/ \E signal \in {"running", "completed", "failed"} : ReconcileRun(signal)
  \/ PromotionReassessed
  \/ ExecutePromotion
  \/ AssignAgentSession
  \/ PostAgentSessionMessage
  \/ ReturnFromSession
  \/ ImportAgentSessionArtifact
  \/ RunRequestChecks
  \/ WorkerRead
  \/ WorkerCommit
  \/ WorkerFail

Spec == Init /\ [][Next]_vars

-----------------------------------------------------------------------------
(* Properties.                                                             *)

\* Every variable keeps its type: a status is one of the 21 declared ones.
TypeOK ==
  /\ status \in RequestStatus
  /\ complete \in BOOLEAN
  /\ submitted \in BOOLEAN
  /\ run \in BOOLEAN
  /\ artifact \in {"none", "fresh", "stale"}
  /\ review \in {"none", "blocking", "in_progress", "changes_requested",
                 "approved", "reassigned"}
  /\ promotion \in {"none", "blocked", "ready"}
  /\ checks \in Results \union {NoRows}
  /\ pendingRun \in BOOLEAN
  /\ snapshot \in Results \union {NoRows}
  /\ dispatched \subseteq {"enqueue", "start"}
  /\ decisions \in [1..Stages -> {"none", "approve", "request_changes"}]
  /\ resume \subseteq RequestStatus

\* An item marked Approved in the review queue always stands beside an
\* artifact that is not stale, whichever command wrote either of them:
\* transitions, review decisions, stage decisions, callbacks, deployments.
ApprovedReviewNotStale == review = "approved" => artifact = "fresh"

\* The runtime is never told to start a run it was not told to enqueue, over
\* failures, retries, amendments and returns from agent sessions, although
\* the dispatch of each type is sent only once in the life of the run.
StartAfterEnqueue == "start" \in dispatched => "enqueue" \in dispatched

\* A request is in a phase only with the rows that phase works on, also when
\* an agent session or a callback puts it there.
PhaseHasItsRows ==
  /\ status \in {"queued", "in_execution"} => run
  /\ status = "awaiting_review" => run /\ artifact # "none" /\ review # "none"
  /\ status \in {"promotion_pending", "promoted"} => promotion # "none"

\* No command carries a request past intake before it was first submitted.
\* (It holds while no session is assigned in awaiting_input, see the README.)
OnlyAfterSubmission ==
  status \notin {"draft", "awaiting_input", "canceled", "archived"} => submitted

\* Recorded check results may be older than the rows (the worker commits what
\* it read before, and a failed evaluation leaves the previous results).  For
\* the facts that are never undone a passed result still holds: the review
\* package, and the artifact behind a fresh approval, are there.
PackageEvidenceSound ==
  checks # NoRows =>
    /\ checks[Package] = "passed" => artifact # "none" /\ review # "none"
    /\ checks[Freshness] = "passed" => artifact # "none"

\* The author's commands leave a canceled or archived request where it is: it
\* stays closed as long as it has no run, review item, promotion record or
\* agent session that reaches back into it.  Only assigning a session, which
\* looks at no status, can reopen it.
ClosedStaysClosed ==
  [][ /\ status \in {"canceled", "archived"}
      /\ ~run /\ review = "none" /\ promotion = "none" /\ resume' = {}
      => status' \in {"canceled", "archived"} ]_vars

\* The transitions build_pack_3.md lists as disallowed are never taken:
\* "completed -> any non-terminal", "rejected -> in_execution",
\* "archived -> anything else".
DisallowedNeverTaken ==
  [][ /\ status = "completed" =>
           status' \in {"completed", "failed", "canceled", "archived"}
      /\ status = "rejected" => status' # "in_execution"
      /\ status = "archived" => status' = "archived" ]_vars

\* requirements.md: "Promotion SHALL require all approvals and checks.": a
\* request becomes promoted only when its promotion record is ready.
PromotedOnlyWhenReady ==
  [][ status # "promoted" /\ status' = "promoted" => promotion = "ready" ]_vars

-----------------------------------------------------------------------------
(* Strengthenings of the properties above that are inductive (given TypeOK);*)
(* RequestLifecycleProofs proves them.                                      *)

\* A review item is only ever created beside an artifact.
ReviewInv ==
  /\ review # "none" => artifact # "none"
  /\ ApprovedReviewNotStale

\* The rows a status needs were there when a session recorded it, and stay.
RowsFor(s) ==
  /\ s \in {"queued", "in_execution"} => run
  /\ s = "queued" => "enqueue" \in dispatched
  /\ s = "awaiting_review" => run /\ artifact # "none" /\ review # "none"
  /\ s \in {"promotion_pending", "promoted"} => promotion # "none"

PhaseInv ==
  /\ \A s \in resume \union {status} : RowsFor(s)
  /\ StartAfterEnqueue

\* Rows exist only behind a submission, and so do the recorded statuses.
BeforeSubmission == {"draft", "awaiting_input", "canceled", "archived"}

SubmissionInv ==
  \/ submitted
  \/ /\ status \in BeforeSubmission
     /\ resume \subseteq BeforeSubmission \ {"awaiting_input"}
     /\ ~run /\ review = "none" /\ promotion = "none"

\* What PackageEvidenceSound says of the recorded results also holds of the
\* results the worker has computed and not yet committed.
EvidenceFor(results) ==
  results # NoRows =>
    /\ results[Package] = "passed" => artifact # "none" /\ review # "none"
    /\ results[Freshness] = "passed" => artifact # "none"

EvidenceInv == EvidenceFor(checks) /\ EvidenceFor(snapshot)
=============================================================================
