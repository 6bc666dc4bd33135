---------------------- MODULE RequestLifecycleProofs ----------------------
(* Machine-checked invariants of RequestLifecycle, for every value of its   *)
(* constants that satisfies the named assumptions.                          *)
EXTENDS RequestLifecycle, TLAPS

-----------------------------------------------------------------------------
(* Facts about the operators the actions are built from.                    *)

\* The transition table only leads to declared statuses that have no command
\* of their own, and fixes where execution and promotion can start.
LEMMA TransitionTargets ==
  ASSUME status \in RequestStatus, NEW target \in Targets
  PROVE  /\ target \in RequestStatus
         /\ target = "in_execution" => status = "queued"
         /\ target = "promoted" => status = "promotion_pending"
         /\ status \notin {"draft", "awaiting_input", "canceled", "archived"}
BY DEF Targets, TRANSITION_RULES, RequestStatus

\* Stage decisions lead to three statuses only.
LEMMA StageTargets ==
  ASSUME NEW i, NEW d
  PROVE  StageTarget(i, d) \in {"changes_requested", "approved", "under_review"}
BY DEF StageTarget

\* Evaluating the checks yields a result for each of the three.
LEMMA EvaluateChecksType == EvaluateChecks \in Results
BY DEF EvaluateChecks, Results, CheckNames, CheckStates

-----------------------------------------------------------------------------
(* Type correctness.                                                        *)

\* Entering any status leaves the rows around the request well typed.
LEMMA SideEffectsType ==
  ASSUME TypeOK, NEW target, SideEffects(target)
  PROVE  /\ run' \in BOOLEAN
         /\ artifact' \in {"none", "fresh", "stale"}
         /\ review' \in {"none", "blocking", "in_progress", "changes_requested",
                         "approved", "reassigned"}
         /\ promotion' \in {"none", "blocked", "ready"}
         /\ dispatched' \subseteq {"enqueue", "start"}
         /\ pendingRun' \in BOOLEAN
         /\ checks' \in Results \union {NoRows}
         /\ snapshot' \in Results \union {NoRows}
<1> USE DEF TypeOK, SideEffects
<1>1. run' \in BOOLEAN
  BY Zenon DEF RunAfter
<1>2. artifact' \in {"none", "fresh", "stale"}
  BY DEF ArtifactAfter, StampArtifact
<1>3. review' \in {"none", "blocking", "in_progress", "changes_requested",
                   "approved", "reassigned"}
  BY DEF ReviewAfter, StampReview
<1>4. promotion' \in {"none", "blocked", "ready"}
  BY DEF PromotionAfter
<1>5. dispatched' \subseteq {"enqueue", "start"}
  BY DEF DispatchedAfter
<1>6. pendingRun' \in BOOLEAN
  BY Zenon
<1>7. checks' \in Results \union {NoRows} /\ snapshot' \in Results \union {NoRows}
  BY Zenon
<1> QED
  BY <1>1, <1>2, <1>3, <1>4, <1>5, <1>6, <1>7

\* Type correctness is inductive by itself.
LEMMA TypeStep == TypeOK /\ [Next]_vars => TypeOK'
<1> SUFFICES ASSUME TypeOK, [Next]_vars PROVE TypeOK'
  OBVIOUS
<1> USE DEF TypeOK
<1>1. CASE SubmitRequest
  BY <1>1 DEF SubmitRequest, EnqueueRequestChecks, work, RequestStatus
<1>2. CASE AmendRequest
  BY <1>2 DEF AmendRequest, work, gate, RequestStatus
<1>3. CASE CancelRequest
  BY <1>3 DEF CancelRequest, work, gate, RequestStatus
<1>4. CASE SupersedeRequest
  BY <1>4 DEF SupersedeRequest, work, gate, RequestStatus
<1>5. ASSUME NEW target \in RequestStatus, TransitionRequest(target)
      PROVE  TypeOK'
  <2>1. status' \in RequestStatus
    BY <1>5 DEF TransitionRequest
  <2> QED
    BY <1>5, <2>1, SideEffectsType DEF TransitionRequest
<1>6. ASSUME NEW target \in RequestStatus, TransitionRefused(target)
      PROVE  TypeOK'
  BY <1>6 DEF TransitionRefused, EnqueueRequestChecks, work
<1>7. ASSUME NEW i \in 1..Stages, NEW d \in {"approve", "request_changes"},
             DecideInstructionalStage(i, d)
      PROVE  TypeOK'
  <2>1. status' \in RequestStatus
    BY <1>7, StageTargets DEF DecideInstructionalStage, RequestStatus
  <2>2. decisions' \in [1..Stages -> {"none", "approve", "request_changes"}]
    BY <1>7 DEF DecideInstructionalStage
  <2>3. CASE status' = status
    BY <1>7, <2>1, <2>2, <2>3 DEF DecideInstructionalStage, work, gate
  <2>4. CASE status' # status
    <3>1. SideEffects(StageTarget(i, d))
      BY <1>7, <2>4 DEF DecideInstructionalStage
    <3> QED
      BY <1>7, <2>1, <2>2, <3>1, SideEffectsType DEF DecideInstructionalStage
  <2> QED
    BY <2>3, <2>4
<1>8. CASE ApproveReview
  BY <1>8 DEF ApproveReview, StampArtifact, gate, RequestStatus
<1>9. CASE RequestReviewChanges
  BY <1>9 DEF RequestReviewChanges, StampArtifact, gate, RequestStatus
<1>10. CASE OverrideReviewAssignment
  BY <1>10 DEF OverrideReviewAssignment, gate
<1>11. CASE CancelRun
  BY <1>11 DEF CancelRun, work, gate, RequestStatus
<1>12. ASSUME NEW signal \in {"running", "completed", "failed"},
              ReconcileRun(signal)
       PROVE  TypeOK'
  BY <1>12 DEF ReconcileRun, StampArtifact, gate, RequestStatus
<1>13. CASE PromotionReassessed
  BY <1>13 DEF PromotionReassessed, gate
<1>14. CASE ExecutePromotion
  BY <1>14 DEF ExecutePromotion, StampArtifact, gate, RequestStatus
<1>15. CASE AssignAgentSession
  BY <1>15 DEF AssignAgentSession, work, gate, RequestStatus
<1>16. CASE PostAgentSessionMessage
  BY <1>16 DEF PostAgentSessionMessage, work, gate, RequestStatus
<1>17. CASE ReturnFromSession
  <2>1. PICK target \in resume \union ExplicitTargets :
             status' = ResumeTarget(target)
    BY <1>17 DEF ReturnFromSession
  <2>2. status' \in RequestStatus
    BY <2>1, AgentAssumption DEF ResumeTarget, RequestStatus
  <2> QED
    BY <1>17, <2>2 DEF ReturnFromSession, work, gate
<1>18. CASE ImportAgentSessionArtifact
  BY <1>18 DEF ImportAgentSessionArtifact, gate
<1>19. CASE RunRequestChecks
  BY <1>19 DEF RunRequestChecks, EnqueueRequestChecks, work
<1>20. CASE WorkerRead
  BY <1>20, EvaluateChecksType DEF WorkerRead, work
<1>21. CASE WorkerCommit
  BY <1>21 DEF WorkerCommit, work
<1>22. CASE WorkerFail
  BY <1>22 DEF WorkerFail, work
<1>23. CASE UNCHANGED vars
  BY <1>23 DEF vars, work, gate
<1> QED
  BY <1>1, <1>2, <1>3, <1>4, <1>5, <1>6, <1>7, <1>8, <1>9, <1>10, <1>11, <1>12,
     <1>13, <1>14, <1>15, <1>16, <1>17, <1>18, <1>19, <1>20, <1>21, <1>22, <1>23
     DEF Next

\* Type correctness: a status is always one of the declared ones, whichever
\* of the commands, callbacks and workers wrote it.
THEOREM TypeCorrect == Spec => []TypeOK
<1>1. Init => TypeOK
  BY DEF Init, TypeOK, RequestStatus
<1> QED
  BY <1>1, TypeStep, PTL DEF Spec
-----------------------------------------------------------------------------
(* Reviews and artifacts.                                                   *)

\* Entering a status never leaves an approved item beside a stale artifact.
LEMMA SideEffectsReview ==
  ASSUME TypeOK, ReviewInv, NEW target, SideEffects(target)
  PROVE  ReviewInv'
<1>1. review' # "none" => artifact' # "none"
  BY DEF TypeOK, ReviewInv, SideEffects, ReviewAfter, StampReview,
         ArtifactAfter, StampArtifact
<1>2. ApprovedReviewNotStale'
  BY DEF TypeOK, ReviewInv, ApprovedReviewNotStale, SideEffects, ReviewAfter,
         StampReview, ArtifactAfter, StampArtifact
<1> QED
  BY <1>1, <1>2 DEF ReviewInv

\* Every command that approves the item refreshes the artifact, and every one
\* that makes the artifact stale takes the approval away.
LEMMA ReviewStep == TypeOK /\ ReviewInv /\ [Next]_vars => ReviewInv'
<1> SUFFICES ASSUME TypeOK, ReviewInv, [Next]_vars PROVE ReviewInv'
  OBVIOUS
<1> USE DEF ReviewInv, ApprovedReviewNotStale
<1>1. CASE UNCHANGED <<review, artifact>>
  BY <1>1
<1>2. ASSUME NEW target \in RequestStatus, TransitionRequest(target)
      PROVE  ReviewInv'
  BY <1>2, SideEffectsReview DEF TransitionRequest
<1>3. ASSUME NEW i \in 1..Stages, NEW d \in {"approve", "request_changes"},
             DecideInstructionalStage(i, d)
      PROVE  ReviewInv'
  <2>1. CASE status' = status
    BY <1>3, <2>1 DEF DecideInstructionalStage, work
  <2>2. CASE status' # status
    <3>1. SideEffects(StageTarget(i, d))
      BY <1>3, <2>2 DEF DecideInstructionalStage
    <3> QED
      BY <3>1, SideEffectsReview
  <2> QED
    BY <2>1, <2>2
<1>4. CASE ApproveReview
  BY <1>4 DEF ApproveReview, StampArtifact, TypeOK
<1>5. CASE RequestReviewChanges
  BY <1>5 DEF RequestReviewChanges, StampArtifact, TypeOK
<1>6. CASE OverrideReviewAssignment
  BY <1>6 DEF OverrideReviewAssignment
<1>7. ASSUME NEW signal \in {"running", "completed", "failed"},
             ReconcileRun(signal)
      PROVE  ReviewInv'
  BY <1>7 DEF ReconcileRun, StampArtifact
<1>8. CASE ExecutePromotion
  BY <1>8 DEF ExecutePromotion, StampArtifact
<1>9. CASE ImportAgentSessionArtifact
  BY <1>9 DEF ImportAgentSessionArtifact
<1>10. ASSUME SubmitRequest \/ AmendRequest \/ CancelRequest \/ SupersedeRequest
              \/ (\E target \in RequestStatus : TransitionRefused(target))
              \/ CancelRun \/ PromotionReassessed \/ AssignAgentSession
              \/ PostAgentSessionMessage \/ ReturnFromSession
              \/ RunRequestChecks \/ WorkerRead \/ WorkerCommit \/ WorkerFail
              \/ UNCHANGED vars
       PROVE  UNCHANGED <<review, artifact>>
  BY <1>10 DEF SubmitRequest, AmendRequest, CancelRequest, SupersedeRequest,
               TransitionRefused, CancelRun, PromotionReassessed,
               AssignAgentSession, PostAgentSessionMessage, ReturnFromSession,
               RunRequestChecks, WorkerRead, WorkerCommit, WorkerFail, vars, work
<1> QED
  BY <1>1, <1>2, <1>3, <1>4, <1>5, <1>6, <1>7, <1>8, <1>9, <1>10 DEF Next

\* An approved review item is never beside a stale artifact, for every set of
\* gates, every number of stages and however agent sessions are used.
THEOREM ApprovalFresh == Spec => []ApprovedReviewNotStale
<1>1. Init => ReviewInv
  BY DEF Init, ReviewInv, ApprovedReviewNotStale
<1>2. ReviewInv => ApprovedReviewNotStale
  BY DEF ReviewInv
<1> QED
  BY <1>1, <1>2, ReviewStep, TypeCorrect, PTL DEF Spec

-----------------------------------------------------------------------------
(* Evidence of the request checks.                                          *)

\* The evaluation reports the rows it sees.
LEMMA EvaluateChecksSound == EvidenceFor(EvaluateChecks)
BY DEF EvidenceFor, EvaluateChecks, CheckNames, Intake, Package, Freshness

\* Artifact and review item are never deleted.
LEMMA RowsStay ==
  ASSUME TypeOK, [Next]_vars
  PROVE  /\ artifact # "none" => artifact' # "none"
         /\ review # "none" => review' # "none"
<1> DEFINE Stay == /\ artifact # "none" => artifact' # "none"
                   /\ review # "none" => review' # "none"
<1>1. CASE UNCHANGED <<review, artifact>>
  BY <1>1
<1>2. ASSUME NEW target, SideEffects(target)
      PROVE  Stay
  BY <1>2 DEF SideEffects, ArtifactAfter, StampArtifact, ReviewAfter, StampReview
<1>3. ASSUME NEW target \in RequestStatus, TransitionRequest(target)
      PROVE  Stay
  BY <1>2, <1>3 DEF TransitionRequest
<1>4. ASSUME NEW i \in 1..Stages, NEW d \in {"approve", "request_changes"},
             DecideInstructionalStage(i, d)
      PROVE  Stay
  BY <1>1, <1>2, <1>4 DEF DecideInstructionalStage, work
<1>5. CASE ApproveReview \/ RequestReviewChanges
  BY <1>5 DEF ApproveReview, RequestReviewChanges, StampArtifact
<1>6. CASE OverrideReviewAssignment
  BY <1>6 DEF OverrideReviewAssignment
<1>7. ASSUME NEW signal \in {"running", "completed", "failed"},
             ReconcileRun(signal)
      PROVE  Stay
  BY <1>7 DEF ReconcileRun, StampArtifact
<1>8. CASE ExecutePromotion
  BY <1>8 DEF ExecutePromotion, StampArtifact
<1>9. CASE ImportAgentSessionArtifact
  BY <1>9 DEF ImportAgentSessionArtifact
<1>10. ASSUME SubmitRequest \/ AmendRequest \/ CancelRequest \/ SupersedeRequest
              \/ (\E target \in RequestStatus : TransitionRefused(target))
              \/ CancelRun \/ PromotionReassessed \/ AssignAgentSession
              \/ PostAgentSessionMessage \/ ReturnFromSession
              \/ RunRequestChecks \/ WorkerRead \/ WorkerCommit \/ WorkerFail
              \/ UNCHANGED vars
       PROVE  UNCHANGED <<review, artifact>>
  BY <1>10 DEF SubmitRequest, AmendRequest, CancelRequest, SupersedeRequest,
               TransitionRefused, CancelRun, PromotionReassessed,
               AssignAgentSession, PostAgentSessionMessage, ReturnFromSession,
               RunRequestChecks, WorkerRead, WorkerCommit, WorkerFail, vars, work
<1> QED
  BY <1>1, <1>3, <1>4, <1>5, <1>6, <1>7, <1>8, <1>9, <1>10 DEF Next

\* The worker only writes results it evaluated; nobody else writes results.
LEMMA ResultsWritten ==
  ASSUME TypeOK, [Next]_vars
  PROVE  /\ checks' \in {checks, snapshot}
         /\ snapshot' \in {snapshot, NoRows, EvaluateChecks}
         /\ snapshot' = EvaluateChecks =>
                UNCHANGED <<artifact, review>> \/ snapshot' = snapshot
<1>1. CASE UNCHANGED <<checks, snapshot>>
  BY <1>1
<1>2. CASE WorkerRead
  BY <1>2 DEF WorkerRead, work
<1>3. CASE WorkerCommit \/ WorkerFail
  <2>1. EvaluateChecks # NoRows
    BY DEF EvaluateChecks, NoRows, CheckNames
  <2> QED
    BY <1>3, <2>1 DEF WorkerCommit, WorkerFail
<1>4. ASSUME NEW i \in 1..Stages, NEW d \in {"approve", "request_changes"},
             DecideInstructionalStage(i, d)
      PROVE  UNCHANGED <<checks, snapshot>>
  BY <1>4 DEF DecideInstructionalStage, SideEffects, gate
<1>5. ASSUME ~(WorkerRead \/ WorkerCommit \/ WorkerFail)
      PROVE  UNCHANGED <<checks, snapshot>>
  BY <1>4, <1>5 DEF Next, SubmitRequest, AmendRequest, CancelRequest,
       SupersedeRequest, TransitionRequest, TransitionRefused, SideEffects,
       ApproveReview, RequestReviewChanges, OverrideReviewAssignment, CancelRun,
       ReconcileRun, PromotionReassessed, ExecutePromotion, AssignAgentSession,
       PostAgentSessionMessage, ReturnFromSession, ImportAgentSessionArtifact,
       RunRequestChecks, EnqueueRequestChecks, vars, gate
<1> QED
  BY <1>1, <1>2, <1>3, <1>5

\* Recorded results come from the worker, whose evidence outlives them.
LEMMA EvidenceStep == TypeOK /\ EvidenceInv /\ [Next]_vars => EvidenceInv'
<1> SUFFICES ASSUME TypeOK, EvidenceInv, [Next]_vars PROVE EvidenceInv'
  OBVIOUS
<1>1. /\ artifact # "none" => artifact' # "none"
      /\ review # "none" => review' # "none"
  BY RowsStay
<1>2. EvidenceFor(checks)'
  BY <1>1, ResultsWritten DEF EvidenceInv, EvidenceFor
<1>3. EvidenceFor(snapshot)'
  BY <1>1, ResultsWritten, EvaluateChecksSound DEF EvidenceInv, EvidenceFor
<1> QED
  BY <1>2, <1>3 DEF EvidenceInv

\* A passed Review Package Readiness or Approval Freshness result is never
\* about rows that are not there, however old the result is.
THEOREM EvidenceSound == Spec => []PackageEvidenceSound
<1>1. Init => EvidenceInv
  BY DEF Init, EvidenceInv, EvidenceFor
<1>2. EvidenceInv => PackageEvidenceSound
  BY DEF EvidenceInv, EvidenceFor, PackageEvidenceSound
<1> QED
  BY <1>1, <1>2, EvidenceStep, TypeCorrect, PTL DEF Spec
-----------------------------------------------------------------------------
(* Phases and the rows they work on.                                        *)

\* The rows a status needs are never taken away again.
LEMMA RowsForStays ==
  ASSUME TypeOK, [Next]_vars
  PROVE  /\ run => run'
         /\ promotion # "none" => promotion' # "none"
         /\ dispatched \subseteq dispatched'
<1> DEFINE Stay == /\ run => run'
                   /\ promotion # "none" => promotion' # "none"
                   /\ dispatched \subseteq dispatched'
<1>1. CASE UNCHANGED <<run, promotion, dispatched>>
  BY <1>1
<1>2. ASSUME NEW target, SideEffects(target)
      PROVE  Stay
  <2>1. run => run'
    BY <1>2, Zenon DEF SideEffects, RunAfter
  <2>2. promotion # "none" => promotion' # "none"
    BY <1>2 DEF SideEffects, PromotionAfter
  <2>3. dispatched \subseteq dispatched'
    BY <1>2 DEF SideEffects, DispatchedAfter
  <2> QED
    BY <2>1, <2>2, <2>3
<1>3. ASSUME NEW target \in RequestStatus, TransitionRequest(target)
      PROVE  Stay
  BY <1>2, <1>3 DEF TransitionRequest
<1>4. ASSUME NEW i \in 1..Stages, NEW d \in {"approve", "request_changes"},
             DecideInstructionalStage(i, d)
      PROVE  Stay
  BY <1>1, <1>2, <1>4 DEF DecideInstructionalStage, work
<1>5. CASE PromotionReassessed
  BY <1>5 DEF PromotionReassessed
<1>6. ASSUME SubmitRequest \/ AmendRequest \/ CancelRequest \/ SupersedeRequest
             \/ (\E target \in RequestStatus : TransitionRefused(target))
             \/ ApproveReview \/ RequestReviewChanges \/ OverrideReviewAssignment
             \/ (\E signal \in {"running", "completed", "failed"} :
                    ReconcileRun(signal))
             \/ CancelRun \/ ExecutePromotion \/ AssignAgentSession
             \/ PostAgentSessionMessage \/ ReturnFromSession
             \/ ImportAgentSessionArtifact
             \/ RunRequestChecks \/ WorkerRead \/ WorkerCommit \/ WorkerFail
             \/ UNCHANGED vars
      PROVE  UNCHANGED <<run, promotion, dispatched>>
  BY <1>6 DEF SubmitRequest, AmendRequest, CancelRequest, SupersedeRequest,
              TransitionRefused, ApproveReview, RequestReviewChanges,
              OverrideReviewAssignment, ReconcileRun, CancelRun,
              ExecutePromotion, AssignAgentSession, PostAgentSessionMessage,
              ReturnFromSession, ImportAgentSessionArtifact, RunRequestChecks,
              WorkerRead, WorkerCommit, WorkerFail, vars, work
<1> QED
  BY <1>1, <1>3, <1>4, <1>5, <1>6 DEF Next

\* A status that has its rows keeps them.
LEMMA RowsForMonotone ==
  ASSUME TypeOK, [Next]_vars, NEW s, RowsFor(s)
  PROVE  RowsFor(s)'
BY RowsStay, RowsForStays DEF RowsFor

\* Entering a status by transition provides its rows.
LEMMA TransitionProvidesRows ==
  ASSUME TypeOK, PhaseInv, NEW target \in RequestStatus, TransitionRequest(target)
  PROVE  RowsFor(target)'
<1>1. /\ target = "in_execution" => status = "queued"
      /\ target = "promoted" => status = "promotion_pending"
  BY TransitionTargets DEF TransitionRequest, TypeOK
<1>2. RowsFor(status)
  BY DEF PhaseInv
<1>3. target \in {"queued", "in_execution", "awaiting_review"} => run'
  BY Zenon DEF TransitionRequest, SideEffects, RunAfter
<1>4. target = "queued" => "enqueue" \in dispatched'
  BY DEF TransitionRequest, SideEffects, DispatchedAfter
<1>5. target = "awaiting_review" => artifact' # "none" /\ review' # "none"
  BY DEF TransitionRequest, SideEffects, ArtifactAfter, ReviewAfter
<1>6. target \in {"promotion_pending", "promoted"} => promotion' # "none"
  BY <1>1, <1>2 DEF TransitionRequest, SideEffects, PromotionAfter, RowsFor
<1> QED
  BY <1>3, <1>4, <1>5, <1>6 DEF RowsFor

\* The start of a run is dispatched by transitions out of queued only.
LEMMA StartStep ==
  ASSUME TypeOK, PhaseInv, [Next]_vars
  PROVE  StartAfterEnqueue'
<1>1. CASE "start" \in dispatched
  BY <1>1, RowsForStays DEF PhaseInv, StartAfterEnqueue
<1>2. CASE UNCHANGED dispatched
  BY <1>2 DEF PhaseInv, StartAfterEnqueue
<1>3. ASSUME NEW target \in RequestStatus, TransitionRequest(target)
      PROVE  StartAfterEnqueue'
  <2>1. CASE target = "in_execution"
    <3>1. status = "queued"
      BY <1>3, <2>1, TransitionTargets DEF TransitionRequest, TypeOK
    <3>2. "enqueue" \in dispatched
      BY <3>1 DEF PhaseInv, RowsFor
    <3> QED
      BY <1>3, <2>1, <3>2 DEF TransitionRequest, SideEffects, DispatchedAfter,
                              StartAfterEnqueue
  <2>2. CASE target # "in_execution"
    BY <1>3, <2>2 DEF TransitionRequest, SideEffects, DispatchedAfter,
                      PhaseInv, StartAfterEnqueue
  <2> QED
    BY <2>1, <2>2
<1>4. ASSUME NEW i \in 1..Stages, NEW d \in {"approve", "request_changes"},
             DecideInstructionalStage(i, d)
      PROVE  UNCHANGED dispatched
  BY <1>4, StageTargets DEF DecideInstructionalStage, SideEffects,
                            DispatchedAfter, work
<1>5. ASSUME SubmitRequest \/ AmendRequest \/ CancelRequest \/ SupersedeRequest
             \/ (\E target \in RequestStatus : TransitionRefused(target))
             \/ ApproveReview \/ RequestReviewChanges \/ OverrideReviewAssignment
             \/ (\E signal \in {"running", "completed", "failed"} :
                    ReconcileRun(signal))
             \/ CancelRun \/ PromotionReassessed \/ ExecutePromotion
             \/ AssignAgentSession \/ PostAgentSessionMessage
             \/ ReturnFromSession \/ ImportAgentSessionArtifact
             \/ RunRequestChecks \/ WorkerRead \/ WorkerCommit \/ WorkerFail
             \/ UNCHANGED vars
      PROVE  UNCHANGED dispatched
  BY <1>5 DEF SubmitRequest, AmendRequest, CancelRequest, SupersedeRequest,
              TransitionRefused, ApproveReview, RequestReviewChanges,
              OverrideReviewAssignment, ReconcileRun, CancelRun,
              PromotionReassessed, ExecutePromotion, AssignAgentSession,
              PostAgentSessionMessage, ReturnFromSession,
              ImportAgentSessionArtifact, RunRequestChecks,
              WorkerRead, WorkerCommit, WorkerFail, vars, work
<1> QED
  BY <1>2, <1>3, <1>4, <1>5 DEF Next

\* Callers of the session commands name no target status (the web client).
NoExplicitTargets == ExplicitTargets = {}

\* A command enters a status with its rows, or returns to a recorded status
\* whose rows were there when it was recorded.
LEMMA PhaseStep ==
  ASSUME NoExplicitTargets, TypeOK, PhaseInv, [Next]_vars
  PROVE  PhaseInv'
<1>1. \A s \in resume \union {status} : RowsFor(s)'
  BY RowsForMonotone DEF PhaseInv
<1>2. resume' \subseteq resume \union {status}
  <2>1. CASE UNCHANGED resume
    BY <2>1
  <2>2. CASE AssignAgentSession
    BY <2>2 DEF AssignAgentSession
  <2>3. ASSUME ~AssignAgentSession PROVE UNCHANGED resume
    BY <2>3 DEF Next, SubmitRequest, AmendRequest, CancelRequest,
         SupersedeRequest, TransitionRequest, TransitionRefused,
         DecideInstructionalStage, ApproveReview, RequestReviewChanges,
         OverrideReviewAssignment, CancelRun, ReconcileRun, PromotionReassessed,
         ExecutePromotion, PostAgentSessionMessage, ReturnFromSession,
         ImportAgentSessionArtifact, RunRequestChecks, WorkerRead, WorkerCommit,
         WorkerFail, vars
  <2> QED
    BY <2>1, <2>2, <2>3
<1>3. RowsFor(status)'
  <2>1. CASE status' \in {status} \union resume
    BY <2>1, <1>1
  <2>2. CASE status' \notin {"queued", "in_execution", "awaiting_review",
                             "promotion_pending", "promoted"}
    BY <2>2 DEF RowsFor
  <2>3. ASSUME NEW target \in RequestStatus, TransitionRequest(target)
        PROVE  RowsFor(status)'
    BY <2>3, TransitionProvidesRows DEF TransitionRequest
  <2>4. ASSUME NEW i \in 1..Stages, NEW d \in {"approve", "request_changes"},
               DecideInstructionalStage(i, d)
        PROVE  RowsFor(status)'
    BY <2>2, <2>4, StageTargets DEF DecideInstructionalStage
  <2>5. ASSUME NEW signal \in {"running", "completed", "failed"},
               ReconcileRun(signal)
        PROVE  RowsFor(status)'
    BY <2>1, <2>5 DEF ReconcileRun, RowsFor
  <2>6. CASE ExecutePromotion
    BY <2>6 DEF ExecutePromotion, RowsFor
  <2>7. CASE ReturnFromSession
    <3>1. PICK target \in resume : status' = ResumeTarget(target)
      BY <2>7 DEF ReturnFromSession, NoExplicitTargets
    <3> QED
      BY <2>1, <2>7, <3>1 DEF ReturnFromSession, ResumeTarget, RowsFor, work
  <2>8. ASSUME SubmitRequest \/ AmendRequest \/ CancelRequest \/ SupersedeRequest
               \/ ApproveReview \/ RequestReviewChanges \/ CancelRun
               \/ AssignAgentSession \/ PostAgentSessionMessage
        PROVE  RowsFor(status)'
    BY <2>2, <2>8 DEF SubmitRequest, AmendRequest, CancelRequest,
         SupersedeRequest, ApproveReview, RequestReviewChanges, CancelRun,
         AssignAgentSession, PostAgentSessionMessage
  <2>9. ASSUME (\E target \in RequestStatus : TransitionRefused(target))
               \/ OverrideReviewAssignment \/ PromotionReassessed
               \/ ImportAgentSessionArtifact \/ RunRequestChecks
               \/ WorkerRead \/ WorkerCommit \/ WorkerFail \/ UNCHANGED vars
        PROVE  RowsFor(status)'
    BY <2>1, <2>9 DEF TransitionRefused, OverrideReviewAssignment,
         PromotionReassessed, ImportAgentSessionArtifact, RunRequestChecks,
         WorkerRead, WorkerCommit, WorkerFail, vars
  <2> QED
    BY <2>3, <2>4, <2>5, <2>6, <2>7, <2>8, <2>9 DEF Next
<1>4. StartAfterEnqueue'
  BY StartStep
<1> QED
  BY <1>1, <1>2, <1>3, <1>4 DEF PhaseInv

\* The phase invariant itself.
LEMMA PhaseInvariant ==
  ASSUME NoExplicitTargets
  PROVE  Spec => []PhaseInv
<1>1. Init => PhaseInv
  BY DEF Init, PhaseInv, RowsFor, StartAfterEnqueue
<1>2. TypeOK /\ PhaseInv /\ [Next]_vars => PhaseInv'
  BY PhaseStep
<1> QED
  BY <1>1, <1>2, TypeCorrect, PTL DEF Spec

\* The runtime is told to enqueue a run before it is told to start it.
THEOREM EnqueueBeforeStart ==
  ASSUME NoExplicitTargets
  PROVE  Spec => []StartAfterEnqueue
<1>1. PhaseInv => StartAfterEnqueue
  BY DEF PhaseInv
<1> QED
  BY <1>1, PhaseInvariant, PTL

\* A request is only ever in a phase that has its rows.
THEOREM PhasesHaveRows ==
  ASSUME NoExplicitTargets
  PROVE  Spec => []PhaseHasItsRows
<1>1. PhaseInv => PhaseHasItsRows
  BY DEF PhaseInv, RowsFor, PhaseHasItsRows
<1> QED
  BY <1>1, PhaseInvariant, PTL
-----------------------------------------------------------------------------
(* Nothing happens to a request before its first submission.                *)

\* No instructional stages, and no session assigned while another one holds
\* the request in awaiting_input (both are needed, see the README).
PlainUse == Stages = 0 /\ "awaiting_input" \notin AssignableIn

\* Before submission no rows exist that let a command leave intake.
LEMMA SubmissionStep ==
  ASSUME NoExplicitTargets, PlainUse, TypeOK, SubmissionInv, [Next]_vars
  PROVE  SubmissionInv'
<1>1. CASE submitted
  <2>1. submitted'
    BY <1>1 DEF Next, SubmitRequest, AmendRequest, CancelRequest,
         SupersedeRequest, TransitionRequest, TransitionRefused,
         DecideInstructionalStage, ApproveReview, RequestReviewChanges,
         OverrideReviewAssignment, CancelRun, ReconcileRun, PromotionReassessed,
         ExecutePromotion, AssignAgentSession, PostAgentSessionMessage,
         ReturnFromSession, ImportAgentSessionArtifact, RunRequestChecks,
         WorkerRead, WorkerCommit, WorkerFail, vars
  <2> QED
    BY <2>1 DEF SubmissionInv
<1>2. CASE ~submitted
  <2> USE <1>2 DEF SubmissionInv, BeforeSubmission
  <2>1. CASE SubmitRequest
    BY <2>1 DEF SubmitRequest
  <2>2. CASE AmendRequest
    BY <2>2 DEF AmendRequest, work
  <2>3. CASE CancelRequest
    BY <2>3 DEF CancelRequest, work
  <2>4. CASE SupersedeRequest
    BY <2>4 DEF SupersedeRequest, work
  <2>5. ASSUME NEW target \in RequestStatus, TransitionRequest(target)
        PROVE  FALSE
    <3>1. status \notin BeforeSubmission
      BY <2>5, TransitionTargets DEF TransitionRequest, TypeOK
    <3> QED
      BY <3>1
  <2>6. ASSUME NEW i \in 1..Stages PROVE FALSE
    BY <2>6, SMT DEF PlainUse
  <2>7. CASE ApproveReview \/ RequestReviewChanges \/ OverrideReviewAssignment
    BY <2>7 DEF ApproveReview, RequestReviewChanges, OverrideReviewAssignment
  <2>8. CASE CancelRun
    BY <2>8 DEF CancelRun
  <2>9. ASSUME NEW signal \in {"running", "completed", "failed"},
               ReconcileRun(signal)
        PROVE  SubmissionInv'
    BY <2>9 DEF ReconcileRun
  <2>10. CASE PromotionReassessed \/ ExecutePromotion
    BY <2>10 DEF PromotionReassessed, ExecutePromotion
  <2>11. CASE AssignAgentSession
    <3>1. status # "awaiting_input"
      BY <2>11 DEF AssignAgentSession, PlainUse
    <3> QED
      BY <2>11, <3>1 DEF AssignAgentSession, work
  <2>12. CASE PostAgentSessionMessage
    BY <2>12 DEF PostAgentSessionMessage, work
  <2>13. CASE ReturnFromSession
    <3>1. PICK target \in resume : status' = ResumeTarget(target)
      BY <2>13 DEF ReturnFromSession, NoExplicitTargets
    <3> QED
      BY <2>13, <3>1 DEF ReturnFromSession, ResumeTarget, work
  <2>14. CASE ImportAgentSessionArtifact
    BY <2>14 DEF ImportAgentSessionArtifact
  <2>15. ASSUME (\E target \in RequestStatus : TransitionRefused(target))
                \/ RunRequestChecks \/ WorkerRead \/ WorkerCommit \/ WorkerFail
                \/ UNCHANGED vars
         PROVE  SubmissionInv'
    BY <2>15 DEF TransitionRefused, RunRequestChecks, WorkerRead, WorkerCommit,
                 WorkerFail, vars, work
  <2> QED
    BY <2>1, <2>2, <2>3, <2>4, <2>5, <2>6, <2>7, <2>8, <2>9, <2>10, <2>11, <2>12,
       <2>13, <2>14, <2>15 DEF Next
<1> QED
  BY <1>1, <1>2

\* Without overlapping agent sessions and instructional stages, no command
\* carries a request past intake before the author has submitted it.
THEOREM SubmittedFirst ==
  ASSUME NoExplicitTargets, PlainUse
  PROVE  Spec => []OnlyAfterSubmission
<1>1. Init => SubmissionInv
  BY DEF Init, SubmissionInv, BeforeSubmission
<1>2. TypeOK /\ SubmissionInv /\ [Next]_vars => SubmissionInv'
  BY SubmissionStep
<1>3. SubmissionInv => OnlyAfterSubmission
  BY DEF SubmissionInv, BeforeSubmission, OnlyAfterSubmission
<1> QED
  BY <1>1, <1>2, <1>3, TypeCorrect, PTL DEF Spec

-----------------------------------------------------------------------------
(* Closed requests.                                                         *)

\* Nothing but a run, a review item, a promotion record or a session reaches
\* back into a closed request: its table row is empty and the author's
\* commands refuse.
LEMMA ClosedStep ==
  ASSUME [Next]_vars,
         status \in {"canceled", "archived"},
         ~run, review = "none", promotion = "none", resume' = {}
  PROVE  status' \in {"canceled", "archived"}
<1>1. ASSUME NEW target, target \in Targets PROVE FALSE
  BY <1>1 DEF Targets, TRANSITION_RULES, RequestStatus
<1>2. ~SubmitRequest /\ ~AmendRequest
  BY DEF SubmitRequest, SUBMITTABLE_STATUSES, AmendRequest, AMENDABLE_STATUSES
<1>3. CASE CancelRequest \/ SupersedeRequest
  BY <1>3 DEF CancelRequest, SupersedeRequest
<1>4. \A target \in RequestStatus :
         ~TransitionRequest(target) /\ ~TransitionRefused(target)
  BY <1>1 DEF TransitionRequest, TransitionRefused
<1>5. \A i \in 1..Stages, d \in {"approve", "request_changes"} :
         ~DecideInstructionalStage(i, d)
  BY DEF DecideInstructionalStage
<1>6. ~ApproveReview /\ ~RequestReviewChanges /\ ~OverrideReviewAssignment
  BY DEF ApproveReview, RequestReviewChanges, OverrideReviewAssignment
<1>7. ~CancelRun /\ \A signal \in {"running", "completed", "failed"} : ~ReconcileRun(signal)
  BY DEF CancelRun, ReconcileRun
<1>8. ~PromotionReassessed /\ ~ExecutePromotion
  BY DEF PromotionReassessed, ExecutePromotion
<1>9. /\ ~AssignAgentSession
      /\ ~PostAgentSessionMessage
      /\ ~ReturnFromSession
      /\ ~ImportAgentSessionArtifact
  BY DEF AssignAgentSession, PostAgentSessionMessage, ReturnFromSession,
         ImportAgentSessionArtifact
<1>10. CASE UNCHANGED status
  BY <1>10
<1> QED
  BY <1>2, <1>3, <1>4, <1>5, <1>6, <1>7, <1>8, <1>9, <1>10
     DEF Next, RunRequestChecks, WorkerRead, WorkerCommit, WorkerFail, vars

\* A closed request without rows that reach back into it stays closed, for
\* every choice of gates, stages and agent use.
THEOREM ClosedForGood == Spec => ClosedStaysClosed
<1>1. [Next]_vars =>
        [ /\ status \in {"canceled", "archived"}
          /\ ~run /\ review = "none" /\ promotion = "none" /\ resume' = {}
          => status' \in {"canceled", "archived"} ]_vars
  BY ClosedStep
<1> QED
  BY <1>1, PTL DEF Spec, ClosedStaysClosed
=============================================================================
