-------------------------- MODULE PromotionProofs --------------------------
(***************************************************************************)
(* What Promotion guarantees for any number of sessions, approvers and     *)
(* deployments: its types, that approvals in force were authorized, and    *)
(* that nothing is deployed unjustified.                                   *)
(***************************************************************************)
EXTENDS Promotion, FiniteSetTheorems, TLAPS

\* A session that has begun holds a well-typed list of approvals, and an
\* execution also the results and overrides it judges.
LEMMA WhatSessionsHold ==
  ASSUME NEW st \in SessionStates
  PROVE  /\ st.pc \in Operations => st.approvals \in [Slots -> Approval]
         /\ st.pc = "execute" =>
              st.checks \in Results /\ st.overridden \in SUBSET CheckNames
BY DEF SessionStates, Operations, Idle

\* Evaluations produce results, whatever the request's rows are.
LEMMA EvaluationType ==
  ASSUME NEW bundle \in BOOLEAN, NEW fresh \in BOOLEAN
  PROVE  Evaluation(bundle, fresh) \in Results
BY DEF Evaluation, Results, CheckNames, CheckStates, Policy, Freshness

\* Types hold at the start: the record was just created.
LEMMA InitType == Init => TypeOK
BY ApproversAssumption, BoundsAssumption
   DEF Init, TypeOK, FreshApprovals, Approval, Slots, Results, CheckStates,
       Resting, SessionStates

\* Types are kept by the commands of the API sessions.
LEMMA SessionStepType ==
  ASSUME TypeOK, NEW s \in Sessions, SessionStep(s)
  PROVE  TypeOK'
<1>1. session[s] \in SessionStates
  BY DEF TypeOK
<1>2. ASSUME NEW op \in Operations, Begin(s, op)
      PROVE  TypeOK'
  <2>1. (IF op = "execute"
         THEN [pc |-> op, approvals |-> approvals, checks |-> checks,
               overridden |-> overridden]
         ELSE [pc |-> op, approvals |-> approvals]) \in SessionStates
    BY DEF TypeOK, SessionStates, Operations
  <2>2. session' \in [Sessions -> SessionStates]
    BY <1>2, <2>1 DEF Begin, TypeOK
  <2>. QED
    BY <1>2, <2>2 DEF Begin, TypeOK, record, made, seen
<1>3. CASE CommitAuthorize(s)
  <2>1. session[s].approvals \in [Slots -> Approval]
    BY <1>1, <1>3, WhatSessionsHold DEF CommitAuthorize, Operations
  <2>2. [i \in Slots |-> [session[s].approvals[i] EXCEPT !.state = "approved"]]
           \in [Slots -> Approval]
    BY <2>1 DEF Approval
  <2>3. approvals' \in [Slots -> Approval]
    BY <1>3, <2>2 DEF CommitAuthorize, WriteApprovals, TypeOK
  <2>4. authorized' \subseteq Reviewers
    BY <1>3, <2>1 DEF CommitAuthorize, TypeOK, Approval
  <2>5. session' \in [Sessions -> SessionStates]
    BY <1>3 DEF CommitAuthorize, TypeOK, SessionStates
  <2>. QED
    BY <1>3, <2>3, <2>4, <2>5 DEF CommitAuthorize, TypeOK, made
<1>4. ASSUME NEW i \in Slots, NEW reviewer \in Reviewers,
             CommitReassign(s, i, reviewer)
      PROVE  TypeOK'
  <2>1. session[s].approvals \in [Slots -> Approval]
    BY <1>1, <1>4, WhatSessionsHold DEF CommitReassign, Operations
  <2>2. [session[s].approvals EXCEPT ![i] = [reviewer |-> reviewer, state |-> "pending"]]
           \in [Slots -> Approval]
    BY <2>1 DEF Approval
  <2>3. approvals' \in [Slots -> Approval]
    BY <1>4, <2>2 DEF CommitReassign, WriteApprovals, TypeOK
  <2>4. session' \in [Sessions -> SessionStates]
    BY <1>4 DEF CommitReassign, TypeOK, SessionStates
  <2>. QED
    BY <1>4, <2>3, <2>4 DEF CommitReassign, TypeOK, made, seen
<1>5. CASE AcceptExecution(s)
  BY <1>5 DEF AcceptExecution, TypeOK, record, made, seen, SessionStates
<1>6. CASE Deploy(s)
  BY <1>6, BoundsAssumption DEF Deploy, TypeOK, record, seen, SessionStates
<1>7. CASE CommitExecution(s)
  BY <1>7 DEF CommitExecution, TypeOK, record, seen, SessionStates
<1>8. CASE Abort(s)
  BY <1>8 DEF Abort, TypeOK, record, made, seen, SessionStates
<1>. QED
  BY <1>2, <1>3, <1>4, <1>5, <1>6, <1>7, <1>8 DEF SessionStep

\* Types are kept by every step.
LEMMA NextType == TypeOK /\ [Next]_vars => TypeOK'
<1>. SUFFICES ASSUME TypeOK, [Next]_vars PROVE TypeOK'
  OBVIOUS
<1>1. CASE EnterPromotionPending
  BY <1>1, ApproversAssumption
     DEF EnterPromotionPending, FreshApprovals, TypeOK, Approval, Slots, made, seen
<1>2. ASSUME NEW c \in CheckNames, NEW state \in ManualStates, EvaluateCheck(c, state)
      PROVE  TypeOK'
  <2>1. checks' \in Results
    BY <1>2, ManualAssumption DEF EvaluateCheck, TypeOK, Results, CheckStates
  <2>2. satisfied' \subseteq CheckNames
    BY <1>2 DEF EvaluateCheck, TypeOK, Satisfying
  <2>. QED
    BY <1>2, <2>1, <2>2 DEF EvaluateCheck, TypeOK, made
<1>3. ASSUME NEW c \in CheckNames, OverrideCheck(c)
      PROVE  TypeOK'
  BY <1>3 DEF OverrideCheck, TypeOK, made
<1>4. CASE RunPromotionChecks
  BY <1>4 DEF RunPromotionChecks, TypeOK, made, seen
<1>5. ASSUME NEW bundle \in BOOLEAN, NEW fresh \in BOOLEAN, WorkerRead(bundle, fresh)
      PROVE  TypeOK'
  <2>1. PICK C \in SUBSET CheckNames :
           worker' = [pc |-> "evaluated",
                      writes |-> [c \in C |-> Evaluation(bundle, fresh)[c]]]
    BY <1>5, {d \in CheckNames : Evaluation(bundle, fresh)[d] # checks[d]} \in SUBSET CheckNames
       DEF WorkerRead
  <2>2. [c \in C |-> Evaluation(bundle, fresh)[c]] \in [C -> CheckStates]
    BY EvaluationType, <2>1 DEF Results
  <2>3. worker' \in [pc : {"evaluated"},
                     writes : UNION {[D -> CheckStates] : D \in SUBSET CheckNames}]
    BY <2>1, <2>2
  <2>. QED
    BY <1>5, <2>3 DEF WorkerRead, TypeOK, record, made, seen
<1>6. CASE WorkerCommit
  <2>1. PICK C \in SUBSET CheckNames : worker.writes \in [C -> CheckStates]
    BY <1>6 DEF WorkerCommit, TypeOK, Resting
  <2>2. checks' \in Results
    BY <1>6, <2>1 DEF WorkerCommit, TypeOK, Results
  <2>3. satisfied' \subseteq CheckNames
    BY <1>6 DEF WorkerCommit, TypeOK, Satisfying
  <2>. QED
    BY <1>6, <2>2, <2>3 DEF WorkerCommit, TypeOK, made
<1>7. CASE WorkerFail
  BY <1>7 DEF WorkerFail, TypeOK, made, seen
<1>8. ASSUME NEW s \in Sessions, SessionStep(s) PROVE TypeOK'
  BY <1>8, SessionStepType
<1>9. CASE UNCHANGED vars
  BY <1>9 DEF vars, record, made, seen, TypeOK
<1>. QED
  BY <1>1, <1>2, <1>3, <1>4, <1>5, <1>6, <1>7, <1>8, <1>9 DEF Next

\* The variables keep their types.
THEOREM TypeCorrect == Spec => []TypeOK
<1>1. Init => TypeOK
  BY InitType
<1>2. TypeOK /\ [Next]_vars => TypeOK'
  BY NextType
<1>. QED
  BY <1>1, <1>2, PTL DEF Spec

-----------------------------------------------------------------------------
(* Approvals.                                                              *)

\* Authorizing a list makes every approval on it authorized: those already
\* approved were (the list was read earlier), the pending ones are now.
LEMMA AuthorizedStep == TypeOK /\ AuthorizedInv /\ [Next]_vars => AuthorizedInv'
<1>. SUFFICES ASSUME TypeOK, AuthorizedInv, [Next]_vars PROVE AuthorizedInv'
  OBVIOUS
<1>1. ASSUME UNCHANGED <<approvals, authorized, session>> PROVE AuthorizedInv'
  BY <1>1 DEF AuthorizedInv, Authorized
<1>2. ASSUME NEW s \in Sessions, SessionStep(s) PROVE AuthorizedInv'
  <2>. session \in [Sessions -> SessionStates] /\ session[s] \in SessionStates
    BY DEF TypeOK
  <2>1. ASSUME NEW op \in Operations, Begin(s, op) PROVE AuthorizedInv'
    <3>1. /\ session'[s].approvals = approvals
          /\ \A t \in Sessions \ {s} : session'[t] = session[t]
      BY <2>1 DEF Begin
    <3>. QED
      BY <2>1, <3>1 DEF Begin, record, seen, AuthorizedInv, Authorized
  <2>2. CASE CommitAuthorize(s)
    <3>1. session[s].approvals \in [Slots -> Approval] /\ Authorized(session[s].approvals)
      BY <2>2, WhatSessionsHold DEF CommitAuthorize, Operations, AuthorizedInv
    <3>2. \A i \in Slots : session[s].approvals[i].reviewer \in authorized'
      BY <2>2, <3>1 DEF CommitAuthorize, Authorized, Approval
    <3>3. authorized \subseteq authorized'
      BY <2>2 DEF CommitAuthorize
    <3>4. Authorized(approvals)'
      BY <2>2, <3>1, <3>2, <3>3
         DEF CommitAuthorize, WriteApprovals, AuthorizedInv, Authorized, Approval
    <3>5. /\ session'[s].pc = "idle"
          /\ \A t \in Sessions \ {s} : session'[t] = session[t]
      BY <2>2 DEF CommitAuthorize, Idle
    <3>. QED
      BY <3>3, <3>4, <3>5 DEF AuthorizedInv, Authorized, Operations
  <2>3. ASSUME NEW i \in Slots, NEW reviewer \in Reviewers,
               CommitReassign(s, i, reviewer)
        PROVE  AuthorizedInv'
    <3>1. session[s].approvals \in [Slots -> Approval] /\ Authorized(session[s].approvals)
      BY <2>3, WhatSessionsHold DEF CommitReassign, Operations, AuthorizedInv
    <3>2. authorized' = authorized
      BY <2>3 DEF CommitReassign, seen
    <3>3. Authorized(approvals)'
      BY <2>3, <3>1, <3>2 DEF CommitReassign, WriteApprovals, AuthorizedInv, Authorized
    <3>4. /\ session'[s].pc = "idle"
          /\ \A t \in Sessions \ {s} : session'[t] = session[t]
      BY <2>3 DEF CommitReassign, Idle
    <3>. QED
      BY <3>2, <3>3, <3>4 DEF AuthorizedInv, Authorized, Operations
  <2>4. CASE AcceptExecution(s) \/ Deploy(s) \/ CommitExecution(s) \/ Abort(s)
    <3>1. /\ session'[s].pc \in {"accepted", "deployed", "idle"}
          /\ \A t \in Sessions \ {s} : session'[t] = session[t]
          /\ UNCHANGED <<approvals, authorized>>
      BY <2>4 DEF AcceptExecution, Deploy, CommitExecution, Abort, Idle, record, seen
    <3>. QED
      BY <3>1 DEF AuthorizedInv, Authorized, Operations
  <2>. QED
    BY <1>2, <2>1, <2>2, <2>3, <2>4 DEF SessionStep
<1>3. CASE EnterPromotionPending
  BY <1>3 DEF EnterPromotionPending, FreshApprovals, seen, AuthorizedInv, Authorized
<1>4. ASSUME NEW c \in CheckNames, NEW state \in ManualStates, EvaluateCheck(c, state)
      PROVE  AuthorizedInv'
  BY <1>1, <1>4 DEF EvaluateCheck
<1>5. ASSUME NEW c \in CheckNames, OverrideCheck(c) PROVE AuthorizedInv'
  BY <1>1, <1>5 DEF OverrideCheck
<1>6. ASSUME NEW bundle \in BOOLEAN, NEW fresh \in BOOLEAN, WorkerRead(bundle, fresh)
      PROVE  AuthorizedInv'
  BY <1>1, <1>6 DEF WorkerRead, record, seen
<1>7. CASE RunPromotionChecks \/ WorkerCommit \/ WorkerFail
  BY <1>1, <1>7 DEF RunPromotionChecks, WorkerCommit, WorkerFail, seen
<1>8. CASE UNCHANGED vars
  BY <1>1, <1>8 DEF vars, record, seen
<1>. QED
  BY <1>2, <1>3, <1>4, <1>5, <1>6, <1>7, <1>8 DEF Next

\* An approval in force was given by an authorize command to the reviewer it
\* names, whatever other sessions reassign or reset meanwhile.
THEOREM OnlyAuthorizedApprovals == Spec => []ApprovalsWereAuthorized
<1>1. Init => AuthorizedInv
  BY DEF Init, FreshApprovals, AuthorizedInv, Authorized, Idle, Operations
<1>2. AuthorizedInv => ApprovalsWereAuthorized
  BY DEF AuthorizedInv, Authorized, ApprovalsWereAuthorized
<1>. QED
  BY <1>1, <1>2, AuthorizedStep, TypeCorrect, PTL DEF Spec

-----------------------------------------------------------------------------
(* Deployments.                                                            *)

\* An execution that is accepted on the values it read is justified, because
\* what justified those values when they were written is never undone.
LEMMA JustifiedStep ==
  TypeOK /\ AuthorizedInv /\ JustifiedInv /\ [Next]_vars => JustifiedInv'
<1>. SUFFICES ASSUME TypeOK, AuthorizedInv, JustifiedInv, [Next]_vars
              PROVE  JustifiedInv'
  OBVIOUS
<1>1. authorized \subseteq authorized' /\ satisfied \subseteq satisfied'
      /\ satisfied' \subseteq CheckNames
  <2>1. authorized \subseteq authorized' /\ satisfied \subseteq satisfied'
    BY DEF Next, SessionStep, EnterPromotionPending, EvaluateCheck, OverrideCheck,
           RunPromotionChecks, WorkerRead, WorkerCommit, WorkerFail, Begin,
           CommitAuthorize, CommitReassign, AcceptExecution, Deploy,
           CommitExecution, Abort, vars, seen
  <2>. QED
    BY <2>1, NextType DEF TypeOK
<1>2. Justified => Justified'
  BY <1>1 DEF Justified
<1>3. ASSUME UNCHANGED <<session, deployments>>,
             Satisfying(checks') \union overridden' \subseteq satisfied'
      PROVE  JustifiedInv'
  BY <1>1, <1>2, <1>3 DEF JustifiedInv, Satisfying
<1>4. ASSUME NEW s \in Sessions, SessionStep(s) PROVE JustifiedInv'
  <2>. session \in [Sessions -> SessionStates] /\ session[s] \in SessionStates
    BY DEF TypeOK
  <2>1. UNCHANGED <<checks, overridden>>
    BY <1>4 DEF SessionStep, Begin, CommitAuthorize, CommitReassign, AcceptExecution,
                Deploy, CommitExecution, Abort, record
  <2>2. \A t \in Sessions \ {s} : session'[t] = session[t]
    BY <1>4 DEF SessionStep, Begin, CommitAuthorize, CommitReassign, AcceptExecution,
                Deploy, CommitExecution, Abort
  <2>3. ASSUME session'[s].pc = "execute" =>
                 Satisfying(session'[s].checks) \union session'[s].overridden \subseteq satisfied',
               session'[s].pc \in {"accepted", "deployed"} => Justified',
               deployments' > 0 => Justified'
        PROVE  JustifiedInv'
    BY <1>1, <1>2, <2>1, <2>2, <2>3 DEF JustifiedInv, Satisfying
  <2>4. ASSUME NEW op \in Operations, Begin(s, op) PROVE JustifiedInv'
    <3>1. /\ session'[s].pc = op
          /\ op = "execute" => session'[s].checks = checks /\ session'[s].overridden = overridden
          /\ deployments' = deployments
      BY <2>4 DEF Begin, made
    <3>2. deployments' > 0 => Justified'
      BY <1>2, <3>1 DEF JustifiedInv
    <3>. QED
      BY <1>1, <2>3, <3>1, <3>2 DEF JustifiedInv, Operations, Satisfying
  <2>5. CASE AcceptExecution(s)
    <3>1. /\ session[s].pc = "execute"
          /\ PromotionReady(session[s].checks, session[s].overridden, session[s].approvals)
          /\ session'[s].pc = "accepted"
          /\ UNCHANGED <<deployments, authorized, satisfied>>
      BY <2>5 DEF AcceptExecution, made, seen
    <3>2. satisfied = CheckNames
      BY <3>1 DEF PromotionReady, JustifiedInv, Satisfying, TypeOK
    <3>3. authorized # {}
      <4>1. PICK i \in Slots : TRUE
        BY ApproversAssumption DEF Slots
      <4>2. session[s].approvals[i].reviewer \in authorized
        BY <3>1, <4>1 DEF PromotionReady, AuthorizedInv, Authorized, Operations
      <4>. QED
        BY <4>2
    <3>. QED
      BY <2>3, <3>1, <3>2, <3>3 DEF Justified
  <2>6. CASE Deploy(s)
    <3>1. session[s].pc = "accepted" /\ session'[s].pc = "deployed"
      BY <2>6 DEF Deploy
    <3>2. Justified'
      BY <1>2, <3>1 DEF JustifiedInv
    <3>. QED
      BY <2>3, <3>1, <3>2
  <2>7. ASSUME session'[s].pc = "idle", deployments' = deployments PROVE JustifiedInv'
    BY <1>2, <2>3, <2>7 DEF JustifiedInv
  <2>8. CASE CommitAuthorize(s)
    BY <2>7, <2>8 DEF CommitAuthorize, Idle, made
  <2>9. ASSUME NEW i \in Slots, NEW reviewer \in Reviewers,
               CommitReassign(s, i, reviewer)
        PROVE  JustifiedInv'
    BY <2>7, <2>9 DEF CommitReassign, Idle, made
  <2>10. CASE CommitExecution(s) \/ Abort(s)
    BY <2>7, <2>10 DEF CommitExecution, Abort, Idle, made
  <2>. QED
    BY <1>4, <2>4, <2>5, <2>6, <2>8, <2>9, <2>10 DEF SessionStep
<1>5. ASSUME NEW c \in CheckNames, NEW state \in ManualStates, EvaluateCheck(c, state)
      PROVE  JustifiedInv'
  BY <1>1, <1>3, <1>5 DEF EvaluateCheck, JustifiedInv, made
<1>6. ASSUME NEW c \in CheckNames, OverrideCheck(c) PROVE JustifiedInv'
  BY <1>1, <1>3, <1>6 DEF OverrideCheck, JustifiedInv, made
<1>7. CASE WorkerCommit
  BY <1>1, <1>3, <1>7 DEF WorkerCommit, JustifiedInv, made
<1>8. ASSUME NEW bundle \in BOOLEAN, NEW fresh \in BOOLEAN, WorkerRead(bundle, fresh)
      PROVE  JustifiedInv'
  BY <1>3, <1>8 DEF WorkerRead, JustifiedInv, record, made, seen
<1>9. CASE EnterPromotionPending \/ RunPromotionChecks \/ WorkerFail
  BY <1>3, <1>9 DEF EnterPromotionPending, RunPromotionChecks, WorkerFail,
                    JustifiedInv, made, seen
<1>10. CASE UNCHANGED vars
  BY <1>3, <1>10 DEF vars, record, made, seen, JustifiedInv
<1>. QED
  BY <1>4, <1>5, <1>6, <1>7, <1>8, <1>9, <1>10 DEF Next

\* No deployment without an authorization and a pass or override of each
\* check, for any number of concurrent sessions and of approvers.
THEOREM DeploymentsAreJustified == Spec => []DeploymentsJustified
<1>1. Init => AuthorizedInv /\ JustifiedInv
  BY DEF Init, FreshApprovals, AuthorizedInv, Authorized, Idle, Operations,
         JustifiedInv, Satisfying
<1>2. JustifiedInv => DeploymentsJustified
  BY DEF JustifiedInv, Justified, DeploymentsJustified
<1>. QED
  BY <1>1, <1>2, AuthorizedStep, JustifiedStep, TypeCorrect, PTL DEF Spec

-----------------------------------------------------------------------------
(* Deployment rows.                                                        *)

\* The sessions about to write a row can be counted.
LEMMA DeployingFinite == IsFiniteSet(Deploying) /\ Cardinality(Deploying) \in Nat
BY SessionsAssumption, FS_Subset, FS_CardinalityType, Deploying \in SUBSET Sessions
   DEF Deploying

\* A session deploys before it owes a row, and owes it until it writes or
\* loses it.
LEMMA RecordsStep ==
  TypeOK /\ RecordsAreDeployments /\ [Next]_vars => RecordsAreDeployments'
<1>. SUFFICES ASSUME TypeOK, RecordsAreDeployments, [Next]_vars
              PROVE  RecordsAreDeployments'
  OBVIOUS
<1>0. recorded \in Nat /\ deployments \in Nat /\ session \in [Sessions -> SessionStates]
  BY BoundsAssumption DEF TypeOK
<1>1. ASSUME UNCHANGED <<recorded, deployments>>, Deploying' = Deploying
      PROVE  RecordsAreDeployments'
  BY <1>1 DEF RecordsAreDeployments
<1>2. ASSUME UNCHANGED session PROVE Deploying' = Deploying
  BY <1>2 DEF Deploying
<1>3. ASSUME NEW s \in Sessions, SessionStep(s) PROVE RecordsAreDeployments'
  <2>1. \A t \in Sessions \ {s} : session'[t] = session[t]
    BY <1>0, <1>3
       DEF SessionStep, Begin, CommitAuthorize, CommitReassign, AcceptExecution,
           Deploy, CommitExecution, Abort
  <2>2. session'[s].pc # "deployed" => Deploying' = Deploying \ {s}
    BY <2>1 DEF Deploying
  <2>3. /\ session'[s].pc = "deployed" => Deploying' = Deploying \union {s}
        /\ session[s].pc # "deployed" <=> s \notin Deploying
    BY <2>1 DEF Deploying
  <2>4. ASSUME UNCHANGED <<recorded, deployments>>, session'[s].pc # "deployed"
        PROVE  RecordsAreDeployments'
    <3>1. Cardinality(Deploying') <= Cardinality(Deploying)
      BY <2>2, <2>4, DeployingFinite, FS_Subset, Deploying \ {s} \in SUBSET Deploying
    <3>2. Cardinality(Deploying') \in Nat
      BY <2>2, <2>4, DeployingFinite, FS_RemoveElement, FS_CardinalityType
    <3>. QED
      BY <1>0, <2>4, <3>1, <3>2, DeployingFinite DEF RecordsAreDeployments
  <2>5. ASSUME NEW op \in Operations, Begin(s, op) PROVE RecordsAreDeployments'
    <3>1. session'[s].pc = op
      BY <1>0, <2>5 DEF Begin
    <3>. QED
      BY <2>4, <2>5, <3>1 DEF Begin, made, Operations
  <2>6. CASE CommitAuthorize(s)
    BY <1>0, <2>4, <2>6 DEF CommitAuthorize, Idle, made
  <2>7. ASSUME NEW i \in Slots, NEW reviewer \in Reviewers,
               CommitReassign(s, i, reviewer)
        PROVE  RecordsAreDeployments'
    BY <1>0, <2>4, <2>7 DEF CommitReassign, Idle, made
  <2>8. CASE AcceptExecution(s) \/ Abort(s)
    BY <1>0, <2>4, <2>8 DEF AcceptExecution, Abort, Idle, made
  <2>9. CASE Deploy(s)
    <3>1. /\ session[s].pc = "accepted"
          /\ session'[s].pc = "deployed"
          /\ deployments' = deployments + 1
          /\ recorded' = recorded
      BY <1>0, <2>9 DEF Deploy
    <3>2. Cardinality(Deploying') = Cardinality(Deploying) + 1
      BY <2>3, <3>1, DeployingFinite, FS_AddElement
    <3>. QED
      BY <1>0, <3>1, <3>2, DeployingFinite DEF RecordsAreDeployments
  <2>10. CASE CommitExecution(s)
    <3>1. /\ session[s].pc = "deployed"
          /\ session'[s].pc = "idle"
          /\ recorded' = recorded + 1
          /\ deployments' = deployments
      BY <1>0, <2>10 DEF CommitExecution, Idle
    <3>2. Cardinality(Deploying') = Cardinality(Deploying) - 1
      BY <2>2, <2>3, <3>1, DeployingFinite, FS_RemoveElement
    <3>. QED
      BY <1>0, <3>1, <3>2, DeployingFinite DEF RecordsAreDeployments
  <2>. QED
    BY <1>3, <2>5, <2>6, <2>7, <2>8, <2>9, <2>10 DEF SessionStep
<1>4. ASSUME UNCHANGED <<session, made>> PROVE RecordsAreDeployments'
  BY <1>1, <1>2, <1>4 DEF made
<1>. QED
  BY <1>3, <1>4
     DEF Next, EnterPromotionPending, EvaluateCheck, OverrideCheck, RunPromotionChecks,
         WorkerRead, WorkerCommit, WorkerFail, vars

\* Rows never outnumber deployments, for any number of sessions that execute,
\* fail or die between the two.
THEOREM RowsStandForDeployments == Spec => []RecordsAreDeployments
<1>1. Init => RecordsAreDeployments
  <2>. SUFFICES ASSUME Init PROVE RecordsAreDeployments
    OBVIOUS
  <2>1. Deploying = {}
    BY DEF Init, Deploying, Idle
  <2>. QED
    BY <2>1, FS_EmptySet DEF Init, RecordsAreDeployments
<1>. QED
  BY <1>1, RecordsStep, TypeCorrect, PTL DEF Spec
=============================================================================
