----------------------------- MODULE Promotion -----------------------------
(***************************************************************************)
(* One promotion record: its approvals, its checks, their overrides, the   *)
(* worker that evaluates the checks, and the deployments made for it.      *)
(*                                                                         *)
(* The commands that read the record first and write it later (authorize,  *)
(* reassign an approval, execute) are split at the points where another    *)
(* session can commit: the database is READ COMMITTED, rows carry no       *)
(* version check, and the session writes a column at its end only if the   *)
(* value differs from the one it read.  execution_readiness,               *)
(* required_checks and promotion_history only display this state; they are *)
(* left out, and with them dry_run, which writes nothing else.             *)
(***************************************************************************)
EXTENDS Naturals, FiniteSets

CONSTANTS
  Sessions,         \* API sessions; each serves one command after the other
  Approvers,        \* approvers the routing of the request names, in order
  Reviewers,        \* all reviewers, with those an approval is reassigned to
  ManualStates,     \* states evaluate_check is called with
  MaxDeployments    \* bound on deployments

ASSUME SessionsAssumption == IsFiniteSet(Sessions)
ASSUME ApproversAssumption ==
  /\ DOMAIN Approvers \subseteq Nat
  /\ DOMAIN Approvers # {}
  /\ Approvers \in [DOMAIN Approvers -> Reviewers]
ASSUME ManualAssumption == ManualStates \subseteq {"pending", "passed", "failed"}
ASSUME BoundsAssumption == MaxDeployments \in Nat

Slots       == DOMAIN Approvers
Policy      == "Policy Bundle"
Freshness   == "Approval Freshness"
CheckNames  == {Policy, Freshness}
CheckStates == {"pending", "passed", "failed"}
Results     == [CheckNames -> CheckStates]
Approval    == [reviewer : Reviewers, state : {"pending", "approved"}]

VARIABLES
  approvals,    \* required_approvals of the record
  checks,       \* check_results of the record
  overridden,   \* checks with an approved override
  pendingRun,   \* a promotion check run is queued or running
  worker,       \* results the worker computed and will write, or Resting
  session,      \* what each API session has read and how far it is
  deployments,  \* deployments the runtime carried out
  recorded,     \* deployment_executions rows
  authorized,   \* reviewers some authorize command approved for (history)
  satisfied     \* checks that passed or were overridden once (history)

record == <<approvals, checks, overridden, pendingRun>>
made   == <<deployments, recorded>>
seen   == <<authorized, satisfied>>
vars   == <<record, worker, session, made, seen>>

Resting == [pc |-> "resting"]
Idle    == [pc |-> "idle"]

-----------------------------------------------------------------------------
\* Faulty variant: a check blocks only once it has failed.
PromotionReady_notFailed(results, overrides, signatures) ==
  /\ \A c \in CheckNames : results[c] # "failed" \/ c \in overrides
  /\ \A i \in Slots : signatures[i].state = "approved"

\* promotion_ready
PromotionReady(results, overrides, signatures) ==
  /\ \A c \in CheckNames : results[c] = "passed" \/ c \in overrides
  /\ \A i \in Slots : signatures[i].state = "approved"

FreshApprovals == [i \in Slots |-> [reviewer |-> Approvers[i], state |-> "pending"]]

\* _ensure_promotion_record on the first entry, and the checks it queues.
Init ==
  /\ approvals = FreshApprovals
  /\ checks = [c \in CheckNames |-> "pending"]
  /\ overridden = {}
  /\ pendingRun = TRUE
  /\ worker = Resting
  /\ session = [s \in Sessions |-> Idle]
  /\ deployments = 0
  /\ recorded = 0
  /\ authorized = {}
  /\ satisfied = {}

\* Later entries find the record: approvals start over, checks and overrides
\* stay as they are, and an evaluation is queued.
EnterPromotionPending ==
  /\ approvals' = FreshApprovals
  /\ pendingRun' = TRUE
  /\ UNCHANGED <<checks, overridden, worker, session, made, seen>>

-----------------------------------------------------------------------------
(* Checks: manual evaluation, override, and the automated evaluation.      *)

Satisfying(results) == {c \in CheckNames : results[c] = "passed"}

EvaluateCheck(c, state) ==
  /\ checks' = [checks EXCEPT ![c] = state]
  /\ satisfied' = satisfied \union Satisfying(checks')
  /\ UNCHANGED <<approvals, overridden, pendingRun, worker, session,
                 made, authorized>>

\* Faulty variant: the override is written over the result.
OverrideCheck_inPlace(c) ==
  /\ checks' = [checks EXCEPT ![c] = "overridden"]
  /\ UNCHANGED <<approvals, overridden, pendingRun, worker, session, made, seen>>

OverrideCheck(c) ==
  /\ overridden' = overridden \union {c}
  /\ satisfied' = satisfied \union {c}
  /\ UNCHANGED <<approvals, checks, pendingRun, worker, session, made,
                 authorized>>

RunPromotionChecks ==
  /\ pendingRun' = TRUE
  /\ UNCHANGED <<approvals, checks, overridden, worker, session, made, seen>>

\* run_promotion_checks, on whatever the request's policy context, artifact
\* and review item are at this moment.
Evaluation(bundle, fresh) ==
  [c \in CheckNames |->
     CASE c = Policy    -> IF bundle THEN "passed" ELSE "failed"
       [] c = Freshness -> IF fresh THEN "passed" ELSE "pending"]

\* Only the results that differ from those read are written.
WorkerRead(bundle, fresh) ==
  /\ pendingRun
  /\ worker = Resting
  /\ LET computed == Evaluation(bundle, fresh)
     IN  worker' = [pc |-> "evaluated",
                    writes |-> [c \in {d \in CheckNames : computed[d] # checks[d]}
                                  |-> computed[c]]]
  /\ UNCHANGED <<record, session, made, seen>>

WorkerCommit ==
  /\ worker # Resting
  /\ checks' = [c \in CheckNames |->
       IF c \in DOMAIN worker.writes THEN worker.writes[c] ELSE checks[c]]
  /\ pendingRun' = FALSE
  /\ worker' = Resting
  /\ satisfied' = satisfied \union Satisfying(checks')
  /\ UNCHANGED <<approvals, overridden, session, made, authorized>>

WorkerFail ==
  /\ pendingRun
  /\ pendingRun' = FALSE
  /\ worker' = Resting
  /\ UNCHANGED <<approvals, checks, overridden, session, made, seen>>

-----------------------------------------------------------------------------
(* apply_promotion_action and override_promotion_approval.                 *)

Operations == {"authorize", "reassign", "execute"}

\* The record is read first, by an execution with its results and overrides.
Begin(s, op) ==
  /\ session[s] = Idle
  /\ session' = [session EXCEPT
       ![s] = IF op = "execute"
              THEN [pc |-> op, approvals |-> approvals, checks |-> checks,
                    overridden |-> overridden]
              ELSE [pc |-> op, approvals |-> approvals]]
  /\ UNCHANGED <<record, worker, made, seen>>

WriteApprovals(s, new) ==
  approvals' = IF new = session[s].approvals THEN approvals ELSE new

CommitAuthorize(s) ==
  /\ session[s].pc = "authorize"
  /\ WriteApprovals(s, [i \in Slots |-> [session[s].approvals[i] EXCEPT !.state = "approved"]])
  /\ authorized' = authorized \union
       {session[s].approvals[i].reviewer :
          i \in {j \in Slots : session[s].approvals[j].state = "pending"}}
  /\ session' = [session EXCEPT ![s] = Idle]
  /\ UNCHANGED <<checks, overridden, pendingRun, worker, made, satisfied>>

\* The first approval that names the reviewer to be replaced.
FirstOf(i, signatures) ==
  \A j \in Slots : j < i => signatures[j].reviewer # signatures[i].reviewer

\* Faulty variant: the replacement inherits the approval.
CommitReassign_keepsState(s, i, reviewer) ==
  /\ session[s].pc = "reassign"
  /\ FirstOf(i, session[s].approvals)
  /\ WriteApprovals(s, [session[s].approvals EXCEPT ![i].reviewer = reviewer])
  /\ session' = [session EXCEPT ![s] = Idle]
  /\ UNCHANGED <<checks, overridden, pendingRun, worker, made, seen>>

CommitReassign(s, i, reviewer) ==
  /\ session[s].pc = "reassign"
  /\ FirstOf(i, session[s].approvals)
  /\ WriteApprovals(s, [session[s].approvals EXCEPT
                          ![i] = [reviewer |-> reviewer, state |-> "pending"]])
  /\ session' = [session EXCEPT ![s] = Idle]
  /\ UNCHANGED <<checks, overridden, pendingRun, worker, made, seen>>

\* Pending check runs are looked up after the results were read.
AcceptExecution(s) ==
  /\ session[s].pc = "execute"
  /\ ~pendingRun
  /\ PromotionReady(session[s].checks, session[s].overridden, session[s].approvals)
  /\ session' = [session EXCEPT ![s] = [pc |-> "accepted"]]
  /\ UNCHANGED <<record, worker, made, seen>>

\* deployment_service.execute: the call to the runtime, before the commit.
Deploy(s) ==
  /\ session[s].pc = "accepted"
  /\ deployments < MaxDeployments
  /\ deployments' = deployments + 1
  /\ session' = [session EXCEPT ![s] = [pc |-> "deployed"]]
  /\ UNCHANGED <<record, worker, recorded, seen>>

\* Faulty variant: the deployment is recorded when its execution is accepted.
CommitExecution_early(s) ==
  /\ session[s].pc \in {"accepted", "deployed"}
  /\ recorded' = recorded + 1
  /\ session' = [session EXCEPT ![s] = Idle]
  /\ UNCHANGED <<record, worker, deployments, seen>>

\* All approvals were "approved" when read, so none is written again.
CommitExecution(s) ==
  /\ session[s].pc = "deployed"
  /\ recorded' = recorded + 1
  /\ session' = [session EXCEPT ![s] = Idle]
  /\ UNCHANGED <<record, worker, deployments, seen>>

\* A guard refuses, the runtime reports an error, or the process dies.
Abort(s) ==
  /\ session[s] # Idle
  /\ session' = [session EXCEPT ![s] = Idle]
  /\ UNCHANGED <<record, worker, made, seen>>

SessionStep(s) ==
  \/ \E op \in Operations : Begin(s, op)
  \/ CommitAuthorize(s)
  \/ \E i \in Slots, reviewer \in Reviewers : CommitReassign(s, i, reviewer)
  \/ AcceptExecution(s)
  \/ Deploy(s)
  \/ CommitExecution(s)
  \/ Abort(s)

Next ==
  \/ EnterPromotionPending
  \/ \E c \in CheckNames, state \in ManualStates : EvaluateCheck(c, state)
  \/ \E c \in CheckNames : OverrideCheck(c)
  \/ RunPromotionChecks
  \/ \E bundle, fresh \in BOOLEAN : WorkerRead(bundle, fresh)
  \/ WorkerCommit
  \/ WorkerFail
  \/ \E s \in Sessions : SessionStep(s)

Spec == Init /\ [][Next]_vars

-----------------------------------------------------------------------------
(* Properties.                                                             *)

SessionStates ==
  {Idle}
  \union [pc : {"authorize", "reassign"}, approvals : [Slots -> Approval]]
  \union [pc : {"execute"}, approvals : [Slots -> Approval], checks : Results,
          overridden : SUBSET CheckNames]
  \union [pc : {"accepted", "deployed"}]

\* Types of all variables.
TypeOK ==
  /\ approvals \in [Slots -> Approval]
  /\ checks \in Results
  /\ overridden \subseteq CheckNames
  /\ pendingRun \in BOOLEAN
  /\ worker \in [pc : {"evaluated"},
                  writes : UNION {[C -> CheckStates] : C \in SUBSET CheckNames}]
                 \union {Resting}
  /\ session \in [Sessions -> SessionStates]
  /\ deployments \in 0..MaxDeployments
  /\ recorded \in Nat
  /\ authorized \subseteq Reviewers
  /\ satisfied \subseteq CheckNames

\* An approval reads "approved" only for a reviewer an authorize command found
\* pending, however reassignments, new rounds and authorizations overwrite
\* each other's lists.
ApprovalsWereAuthorized ==
  \A i \in Slots :
     approvals[i].state = "approved" => approvals[i].reviewer \in authorized

\* Nothing is deployed before somebody authorized the promotion and every
\* check passed or was overridden at some time, whatever the sessions and the
\* worker wrote between an execution's reads and its deployment.
DeploymentsJustified ==
  deployments > 0 => authorized # {} /\ satisfied = CheckNames

Deploying == {s \in Sessions : session[s].pc = "deployed"}

\* Each deployment row, and each one about to be written, stands for a
\* deployment of its own: a crash may lose a row but never invents one.
RecordsAreDeployments == recorded + Cardinality(Deploying) <= deployments

\* build_pack_3.md: "Only one active promotion execution per scope object."
OneActiveExecution ==
  \A s, t \in Sessions :
     s # t => ~(/\ session[s].pc \in {"accepted", "deployed"}
                /\ session[t].pc \in {"accepted", "deployed"})

\* requirements.md: "Promotion SHALL require all approvals and checks.": when
\* an execution is accepted, every check passes or is overridden.
AcceptedOnCurrentResults ==
  [][ \A s \in Sessions :
        session[s].pc = "execute" /\ session'[s].pc = "accepted"
          => \A c \in CheckNames : checks[c] = "passed" \/ c \in overridden ]_vars

-----------------------------------------------------------------------------
(* Strengthenings that are inductive (given TypeOK); PromotionProofs proves *)
(* them.  A list of approvals a session has read is as good as the list in  *)
(* the record, and so are the results and overrides it has read.            *)

Authorized(signatures) ==
  \A i \in Slots :
     signatures[i].state = "approved" => signatures[i].reviewer \in authorized

AuthorizedInv ==
  /\ Authorized(approvals)
  /\ \A s \in Sessions :
        session[s].pc \in Operations => Authorized(session[s].approvals)

Justified == authorized # {} /\ satisfied = CheckNames

JustifiedInv ==
  /\ Satisfying(checks) \union overridden \subseteq satisfied
  /\ \A s \in Sessions : session[s].pc = "execute" =>
        Satisfying(session[s].checks) \union session[s].overridden \subseteq satisfied
  /\ \A s \in Sessions : session[s].pc \in {"accepted", "deployed"} => Justified
  /\ deployments > 0 => Justified
=============================================================================
