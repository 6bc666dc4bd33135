---------------------------- MODULE ContentWork ----------------------------
(***************************************************************************)
(* What a request's content goes through: its change set                   *)
(* (ChangeSetService), its workspace (WorkspaceService) and its editorial  *)
(* workflow (EditorialWorkflowService), one row of each.                   *)
(*                                                                         *)
(* An operation reads its row, flushes its UPDATE, which waits for any     *)
(* other transaction that has updated the row, and only then appends its   *)
(* event: the events of one row are in the order of its updates.  Only the *)
(* columns that differ from what was read are in the UPDATE, and no        *)
(* operation asks for a status.                                            *)
(***************************************************************************)
EXTENDS Naturals

CONSTANTS
  Editors,       \* sessions that work at the same time
  Stages,        \* number of stages of the editorial workflow
  Roles, Users,  \* editorial roles and who may hold them
  MaxEdits       \* bound: operations begun in all

\* a workflow without stages has the one it is created in
ASSUME EditorialAssumption == Stages \in Nat \ {0}

VARIABLES
  state,        \* status of each row; the editorial one's is its stage
  roles,        \* the JSON column role_assignments
  work,         \* what each handler has read and is about to write
  workCalls,
  audit,        \* what the last event of each row says of it
  roleAudit,    \* who the last event of each role says holds it
  overwritten   \* history: rows an operation wrote on an outdated read

contentVars == <<state, roles, work, workCalls, audit, roleAudit, overwritten>>

-----------------------------------------------------------------------------
Rows == {"change_set", "workspace", "editorial"}
Nobody == "nobody"
Unoccupied == [op |-> "free"]
StateOf ==
  [change_set |-> {"none", "draft", "submitted", "applied"},
   workspace  |-> {"none", "created", "merged", "abandoned"},
   editorial  |-> 0 .. Stages]
Absent == [change_set |-> "none", workspace |-> "none", editorial |-> 0]
Exists(e) == state[e] # Absent[e]

ContentTypeOK ==
  /\ \A e \in Rows : state[e] \in StateOf[e] /\ audit[e] \in StateOf[e]
  /\ roles \in [Roles -> Users \union {Nobody}]
  /\ roleAudit \in [Roles -> Users \union {Nobody}]
  /\ overwritten \subseteq Rows \union {"roles"}
  /\ \A h \in Editors : work[h].op \in {"free", "update", "assign"}

ContentInit ==
  /\ state = Absent
  /\ roles = [r \in Roles |-> Nobody]
  /\ work = [h \in Editors |-> Unoccupied]
  /\ workCalls = 0
  /\ audit = Absent
  /\ roleAudit = [r \in Roles |-> Nobody]
  /\ overwritten = {}

-----------------------------------------------------------------------------
Initial == [change_set |-> "draft", workspace |-> "created", editorial |-> 1]

\* create_change_set, create_workspace, create_workflow: an INSERT and its event
Create(e) ==
  /\ ~Exists(e)
  /\ state' = [state EXCEPT ![e] = Initial[e]]
  /\ audit' = [audit EXCEPT ![e] = Initial[e]]
  /\ UNCHANGED <<roles, work, workCalls, roleAudit, overwritten>>

ReadRow(h, next) ==
  /\ work[h] = Unoccupied
  /\ workCalls < MaxEdits
  /\ workCalls' = workCalls + 1
  /\ work' = [work EXCEPT ![h] = next]
  /\ UNCHANGED <<state, roles, audit, roleAudit, overwritten>>

Update(h, e, want) ==
  /\ Exists(e)
  /\ ReadRow(h, [op |-> "update", row |-> e, read |-> state[e], want |-> want])

SubmitChangeSet(h)  == Update(h, "change_set", "submitted")
ApplyChangeSet(h)   == Update(h, "change_set", "applied")
MergeWorkspace(h)   == Update(h, "workspace", "merged")
AbandonWorkspace(h) == Update(h, "workspace", "abandoned")

\* current_stage moves on; the statuses inside the stages column are changed
\* in place and never reach the table
AdvanceStage(h) ==
  /\ state["editorial"] < Stages
  /\ Update(h, "editorial", state["editorial"] + 1)

AssignRole(h, r, u) ==
  /\ Exists("editorial")
  /\ ReadRow(h, [op |-> "assign", read |-> roles, role |-> r, user |-> u,
              want |-> [roles EXCEPT ![r] = u]])

ChangedColumn_reread(old, read, want) == IF old # read THEN old ELSE want

\* the column of an UPDATE: left out when what is assigned is what was read
ChangedColumn(old, read, want) == IF want = read THEN old ELSE want

CommitUpdate(h) ==
  /\ work[h].op = "update"
  /\ LET e == work[h].row  read == work[h].read  want == work[h].want IN
       /\ state' = [state EXCEPT ![e] = ChangedColumn(state[e], read, want)]
       /\ audit' = [audit EXCEPT ![e] = want]
       /\ overwritten' = IF want = read /\ state[e] # read
                           THEN overwritten \union {e} ELSE overwritten
  /\ work' = [work EXCEPT ![h] = Unoccupied]
  /\ UNCHANGED <<roles, workCalls, roleAudit>>

CommitAssignment(h) ==
  /\ work[h].op = "assign"
  /\ roles' = ChangedColumn(roles, work[h].read, work[h].want)
  /\ roleAudit' = [roleAudit EXCEPT ![work[h].role] = work[h].user]
  /\ overwritten' = IF roles # work[h].read
                      THEN overwritten \union {"roles"} ELSE overwritten
  /\ work' = [work EXCEPT ![h] = Unoccupied]
  /\ UNCHANGED <<state, workCalls, audit>>

\* the transaction is rolled back, its event with it
RollBackWork(h) ==
  /\ work[h] # Unoccupied
  /\ work' = [work EXCEPT ![h] = Unoccupied]
  /\ UNCHANGED <<state, roles, workCalls, audit, roleAudit, overwritten>>

ContentNext ==
  \/ \E e \in Rows : Create(e)
  \/ \E h \in Editors :
       \/ SubmitChangeSet(h) \/ ApplyChangeSet(h)
       \/ MergeWorkspace(h) \/ AbandonWorkspace(h)
       \/ AdvanceStage(h)
       \/ \E r \in Roles, u \in Users : AssignRole(h, r, u)
       \/ CommitUpdate(h) \/ CommitAssignment(h) \/ RollBackWork(h)

ContentSpec == ContentInit /\ [][ContentNext]_contentVars

-----------------------------------------------------------------------------
\* The event log is the record of what happened to a change set, a workspace
\* or an editorial workflow: the last event of a row says the status it has
\* and the last assignment of a role who holds it, however the calls
\* interleave.  Excepted are a call that repeats a status which another has
\* replaced since (its UPDATE leaves the column out) and roles assigned at the
\* same time (the JSON column is overwritten).
LastEventTellsState ==
  /\ \A e \in Rows \ overwritten : state[e] = audit[e]
  /\ "roles" \notin overwritten => roles = roleAudit
=============================================================================
