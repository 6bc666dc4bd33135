---------------------------- MODULE ContentProofs ----------------------------
(***************************************************************************)
(* Proofs about the services that keep the content of requests: change     *)
(* sets, workspaces and editorial workflows (ContentWork), knowledge       *)
(* artifacts (Knowledge), the collaboration mode (Collaboration) and       *)
(* templates (Templates), for any sessions, users, rows and bounds.        *)
(***************************************************************************)
EXTENDS ContentWork, Knowledge, Collaboration, Templates, TLAPS

-----------------------------------------------------------------------------
(* Content work *)

\* What a handler has read of a row and is about to write there.
Updating(w) ==
  /\ w.op = "update"
  /\ w.row \in Rows
  /\ w.read \in StateOf[w.row]
  /\ w.want \in StateOf[w.row]

\* What a handler has read of the roles, and its one change to them.
Assigning(w) ==
  /\ w.op = "assign"
  /\ w.role \in Roles
  /\ w.user \in Users
  /\ w.read \in [Roles -> Users \union {Nobody}]
  /\ w.want = [w.read EXCEPT ![w.role] = w.user]

\* A handler is free, or it has read a row or the roles.
WorkInv ==
  /\ DOMAIN state = Rows /\ DOMAIN audit = Rows /\ DOMAIN work = Editors
  /\ \A h \in Editors : work[h] = Unoccupied \/ Updating(work[h]) \/ Assigning(work[h])

ContentInv == ContentTypeOK /\ WorkInv

\* A row's states, those it has before and after its creation among them.
LEMMA RowStates ==
  /\ \A e \in Rows : Absent[e] \in StateOf[e] /\ Initial[e] \in StateOf[e]
  /\ {"submitted", "applied"} \subseteq StateOf["change_set"]
  /\ {"merged", "abandoned"} \subseteq StateOf["workspace"]
  /\ StateOf["editorial"] = 0 .. Stages
BY EditorialAssumption DEF Rows, Absent, Initial, StateOf

\* The operation a handler is at tells what it has read.
LEMMA WorkOperations ==
  ASSUME NEW w, w = Unoccupied \/ Updating(w) \/ Assigning(w)
  PROVE  /\ w.op \in {"free", "update", "assign"}
         /\ w.op = "update" => Updating(w)
         /\ w.op = "assign" => Assigning(w)
<1>1. Updating(w) => w.op = "update"
  BY DEF Updating
<1>2. Assigning(w) => w.op = "assign"
  BY DEF Assigning
<1>3. w = Unoccupied => w.op = "free"
  BY DEF Unoccupied
<1> QED  BY <1>1, <1>2, <1>3

\* A handler that takes something up, or puts it down, leaves the others alone.
LEMMA WorkChanges ==
  ASSUME ContentInv, NEW h \in Editors, NEW w,
         w = Unoccupied \/ Updating(w) \/ Assigning(w),
         work' = [work EXCEPT ![h] = w],
         DOMAIN state' = Rows, DOMAIN audit' = Rows
  PROVE  /\ WorkInv'
         /\ \A g \in Editors : work'[g].op \in {"free", "update", "assign"}
<1>1. DOMAIN work' = Editors /\ \A g \in Editors : work'[g] = IF g = h THEN w ELSE work[g]
  BY DEF ContentInv, WorkInv
<1>2. \A g \in Editors : work'[g] = Unoccupied \/ Updating(work'[g]) \/ Assigning(work'[g])
  BY <1>1 DEF ContentInv, WorkInv
<1>3. \A g \in Editors : work'[g].op \in {"free", "update", "assign"}
  BY <1>2, WorkOperations
<1> QED  BY <1>1, <1>2, <1>3 DEF WorkInv

\* The reading half of an operation changes nothing but its handler.
LEMMA ReadContent ==
  ASSUME ContentInv, NEW h \in Editors, NEW w, Updating(w) \/ Assigning(w), ReadRow(h, w)
  PROVE  ContentInv' /\ UNCHANGED <<state, roles, audit, roleAudit, overwritten>>
<1>1. work' = [work EXCEPT ![h] = w] /\ UNCHANGED <<state, roles, audit, roleAudit, overwritten>>
  BY DEF ReadRow
<1>2. DOMAIN state' = Rows /\ DOMAIN audit' = Rows
  BY <1>1 DEF ContentInv, WorkInv
<1>3. WorkInv' /\ \A g \in Editors : work'[g].op \in {"free", "update", "assign"}
  BY <1>1, <1>2, WorkChanges
<1> QED  BY <1>1, <1>3 DEF ContentInv, ContentTypeOK

\* Every operation reads what it says it reads, and asks for a state of its row.
LEMMA BeginContent ==
  ASSUME ContentInv, NEW h \in Editors,
         \/ SubmitChangeSet(h) \/ ApplyChangeSet(h)
         \/ MergeWorkspace(h) \/ AbandonWorkspace(h) \/ AdvanceStage(h)
         \/ \E r \in Roles, u \in Users : AssignRole(h, r, u)
  PROVE  ContentInv' /\ UNCHANGED <<state, roles, audit, roleAudit, overwritten>>
<1>1. ASSUME NEW e \in Rows, NEW want \in StateOf[e], Update(h, e, want)
      PROVE  ContentInv' /\ UNCHANGED <<state, roles, audit, roleAudit, overwritten>>
  <2> DEFINE w == [op |-> "update", row |-> e, read |-> state[e], want |-> want]
  <2>1. Updating(w)
    BY DEF Updating, ContentInv, ContentTypeOK
  <2>2. ReadRow(h, w)
    BY <1>1 DEF Update
  <2> QED  BY <2>1, <2>2, ReadContent
<1>2. CASE AdvanceStage(h)
  <2>1. state["editorial"] \in 0 .. Stages /\ state["editorial"] + 1 <= Stages
    BY <1>2, RowStates, EditorialAssumption DEF AdvanceStage, ContentInv, ContentTypeOK, Rows
  <2>2. state["editorial"] + 1 \in StateOf["editorial"] /\ "editorial" \in Rows
    BY <2>1, RowStates, EditorialAssumption DEF Rows
  <2> QED  BY <1>1, <1>2, <2>2 DEF AdvanceStage
<1>3. ASSUME NEW r \in Roles, NEW u \in Users, AssignRole(h, r, u)
      PROVE  ContentInv' /\ UNCHANGED <<state, roles, audit, roleAudit, overwritten>>
  <2> DEFINE w == [op |-> "assign", read |-> roles, role |-> r, user |-> u,
                   want |-> [roles EXCEPT ![r] = u]]
  <2>1. Assigning(w)
    BY DEF Assigning, ContentInv, ContentTypeOK
  <2>2. ReadRow(h, w)
    BY <1>3 DEF AssignRole
  <2> QED  BY <2>1, <2>2, ReadContent
<1>4. {"change_set", "workspace"} \subseteq Rows
  BY DEF Rows
<1> QED
  BY <1>1, <1>2, <1>3, <1>4, RowStates
     DEF SubmitChangeSet, ApplyChangeSet, MergeWorkspace, AbandonWorkspace

\* An insertion gives its row and event the initial state.
LEMMA CreateContent ==
  ASSUME ContentInv, NEW e \in Rows, Create(e)
  PROVE  ContentInv' /\ (LastEventTellsState => LastEventTellsState')
<1>1. /\ state' = [state EXCEPT ![e] = Initial[e]]
      /\ audit' = [audit EXCEPT ![e] = Initial[e]]
      /\ UNCHANGED <<roles, work, workCalls, roleAudit, overwritten>>
  BY DEF Create
<1>2. ContentTypeOK'
  BY <1>1, RowStates DEF ContentInv, ContentTypeOK, WorkInv
<1>3. WorkInv'
  BY <1>1 DEF ContentInv, WorkInv
<1>4. LastEventTellsState => LastEventTellsState'
  BY <1>1 DEF LastEventTellsState, ContentInv, WorkInv
<1> QED  BY <1>2, <1>3, <1>4 DEF ContentInv

\* A commit that updates a row leaves its event in step with it: either the
\* column is written, or what was asked for is what the row has, or another
\* has overtaken it.
LEMMA CommitContent ==
  ASSUME ContentInv, NEW h \in Editors, CommitUpdate(h)
  PROVE  ContentInv' /\ (LastEventTellsState => LastEventTellsState')
<1> DEFINE e == work[h].row  read == work[h].read  want == work[h].want
<1>1. e \in Rows /\ read \in StateOf[e] /\ want \in StateOf[e]
  BY WorkOperations DEF CommitUpdate, ContentInv, WorkInv, Updating
<1>2. /\ state' = [state EXCEPT ![e] = ChangedColumn(state[e], read, want)]
      /\ audit' = [audit EXCEPT ![e] = want]
      /\ overwritten' = IF want = read /\ state[e] # read
                          THEN overwritten \union {e} ELSE overwritten
      /\ work' = [work EXCEPT ![h] = Unoccupied]
      /\ UNCHANGED <<roles, workCalls, roleAudit>>
  BY DEF CommitUpdate
<1> HIDE DEF e, read, want
<1>3. ChangedColumn(state[e], read, want) \in StateOf[e]
  BY <1>1 DEF ChangedColumn, ContentInv, ContentTypeOK
<1>4. DOMAIN state' = Rows /\ DOMAIN audit' = Rows
  BY <1>2 DEF ContentInv, WorkInv
<1>5. WorkInv' /\ \A g \in Editors : work'[g].op \in {"free", "update", "assign"}
  BY <1>2, <1>4, WorkChanges
<1>6. ContentTypeOK'
  BY <1>1, <1>2, <1>3, <1>5 DEF ContentInv, ContentTypeOK, WorkInv
<1>7. ASSUME LastEventTellsState PROVE LastEventTellsState'
  <2>1. e \notin overwritten' => state'[e] = audit'[e]
    BY <1>1, <1>2 DEF ChangedColumn, ContentInv, WorkInv
  <2>2. \A d \in Rows \ {e} : d \notin overwritten' => state'[d] = audit'[d]
    BY <1>2, <1>7 DEF LastEventTellsState, ContentInv, WorkInv
  <2>3. "roles" \notin overwritten' => roles' = roleAudit'
    BY <1>2, <1>7 DEF LastEventTellsState
  <2> QED  BY <2>1, <2>2, <2>3 DEF LastEventTellsState
<1> QED  BY <1>5, <1>6, <1>7 DEF ContentInv

\* An assignment on the current roles changes the one role its event names.
LEMMA CommitRoles ==
  ASSUME ContentInv, NEW h \in Editors, CommitAssignment(h)
  PROVE  ContentInv' /\ (LastEventTellsState => LastEventTellsState')
<1> DEFINE read == work[h].read  want == work[h].want  r == work[h].role  u == work[h].user
<1>1. /\ r \in Roles /\ u \in Users /\ read \in [Roles -> Users \union {Nobody}]
      /\ want = [read EXCEPT ![r] = u]
  BY WorkOperations DEF CommitAssignment, ContentInv, WorkInv, Assigning
<1>2. /\ roles' = ChangedColumn(roles, read, want)
      /\ roleAudit' = [roleAudit EXCEPT ![r] = u]
      /\ overwritten' = IF roles # read THEN overwritten \union {"roles"} ELSE overwritten
      /\ work' = [work EXCEPT ![h] = Unoccupied]
      /\ UNCHANGED <<state, workCalls, audit>>
  BY DEF CommitAssignment
<1> HIDE DEF read, want, r, u
<1>3. roles' \in [Roles -> Users \union {Nobody}] /\ roleAudit' \in [Roles -> Users \union {Nobody}]
  BY <1>1, <1>2 DEF ChangedColumn, ContentInv, ContentTypeOK
<1>4. DOMAIN state' = Rows /\ DOMAIN audit' = Rows
  BY <1>2 DEF ContentInv, WorkInv
<1>5. WorkInv' /\ \A g \in Editors : work'[g].op \in {"free", "update", "assign"}
  BY <1>2, <1>4, WorkChanges
<1>6. ContentTypeOK'
  BY <1>2, <1>3, <1>5 DEF ContentInv, ContentTypeOK
<1>7. ASSUME LastEventTellsState PROVE LastEventTellsState'
  <2>1. \A d \in Rows : d \notin overwritten' => state'[d] = audit'[d]
    BY <1>2, <1>7 DEF LastEventTellsState
  <2>2. ASSUME "roles" \notin overwritten' PROVE roles' = roleAudit'
    <3>1. roles = read /\ "roles" \notin overwritten
      BY <1>2, <2>2
    <3>2. roles = roleAudit
      BY <1>7, <3>1 DEF LastEventTellsState
    <3> QED  BY <1>1, <1>2, <3>1, <3>2 DEF ChangedColumn
  <2> QED  BY <2>1, <2>2 DEF LastEventTellsState
<1> QED  BY <1>5, <1>6, <1>7 DEF ContentInv

\* Every step of the content services keeps the types and the events in step.
LEMMA ContentSteps ==
  ASSUME ContentInv, [ContentNext]_contentVars
  PROVE  ContentInv' /\ (LastEventTellsState => LastEventTellsState')
<1>1. ASSUME NEW h \in Editors, RollBackWork(h)
      PROVE  ContentInv' /\ UNCHANGED <<state, roles, audit, roleAudit, overwritten>>
  <2>1. /\ work' = [work EXCEPT ![h] = Unoccupied]
        /\ UNCHANGED <<state, roles, audit, roleAudit, overwritten>>
    BY <1>1 DEF RollBackWork
  <2>2. DOMAIN state' = Rows /\ DOMAIN audit' = Rows
    BY <2>1 DEF ContentInv, WorkInv
  <2>3. WorkInv' /\ \A g \in Editors : work'[g].op \in {"free", "update", "assign"}
    BY <2>1, <2>2, WorkChanges
  <2> QED  BY <2>1, <2>3 DEF ContentInv, ContentTypeOK
<1>2. UNCHANGED <<state, roles, audit, roleAudit, overwritten>>
      => (LastEventTellsState => LastEventTellsState')
  BY DEF LastEventTellsState
<1>3. CASE UNCHANGED contentVars
  BY <1>2, <1>3 DEF contentVars, ContentInv, ContentTypeOK, WorkInv
<1>4. CASE ContentNext
  BY <1>1, <1>2, <1>4, BeginContent, CreateContent, CommitContent, CommitRoles DEF ContentNext
<1> QED  BY <1>3, <1>4

\* Initially nothing exists and no event speaks of it.
LEMMA ContentStarts ==
  ASSUME ContentInit
  PROVE  ContentInv /\ LastEventTellsState
<1>1. ContentTypeOK
  BY RowStates DEF ContentInit, ContentTypeOK, Unoccupied
<1>2. WorkInv
  BY DEF ContentInit, WorkInv, Absent, Rows
<1> QED  BY <1>1, <1>2 DEF ContentInit, ContentInv, LastEventTellsState

\* The variables of the content services keep their types (ContentTypeOK).
THEOREM ContentTypeCorrect == ContentSpec => []ContentTypeOK
<1>1. ContentInit => ContentInv
  BY ContentStarts
<1>2. ContentInv /\ [ContentNext]_contentVars => ContentInv'
  BY ContentSteps
<1>3. ContentInv => ContentTypeOK
  BY DEF ContentInv
<1> QED  BY <1>1, <1>2, <1>3, PTL DEF ContentSpec

\* The last event of a change set, a workspace or an editorial workflow says
\* the status it has, and the last assignment of a role who holds it, for any
\* number of handlers, unless a call was overtaken by another in between.
THEOREM EventsTellState == ContentSpec => []LastEventTellsState
<1> DEFINE IInv == ContentInv /\ LastEventTellsState
<1>1. ContentInit => IInv
  BY ContentStarts
<1>2. IInv /\ [ContentNext]_contentVars => IInv'
  BY ContentSteps
<1> QED  BY <1>1, <1>2, PTL DEF ContentSpec

-----------------------------------------------------------------------------
(* Knowledge artifacts *)

\* A session that is to write has read a version, or reuses that were recorded.
HasRead(w, n) ==
  \/ w.op = "publish" /\ w.version \in Nat \ {0}
  \/ w.op = "reuse" /\ w.provenance \subseteq 1 .. n

AuthorInv ==
  /\ version >= 1 /\ reuses \in Nat
  /\ DOMAIN author = Authors
  /\ \A a \in Authors : author[a] = Away \/ HasRead(author[a], reuses)

\* An artifact is published with version 2 at the earliest, and before there is
\* a version 2 all have read version 1.
FirstPublication ==
  /\ published => 2 \in snapshots
  /\ 2 \notin snapshots =>
       version = 1 /\ \A a \in Authors : author[a].op = "publish" => author[a].version = 1

KnowledgeInv == KnowledgeTypeOK /\ AuthorInv /\ FirstPublication /\ VersionsHaveSnapshots

\* What a session has read it goes on having read while reuses are added.
LEMMA AuthorChanges ==
  ASSUME KnowledgeInv, NEW a \in Authors, NEW w,
         w = Away \/ HasRead(w, reuses'),
         author' = [author EXCEPT ![a] = w],
         reuses' \in Nat, reuses' >= reuses
  PROVE  /\ DOMAIN author' = Authors
         /\ \A b \in Authors : author'[b] = IF b = a THEN w ELSE author[b]
         /\ \A b \in Authors : author'[b] = Away \/ HasRead(author'[b], reuses')
         /\ \A b \in Authors : author'[b].op \in {"away", "publish", "reuse"}
<1>1. /\ DOMAIN author' = Authors
      /\ \A b \in Authors : author'[b] = IF b = a THEN w ELSE author[b]
  BY DEF KnowledgeInv, AuthorInv
<1>2. ASSUME NEW x, HasRead(x, reuses) PROVE HasRead(x, reuses')
  <2>1. 1 .. reuses \subseteq 1 .. reuses'
    BY DEF KnowledgeInv, AuthorInv
  <2> QED  BY <1>2, <2>1 DEF HasRead
<1>3. \A b \in Authors : author'[b] = Away \/ HasRead(author'[b], reuses')
  BY <1>1, <1>2 DEF KnowledgeInv, AuthorInv
<1>4. Away.op = "away"
  BY DEF Away
<1>5. \A b \in Authors : author'[b].op \in {"away", "publish", "reuse"}
  BY <1>3, <1>4 DEF HasRead
<1> QED  BY <1>1, <1>3, <1>5

\* A session that reads to publish or to reuse.
LEMMA ReadKnowledge ==
  ASSUME KnowledgeInv, NEW a \in Authors, ReadToPublish(a) \/ ReadToReuse(a)
  PROVE  KnowledgeInv'
<1>1. PICK w : /\ \/ w.op = "publish" /\ w.version = version
                  \/ w.op = "reuse" /\ w.provenance = provenance
               /\ author' = [author EXCEPT ![a] = w]
  BY DEF ReadToPublish, ReadToReuse
<1>2. UNCHANGED <<published, version, snapshots, provenance, reuses, retrieved, behind>>
  BY DEF ReadToPublish, ReadToReuse
<1>3. HasRead(w, reuses') /\ reuses' \in Nat /\ reuses' >= reuses
  <2>1. /\ version \in Nat \ {0} /\ provenance \subseteq 1 .. reuses
        /\ reuses' \in Nat /\ reuses' >= reuses
    BY <1>2 DEF KnowledgeInv, KnowledgeTypeOK, AuthorInv
  <2> QED  BY <1>1, <1>2, <2>1 DEF HasRead
<1>4. /\ DOMAIN author' = Authors
      /\ \A b \in Authors : author'[b] = IF b = a THEN w ELSE author[b]
      /\ \A b \in Authors : author'[b] = Away \/ HasRead(author'[b], reuses')
      /\ \A b \in Authors : author'[b].op \in {"away", "publish", "reuse"}
  BY <1>1, <1>3, AuthorChanges
<1>5. FirstPublication'
  BY <1>1, <1>2, <1>4 DEF KnowledgeInv, FirstPublication
<1>6. KnowledgeTypeOK' /\ AuthorInv'
  BY <1>2, <1>4 DEF KnowledgeInv, KnowledgeTypeOK, AuthorInv
<1> QED  BY <1>2, <1>5, <1>6 DEF KnowledgeInv, VersionsHaveSnapshots

\* A publication continues the snapshots by one, or writes the one another
\* publication has written from the same read.
LEMMA PublishKnowledge ==
  ASSUME KnowledgeInv, NEW a \in Authors, PublishArtifact(a)
  PROVE  KnowledgeInv'
<1> DEFINE v == author[a].version
<1>1. v \in Nat \ {0}
  BY DEF PublishArtifact, KnowledgeInv, AuthorInv, HasRead, Away
<1>2. /\ published' = TRUE /\ version' = v + 1 /\ snapshots' = snapshots \union {v + 1}
      /\ behind' = IF version \notin {v, v + 1} THEN behind \union {"version"} ELSE behind
      /\ author' = [author EXCEPT ![a] = Away]
      /\ UNCHANGED <<provenance, reuses, retrieved>>
      /\ author[a].op = "publish"
  BY DEF PublishArtifact, Bumped
<1> HIDE DEF v
<1>3. /\ DOMAIN author' = Authors
      /\ \A b \in Authors : author'[b] = IF b = a THEN Away ELSE author[b]
      /\ \A b \in Authors : author'[b] = Away \/ HasRead(author'[b], reuses')
      /\ \A b \in Authors : author'[b].op \in {"away", "publish", "reuse"}
  <2>1. reuses' \in Nat /\ reuses' >= reuses
    BY <1>2 DEF KnowledgeInv, AuthorInv
  <2> QED  BY <1>2, <2>1, AuthorChanges
<1>4. 2 \in snapshots'
  BY <1>1, <1>2 DEF KnowledgeInv, FirstPublication, v
<1>5. "version" \notin behind' => snapshots' = 1 .. version'
  <2> SUFFICES ASSUME "version" \notin behind' PROVE snapshots' = 1 .. version'
    OBVIOUS
  <2>1. version \in {v, v + 1} /\ snapshots = 1 .. version
    BY <1>2 DEF KnowledgeInv, VersionsHaveSnapshots
  <2> QED  BY <1>1, <1>2, <2>1
<1>6. KnowledgeTypeOK' /\ AuthorInv'
  <2>1. published' \in BOOLEAN /\ retrieved' \in BOOLEAN
    BY <1>2 DEF KnowledgeInv, KnowledgeTypeOK
  <2>2. /\ version' \in Nat /\ version' >= 1 /\ snapshots' \subseteq Nat
        /\ provenance' \subseteq 1 .. reuses' /\ behind' \subseteq {"version", "provenance"}
    BY <1>1, <1>2 DEF KnowledgeInv, KnowledgeTypeOK
  <2>3. reuses' \in Nat
    BY <1>2 DEF KnowledgeInv, AuthorInv
  <2> QED  BY <1>3, <2>1, <2>2, <2>3 DEF KnowledgeTypeOK, AuthorInv
<1>7. FirstPublication'
  BY <1>4 DEF FirstPublication
<1>8. VersionsHaveSnapshots'
  BY <1>2, <1>4, <1>5 DEF KnowledgeInv, VersionsHaveSnapshots
<1> QED  BY <1>6, <1>7, <1>8 DEF KnowledgeInv

\* A reuse recorded on the current list is added to it.
LEMMA ReuseKnowledge ==
  ASSUME KnowledgeInv, NEW a \in Authors, TrackReuse(a)
  PROVE  KnowledgeInv'
<1> DEFINE read == author[a].provenance
<1>1. read \subseteq 1 .. reuses
  BY DEF TrackReuse, KnowledgeInv, AuthorInv, HasRead, Away
<1>2. /\ reuses' = reuses + 1 /\ provenance' = read \union {reuses + 1}
      /\ behind' = IF provenance # read THEN behind \union {"provenance"} ELSE behind
      /\ author' = [author EXCEPT ![a] = Away]
      /\ UNCHANGED <<published, version, snapshots, retrieved>>
  BY DEF TrackReuse
<1> HIDE DEF read
<1>3. /\ reuses \in Nat /\ reuses' \in Nat /\ reuses' >= reuses
      /\ 1 .. reuses' = (1 .. reuses) \union {reuses + 1}
  BY <1>2 DEF KnowledgeInv, AuthorInv
<1>4. /\ DOMAIN author' = Authors
      /\ \A b \in Authors : author'[b] = IF b = a THEN Away ELSE author[b]
      /\ \A b \in Authors : author'[b] = Away \/ HasRead(author'[b], reuses')
      /\ \A b \in Authors : author'[b].op \in {"away", "publish", "reuse"}
  BY <1>2, <1>3, AuthorChanges
<1>5. KnowledgeTypeOK' /\ AuthorInv'
  BY <1>1, <1>2, <1>3, <1>4 DEF KnowledgeInv, KnowledgeTypeOK, AuthorInv
<1>6. FirstPublication'
  BY <1>2, <1>4 DEF KnowledgeInv, FirstPublication, Away
<1>7. VersionsHaveSnapshots'
  BY <1>2, <1>3 DEF KnowledgeInv, VersionsHaveSnapshots
<1> QED  BY <1>5, <1>6, <1>7 DEF KnowledgeInv

\* Every step of the knowledge service keeps the invariant.
LEMMA KnowledgeSteps ==
  ASSUME KnowledgeInv, [KnowledgeNext]_knowledgeVars
  PROVE  KnowledgeInv'
<1>1. CASE RetrieveForContext
  BY <1>1 DEF RetrieveForContext, KnowledgeInv, KnowledgeTypeOK, AuthorInv, HasRead,
              FirstPublication, VersionsHaveSnapshots
<1>2. CASE UNCHANGED knowledgeVars
  BY <1>2 DEF knowledgeVars, KnowledgeInv, KnowledgeTypeOK, AuthorInv, HasRead,
              FirstPublication, VersionsHaveSnapshots
<1> QED
  BY <1>1, <1>2, ReadKnowledge, PublishKnowledge, ReuseKnowledge DEF KnowledgeNext

\* A new artifact is a draft at version 1 with its snapshot.
LEMMA KnowledgeStarts ==
  ASSUME KnowledgeInit
  PROVE  KnowledgeInv
<1>1. KnowledgeTypeOK
  <2>1. published \in BOOLEAN /\ retrieved \in BOOLEAN
    BY DEF KnowledgeInit
  <2> QED  BY <2>1 DEF KnowledgeInit, KnowledgeTypeOK, Away
<1>2. AuthorInv
  BY DEF KnowledgeInit, AuthorInv
<1>3. FirstPublication
  BY DEF KnowledgeInit, FirstPublication, Away
<1>4. VersionsHaveSnapshots
  BY DEF KnowledgeInit, VersionsHaveSnapshots
<1> QED  BY <1>1, <1>2, <1>3, <1>4 DEF KnowledgeInv

\* The variables of a knowledge artifact keep their types (KnowledgeTypeOK).
THEOREM KnowledgeTypeCorrect == KnowledgeSpec => []KnowledgeTypeOK
<1>1. KnowledgeInv => KnowledgeTypeOK
  BY DEF KnowledgeInv
<1> QED  BY <1>1, KnowledgeStarts, KnowledgeSteps, PTL DEF KnowledgeSpec

\* The versions of a knowledge artifact up to its own all have snapshots, a
\* context is only given one that was published, and no reuse is forgotten,
\* for any number of sessions, unless a publication or a reuse was overtaken.
THEOREM SnapshotsOfVersions == KnowledgeSpec => []VersionsHaveSnapshots
<1>1. KnowledgeInv => VersionsHaveSnapshots
  BY DEF KnowledgeInv
<1> QED  BY <1>1, KnowledgeStarts, KnowledgeSteps, PTL DEF KnowledgeSpec

-----------------------------------------------------------------------------
(* The collaboration mode *)

Open(a) == switch[a] # NoSwitch

\* Times are taken from the clock; no two are the same.
TimesInv ==
  /\ \A r \in transitions : r.at <= clock
  /\ \A a \in Actors : Open(a) => switch[a].at <= clock

\* A history has a last row.
HasLatest(S) == S # {} => \E r \in S : \A q \in S : q.at <= r.at

LatestInv == \A t \in 1 .. clock + 1 : HasLatest(Before(t))

\* A row that puts the agent in the lead has one before it in which the agent
\* assists.
Assisted(r) == r.to = "agent_led" => \E q \in Before(r.at) : q.to = "agent_assisted"

AssistedInv ==
  /\ \A r \in transitions : Assisted(r)
  /\ \A a \in Actors : Open(a) => Assisted(switch[a])

\* What an open switch has read is current, unless another was inserted since.
OpenInv ==
  crossed = {} => \A a \in Actors : Open(a) =>
    /\ switch[a].from = ModeAt(switch[a].at)
    /\ \A r \in transitions : r.at < switch[a].at

CollaborationInv ==
  /\ CollaborationTypeOK /\ TimesInv /\ LatestInv /\ AssistedInv /\ OpenInv
  /\ ModesChain

\* The mode at a time depends on the rows before it only.
LEMMA ModeOfRows ==
  ASSUME NEW t, Before(t)' = Before(t)
  PROVE  ModeAt(t)' = ModeAt(t)
<1> DEFINE LatestOf(S) == CHOOSE r \in S : \A q \in S : q.at <= r.at
<1>1. Latest(t) = LatestOf(Before(t)) /\ Latest(t)' = LatestOf(Before(t)')
  BY DEF Latest
<1> HIDE DEF LatestOf
<1>2. Latest(t)' = Latest(t)
  BY <1>1
<1> QED  BY <1>2 DEF ModeAt

\* The current mode is that of a row there is, or the initial one.
LEMMA CurrentModeOfRow ==
  ASSUME CollaborationInv
  PROVE  /\ CurrentMode \in Modes
         /\ CurrentMode = "human_led" \/ \E q \in Before(clock + 1) : q.to = CurrentMode
<1>1. CASE Before(clock + 1) = {}
  BY <1>1 DEF CurrentMode, ModeAt, Modes
<1>2. CASE Before(clock + 1) # {}
  <2>1. clock + 1 \in 1 .. clock + 1
    BY DEF CollaborationInv, CollaborationTypeOK
  <2>2. \E r \in Before(clock + 1) : \A q \in Before(clock + 1) : q.at <= r.at
    BY <1>2, <2>1 DEF CollaborationInv, LatestInv, HasLatest
  <2>3. Latest(clock + 1) \in Before(clock + 1)
    BY <2>2 DEF Latest
  <2>4. Latest(clock + 1) \in Row
    BY <2>3 DEF Before, CollaborationInv, CollaborationTypeOK
  <2> QED  BY <1>2, <2>3, <2>4 DEF CurrentMode, ModeAt, Row
<1> QED  BY <1>1, <1>2

\* While no row is inserted the stored history stays as it is.
LEMMA SameHistory ==
  ASSUME UNCHANGED transitions
  PROVE  /\ \A t : Before(t)' = Before(t) /\ ModeAt(t)' = ModeAt(t)
         /\ \A r : Assisted(r)' <=> Assisted(r)
<1>1. \A t : Before(t)' = Before(t)
  BY DEF Before
<1>2. \A t : ModeAt(t)' = ModeAt(t)
  BY <1>1, ModeOfRows
<1> QED  BY <1>1, <1>2 DEF Assisted

\* A switch that begins takes the mode from the latest row and its time after it.
LEMMA BeginKeepsChain ==
  ASSUME CollaborationInv, NEW a \in Actors, NEW target \in Modes, BeginSwitch(a, target)
  PROVE  CollaborationInv'
<1> DEFINE row == [at |-> clock + 1, from |-> CurrentMode, to |-> target]
<1>1. /\ clock' = clock + 1
      /\ switch' = [switch EXCEPT ![a] = row]
      /\ transitions' = transitions /\ crossed' = crossed
      /\ target \in AllowedTransitions[CurrentMode]
      /\ clock \in Nat
  BY DEF BeginSwitch, CollaborationInv, CollaborationTypeOK
<1>2. row \in Row
  BY <1>1, CurrentModeOfRow DEF Row
<1>3. \A b \in Actors : switch'[b] = IF b = a THEN row ELSE switch[b]
  BY <1>1 DEF CollaborationInv, CollaborationTypeOK
<1>4. CollaborationTypeOK'
  BY <1>1, <1>2 DEF CollaborationInv, CollaborationTypeOK
<1>5. row.at = clock + 1 /\ row.from = ModeAt(row.at) /\ row.to = target
  BY DEF CurrentMode
<1>6. target = "agent_led" => \E q \in Before(clock + 1) : q.to = "agent_assisted"
  BY <1>1, CurrentModeOfRow DEF AllowedTransitions, Modes
<1>7. \A r \in transitions : r.at < row.at
  BY <1>1, <1>5 DEF CollaborationInv, CollaborationTypeOK, TimesInv, Row
<1>8. \A t : Before(t)' = Before(t) /\ ModeAt(t)' = ModeAt(t)
  BY <1>1, SameHistory
<1>9. \A r : Assisted(r)' <=> Assisted(r)
  BY <1>1, SameHistory
<1>10. Assisted(row)
  BY <1>5, <1>6 DEF Assisted
<1> HIDE DEF row
<1>11. TimesInv'
  BY <1>1, <1>3, <1>5 DEF CollaborationInv, CollaborationTypeOK, TimesInv, Open, NoSwitch, Row
<1>12. LatestInv'
  <2>1. Before(clock + 2) = Before(clock + 1)
    BY <1>1 DEF Before, CollaborationInv, CollaborationTypeOK, TimesInv, Row
  <2>2. \A t \in 1 .. clock + 1 : HasLatest(Before(t))
    BY DEF CollaborationInv, LatestInv
  <2>3. \A t \in 1 .. clock + 2 : HasLatest(Before(t))
    BY <1>1, <2>1, <2>2
  <2>4. clock' + 1 = clock + 2
    BY <1>1
  <2> QED  BY <1>8, <2>3, <2>4 DEF LatestInv
<1>13. AssistedInv'
  BY <1>1, <1>3, <1>9, <1>10 DEF CollaborationInv, AssistedInv, Open
<1>14. OpenInv'
  BY <1>1, <1>3, <1>5, <1>7, <1>8 DEF CollaborationInv, OpenInv, Open
<1>15. ModesChain'
  BY <1>1, <1>8 DEF CollaborationInv, ModesChain
<1> QED  BY <1>4, <1>11, <1>12, <1>13, <1>14, <1>15 DEF CollaborationInv

\* A row that is inserted comes after all rows when no switch was open beside
\* it, and before those it takes the mode from otherwise; then it is crossed.
LEMMA CommitKeepsChain ==
  ASSUME CollaborationInv, NEW a \in Actors, CommitSwitch(a)
  PROVE  CollaborationInv'
<1> DEFINE row == switch[a]
<1>1. /\ row \in Row /\ Open(a)
      /\ transitions' = transitions \union {row}
      /\ switch' = [switch EXCEPT ![a] = NoSwitch]
      /\ crossed' = crossed \union {switch[b].at : b \in {c \in Actors \ {a} : Open(c)}}
      /\ clock' = clock /\ clock \in Nat
  BY DEF CommitSwitch, CollaborationInv, CollaborationTypeOK, Open
<1>2. \A b \in Actors : switch'[b] = IF b = a THEN NoSwitch ELSE switch[b]
  BY <1>1 DEF CollaborationInv, CollaborationTypeOK
<1>3. \A b \in Actors : Open(b)' <=> b # a /\ Open(b)
  BY <1>2 DEF Open
<1>4. \A b \in Actors : Open(b) => switch[b] \in Row /\ switch[b].at \in 1 .. clock
  BY DEF CollaborationInv, CollaborationTypeOK, TimesInv, Open, Row
<1>5. crossed' \subseteq 1 .. clock
  BY <1>1, <1>4 DEF CollaborationInv, CollaborationTypeOK
<1>6. CollaborationTypeOK'
  <2>1. switch' \in [Actors -> Row \union {NoSwitch}]
    BY <1>1 DEF CollaborationInv, CollaborationTypeOK
  <2>2. transitions' \subseteq Row
    BY <1>1 DEF CollaborationInv, CollaborationTypeOK
  <2> QED  BY <1>1, <1>5, <2>1, <2>2 DEF CollaborationTypeOK
<1>7. TimesInv'
  BY <1>1, <1>2, <1>3, <1>4 DEF CollaborationInv, TimesInv
<1>8. \A t : Before(t) \subseteq Before(t)' /\ Before(t)' \subseteq Before(t) \union {row}
  BY <1>1 DEF Before
<1>9. LatestInv'
  <2> SUFFICES ASSUME NEW t \in 1 .. clock + 1 PROVE HasLatest(Before(t)')
    BY <1>1 DEF LatestInv
  <2>1. HasLatest(Before(t))
    BY DEF CollaborationInv, LatestInv
  <2>2. \A r \in Before(t)' : r.at \in Nat
    BY <1>6 DEF Before, CollaborationTypeOK, Row
  <2> DEFINE S == Before(t)  T == Before(t)'
  <2>3. S \subseteq T /\ T \subseteq S \union {row}
    BY <1>8
  <2> HIDE DEF S, T
  <2>4. CASE row \notin T
    BY <2>1, <2>3, <2>4 DEF HasLatest, S, T
  <2>5. CASE row \in T /\ S = {}
    BY <2>2, <2>3, <2>5 DEF HasLatest, T
  <2>6. CASE row \in T /\ S # {}
    <3>1. PICK r \in S : \A q \in S : q.at <= r.at
      BY <2>1, <2>6 DEF HasLatest, S
    <3>2. (\A q \in T : q.at <= r.at) \/ (\A q \in T : q.at <= row.at)
      BY <2>2, <2>3, <2>6, <3>1 DEF T
    <3> QED  BY <2>3, <2>6, <3>1, <3>2 DEF HasLatest, T
  <2> QED  BY <2>4, <2>5, <2>6 DEF T
<1>10. AssistedInv'
  <2>1. \A r : Assisted(r) => Assisted(r)'
    BY <1>8 DEF Assisted
  <2>2. Assisted(row) /\ \A r \in transitions : Assisted(r)
    BY <1>1 DEF CollaborationInv, AssistedInv
  <2>3. \A b \in Actors : Open(b) => Assisted(switch[b])
    BY DEF CollaborationInv, AssistedInv
  <2>4. \A r \in transitions' : Assisted(r)'
    BY <1>1, <2>1, <2>2
  <2>5. ASSUME NEW b \in Actors, Open(b)' PROVE Assisted(switch[b])'
    <3>1. switch'[b] = switch[b] /\ Open(b)
      BY <1>2, <1>3, <2>5
    <3> QED  BY <2>1, <2>3, <3>1 DEF Assisted
  <2> QED  BY <2>4, <2>5 DEF AssistedInv
<1>11. ASSUME crossed' = {}
       PROVE  /\ \A b \in Actors : ~Open(b)'
              /\ \A r \in transitions' : r.from = ModeAt(r.at)'
  <2>1. crossed = {} /\ \A b \in Actors \ {a} : ~Open(b)
    BY <1>1, <1>11
  <2>2. \A b \in Actors : ~Open(b)'
    BY <1>3, <2>1
  <2>3. row.from = ModeAt(row.at) /\ \A r \in transitions : r.at < row.at
    BY <1>1, <2>1 DEF CollaborationInv, OpenInv
  <2>4. \A r \in transitions' : r.from = ModeAt(r.at)
    BY <1>1, <2>1, <2>3 DEF CollaborationInv, ModesChain
  <2>5. ASSUME NEW r \in transitions' PROVE ModeAt(r.at)' = ModeAt(r.at)
    <3>1. r.at <= row.at /\ r.at \in Nat /\ row.at \in Nat
      BY <1>1, <2>3 DEF CollaborationInv, CollaborationTypeOK, Row
    <3> DEFINE t == r.at
    <3>2. ~(row.at < t)
      BY <3>1
    <3>3. Before(t)' = Before(t)
      BY <1>1, <3>2 DEF Before
    <3> QED  BY <3>3, ModeOfRows
  <2> QED  BY <2>2, <2>4, <2>5
<1>12. OpenInv'
  BY <1>11 DEF OpenInv
<1>13. ModesChain'
  BY <1>10, <1>11 DEF ModesChain, AssistedInv, Assisted
<1> QED  BY <1>6, <1>7, <1>9, <1>10, <1>12, <1>13 DEF CollaborationInv

\* A switch that is given up leaves no row.
LEMMA AbandonKeepsChain ==
  ASSUME CollaborationInv, NEW a \in Actors, AbandonSwitch(a)
  PROVE  CollaborationInv'
<1>1. /\ switch' = [switch EXCEPT ![a] = NoSwitch]
      /\ transitions' = transitions /\ clock' = clock /\ crossed' = crossed
  BY DEF AbandonSwitch
<1>2. \A b \in Actors : switch'[b] = IF b = a THEN NoSwitch ELSE switch[b]
  BY <1>1 DEF CollaborationInv, CollaborationTypeOK
<1>3. \A b \in Actors : Open(b)' => Open(b) /\ switch'[b] = switch[b]
  BY <1>2 DEF Open
<1>4. \A t : Before(t)' = Before(t) /\ ModeAt(t)' = ModeAt(t)
  BY <1>1, SameHistory
<1>5. \A r : Assisted(r)' <=> Assisted(r)
  BY <1>1, SameHistory
<1>6. CollaborationTypeOK' /\ TimesInv' /\ LatestInv'
  BY <1>1, <1>3, <1>4 DEF CollaborationInv, CollaborationTypeOK, TimesInv, LatestInv
<1>7. AssistedInv'
  BY <1>1, <1>3, <1>5 DEF CollaborationInv, AssistedInv
<1>8. OpenInv' /\ ModesChain'
  BY <1>1, <1>3, <1>4 DEF CollaborationInv, OpenInv, ModesChain
<1> QED  BY <1>6, <1>7, <1>8 DEF CollaborationInv

\* Every step of the mode service keeps the invariant.
LEMMA CollaborationSteps ==
  ASSUME CollaborationInv, [CollaborationNext]_collaborationVars
  PROVE  CollaborationInv'
<1>1. CASE UNCHANGED collaborationVars
  <2>1. UNCHANGED <<transitions, switch, clock, crossed>>
    BY <1>1 DEF collaborationVars
  <2>2. \A t : Before(t)' = Before(t) /\ ModeAt(t)' = ModeAt(t)
    BY <2>1, SameHistory
  <2>3. \A r : Assisted(r)' <=> Assisted(r)
    BY <2>1, SameHistory
  <2>4. CollaborationTypeOK' /\ TimesInv' /\ LatestInv'
    BY <2>1, <2>2 DEF CollaborationInv, CollaborationTypeOK, TimesInv, LatestInv, Open
  <2>5. AssistedInv' /\ OpenInv' /\ ModesChain'
    BY <2>1, <2>2, <2>3 DEF CollaborationInv, AssistedInv, OpenInv, ModesChain, Open
  <2> QED  BY <2>4, <2>5 DEF CollaborationInv
<1> QED
  BY <1>1, BeginKeepsChain, CommitKeepsChain, AbandonKeepsChain DEF CollaborationNext

\* A request starts without transitions.
LEMMA CollaborationStarts ==
  ASSUME CollaborationInit
  PROVE  CollaborationInv
<1>1. CollaborationTypeOK
  BY DEF CollaborationInit, CollaborationTypeOK
<1>2. TimesInv /\ AssistedInv /\ OpenInv /\ ModesChain
  BY DEF CollaborationInit, TimesInv, AssistedInv, OpenInv, ModesChain, Open
<1>3. LatestInv
  BY DEF CollaborationInit, LatestInv, HasLatest, Before
<1> QED  BY <1>1, <1>2, <1>3 DEF CollaborationInv

\* The variables of the collaboration mode keep their types (CollaborationTypeOK).
THEOREM CollaborationTypeCorrect == CollaborationSpec => []CollaborationTypeOK
<1>1. CollaborationInv => CollaborationTypeOK
  BY DEF CollaborationInv
<1> QED  BY <1>1, CollaborationStarts, CollaborationSteps, PTL DEF CollaborationSpec

\* The agent leads only where it assisted before, whatever switches cross, and
\* without crossing switches every row starts from the mode the row before it
\* ended in, for any number of actors and switches.
THEOREM ModesFormChain == CollaborationSpec => []ModesChain
<1>1. CollaborationInv => ModesChain
  BY DEF CollaborationInv
<1> QED  BY <1>1, CollaborationStarts, CollaborationSteps, PTL DEF CollaborationSpec

-----------------------------------------------------------------------------
(* Templates *)

\* What a handler has read, by its operation.
TxnType(w) ==
  \/ w = NoWork
  \/ w.op = "edit" /\ w.version \in Versions /\ w.read = "draft" /\ w.schema \in Definitions
  \/ w.op = "delete" /\ w.version \in Versions /\ w.read = "draft"
  \/ w.op = "publish" /\ w.version \in Versions /\ w.others \subseteq Versions \ {w.version}
  \/ w.op = "deprecate" /\ w.version \in Versions
  \/ /\ w.op = "submit" /\ w.request \in Requests
     /\ w.payload \subseteq Fields /\ w.released \in BOOLEAN

\* A request that is being submitted has been drafted.
TxnInv ==
  /\ DOMAIN txn = TemplateSessions
  /\ \A s \in TemplateSessions :
       TxnType(txn[s]) /\ (txn[s].op = "submit" => bound[txn[s].request] # NoRequest)

\* Version v has left draft, and its template accepts the payload.
Fits(v, payload) ==
  v \in Present /\ rows[v].status # "draft" /\ Complete(rows[v].schema, payload)

\* A payload fits from the moment its submission has validated it on a version
\* that had left draft.
FitsInv ==
  /\ \A s \in TemplateSessions :
       (txn[s].op = "submit" /\ txn[s].released
          /\ bound[txn[s].request].version \notin editedLate)
       => Fits(bound[txn[s].request].version, txn[s].payload)
  /\ \A q \in Requests :
       (bound[q].status = "submitted" /\ bound[q].released /\ bound[q].version \notin editedLate)
       => Fits(bound[q].version, bound[q].payload)

TemplateInv == TemplateTypeOK /\ TxnInv /\ FitsInv /\ OnePublished

\* The operation of a handler tells what it has read.
LEMMA TxnOperations ==
  ASSUME NEW w, TxnType(w)
  PROVE  /\ w = NoWork \/ w.op \in {"edit", "delete", "publish", "deprecate", "submit"}
         /\ w.op \in {"edit", "delete"} => w.version \in Versions /\ w.read = "draft"
         /\ w.op = "edit" => w.schema \in Definitions
         /\ w.op = "publish" => w.version \in Versions /\ w.others \subseteq Versions \ {w.version}
         /\ w.op = "deprecate" => w.version \in Versions
         /\ w.op = "submit" => w.request \in Requests /\ w.payload \subseteq Fields
                               /\ w.released \in BOOLEAN
<1>1. NoWork.op = "idle"
  BY DEF NoWork
<1> QED  BY <1>1 DEF TxnType

\* What the type invariant asks of the handlers follows from what they read.
LEMMA TxnTypes ==
  ASSUME NEW f, \A s \in TemplateSessions : TxnType(f[s])
  PROVE  \A s \in TemplateSessions :
           \/ f[s] = NoWork
           \/ /\ f[s].op \in {"edit", "delete", "publish", "deprecate"}
              /\ f[s].version \in Versions
           \/ f[s].op = "submit" /\ f[s].request \in Requests
BY TxnOperations

\* Rows, requests and payloads: what the definitions say of their types.
LEMMA RowTypes ==
  /\ \A r \in TemplateRow : r # NoRow /\ r.status \in TemplateStatus
                           /\ r.schema \in Definitions \union {Blank}
  /\ \A r \in TemplateRow, st \in TemplateStatus : [r EXCEPT !.status = st] \in TemplateRow
  /\ \A r \in TemplateRow, d \in Definitions : [r EXCEPT !.schema = d] \in TemplateRow
  /\ \A d \in Definitions \union {Blank} : d.defaults \subseteq Fields
<1>1. \A r \in TemplateRow : r.status \in TemplateStatus /\ r.schema \in Definitions \union {Blank}
  BY DEF TemplateRow
<1>2. \A r \in TemplateRow : r # NoRow
  BY <1>1 DEF NoRow, TemplateStatus
<1>3. \A r \in TemplateRow, st \in TemplateStatus : [r EXCEPT !.status = st] \in TemplateRow
  BY DEF TemplateRow
<1>4. \A r \in TemplateRow, d \in Definitions : [r EXCEPT !.schema = d] \in TemplateRow
  BY DEF TemplateRow
<1>5. \A d \in Definitions : d.defaults \subseteq Fields
  BY DefinitionsAssumption
<1>6. Blank.defaults = {}
  BY DEF Blank
<1> QED  BY <1>1, <1>2, <1>3, <1>4, <1>5, <1>6

\* A version that is there has a row.
LEMMA PresentRows ==
  ASSUME TemplateTypeOK
  PROVE  /\ \A v \in Versions : v \in Present <=> rows[v] \in TemplateRow
         /\ \A v \in Versions : v \in Published <=> rows[v].status = "published"
         /\ Present \subseteq Versions /\ Published \subseteq Present
<1>1. \A v \in Versions : v \in Present <=> rows[v] \in TemplateRow
  BY RowTypes DEF TemplateTypeOK, Present
<1>2. \A v \in Versions : rows[v] = NoRow => rows[v].status # "published"
  BY DEF NoRow
<1> QED  BY <1>1, <1>2 DEF Present, Published

\* The same of the next state.
LEMMA PublishedNext ==
  ASSUME rows' \in [Versions -> TemplateRow \union {NoRow}]
  PROVE  \A v : v \in Published' <=> v \in Versions /\ rows'[v].status = "published"
<1>1. \A v \in Versions : rows'[v] = NoRow => rows'[v].status # "published"
  BY DEF NoRow
<1> QED  BY <1>1 DEF Present, Published

\* What becomes of the rows when an operation on a template commits: the rows
\* keep their types, and a version that has left draft keeps its schema and
\* does not return to draft, or the operation had read it as a draft.
RowsKept ==
  /\ rows' \in [Versions -> TemplateRow \union {NoRow}]
  /\ editedLate \subseteq editedLate' /\ editedLate' \subseteq Versions
  /\ \A v \in Versions :
       (v \in Present /\ rows[v].status # "draft" /\ v \notin editedLate')
       => rows'[v] \in TemplateRow /\ rows'[v].status # "draft" /\ rows'[v].schema = rows[v].schema

\* Such a commit leaves what fitted fitting.
LEMMA CommitKeepsFits ==
  ASSUME TemplateInv, RowsKept, NEW s,
         txn' = txn \/ txn' = [txn EXCEPT ![s] = NoWork],
         bound' = bound, txns' = txns, publishedAtOnce' \in BOOLEAN
  PROVE  TemplateTypeOK' /\ TxnInv' /\ FitsInv'
<1>1. DOMAIN txn' = TemplateSessions
      /\ \A r \in TemplateSessions : txn'[r] = txn[r] \/ txn'[r] = NoWork
  BY DEF TemplateInv, TxnInv
<1>2. NoWork.op = "idle" /\ TxnType(NoWork)
  BY DEF NoWork, TxnType
<1>3. TxnInv'
  BY <1>1, <1>2 DEF TemplateInv, TxnInv
<1>4. TemplateTypeOK'
  BY <1>3, TxnTypes DEF TxnInv, TemplateInv, TemplateTypeOK, RowsKept
<1>5. ASSUME NEW v, NEW payload, Fits(v, payload), v \notin editedLate' PROVE Fits(v, payload)'
  <2>1. v \in Versions /\ v \in Present /\ rows[v].status # "draft"
    BY <1>5 DEF Fits, Present
  <2>2. rows'[v] \in TemplateRow /\ rows'[v].status # "draft" /\ rows'[v].schema = rows[v].schema
    BY <1>5, <2>1 DEF RowsKept
  <2>3. v \in Present'
    BY <2>1, <2>2, RowTypes DEF Present
  <2> QED  BY <1>5, <2>2, <2>3 DEF Fits
<1>6. editedLate \subseteq editedLate'
  BY DEF RowsKept
<1>7. ASSUME NEW r \in TemplateSessions, txn'[r].op = "submit"
      PROVE  txn'[r] = txn[r]
  BY <1>1, <1>2, <1>7
<1> QED  BY <1>3, <1>4, <1>5, <1>6, <1>7 DEF TemplateInv, FitsInv

\* A row's schema is replaced where the version is in draft, or the edit is late.
LEMMA EditCommits ==
  ASSUME TemplateInv, NEW s \in TemplateSessions, CommitEdit(s)
  PROVE  TemplateInv'
<1> DEFINE v == txn[s].version  d == txn[s].schema
<1>1. v \in Versions /\ txn[s].read = "draft" /\ d \in Definitions
  BY TxnOperations DEF CommitEdit, TemplateInv, TxnInv
<1>2. /\ rows' = [rows EXCEPT ![v].schema = d]
      /\ editedLate' = IF rows[v].status = txn[s].read THEN editedLate ELSE editedLate \union {v}
      /\ v \in Present
      /\ txn' = [txn EXCEPT ![s] = NoWork]
      /\ UNCHANGED <<bound, txns, publishedAtOnce>>
  BY DEF CommitEdit, CommitWork, Writes
<1> HIDE DEF v, d
<1>3. rows[v] \in TemplateRow
  BY <1>1, <1>2, PresentRows DEF TemplateInv
<1>4. /\ rows' = [rows EXCEPT ![v] = [rows[v] EXCEPT !.schema = d]]
      /\ [rows[v] EXCEPT !.schema = d] \in TemplateRow
      /\ [rows[v] EXCEPT !.schema = d].status = rows[v].status
  BY <1>1, <1>2, <1>3, RowTypes DEF TemplateRow
<1>5. \A u \in Versions : rows'[u].status = rows[u].status
  BY <1>1, <1>4 DEF TemplateInv, TemplateTypeOK
<1>6. RowsKept
  <2>1. rows' \in [Versions -> TemplateRow \union {NoRow}]
    BY <1>1, <1>4 DEF TemplateInv, TemplateTypeOK
  <2>2. editedLate \subseteq editedLate' /\ editedLate' \subseteq Versions
    BY <1>1, <1>2 DEF TemplateInv, TemplateTypeOK
  <2>3. \A u \in Versions \ {v} : rows'[u] = rows[u]
    BY <1>4 DEF TemplateInv, TemplateTypeOK
  <2>4. rows[v].status # "draft" => v \in editedLate'
    BY <1>1, <1>2
  <2> QED  BY <2>1, <2>2, <2>3, <2>4, PresentRows DEF RowsKept, TemplateInv
<1>7. TemplateTypeOK' /\ TxnInv' /\ FitsInv'
  BY <1>2, <1>6, CommitKeepsFits DEF TemplateInv, TemplateTypeOK
<1>8. Published' = Published
  BY <1>5, <1>7, PresentRows, PublishedNext DEF TemplateInv, TemplateTypeOK
<1> QED  BY <1>2, <1>7, <1>8 DEF TemplateInv, OnePublished

\* A row is deleted where the version is in draft, or the deletion is late.
LEMMA DeleteCommits ==
  ASSUME TemplateInv, NEW s \in TemplateSessions, CommitDelete(s)
  PROVE  TemplateInv'
<1> DEFINE v == txn[s].version
<1>1. v \in Versions /\ txn[s].read = "draft"
  BY TxnOperations DEF CommitDelete, TemplateInv, TxnInv
<1>2. /\ rows' = [rows EXCEPT ![v] = NoRow]
      /\ editedLate' = IF rows[v].status = txn[s].read THEN editedLate ELSE editedLate \union {v}
      /\ txn' = [txn EXCEPT ![s] = NoWork]
      /\ UNCHANGED <<bound, txns, publishedAtOnce>>
  BY DEF CommitDelete, CommitWork
<1> HIDE DEF v
<1>3. \A u \in Versions : rows'[u] = IF u = v THEN NoRow ELSE rows[u]
  BY <1>2 DEF TemplateInv, TemplateTypeOK
<1>4. RowsKept
  <2>1. rows' \in [Versions -> TemplateRow \union {NoRow}]
    BY <1>1, <1>2 DEF TemplateInv, TemplateTypeOK
  <2>2. editedLate \subseteq editedLate' /\ editedLate' \subseteq Versions
    BY <1>1, <1>2 DEF TemplateInv, TemplateTypeOK
  <2>3. rows[v].status # "draft" => v \in editedLate'
    BY <1>1, <1>2
  <2> QED  BY <1>3, <2>1, <2>2, <2>3, PresentRows DEF RowsKept, TemplateInv
<1>5. TemplateTypeOK' /\ TxnInv' /\ FitsInv'
  BY <1>2, <1>4, CommitKeepsFits DEF TemplateInv, TemplateTypeOK
<1>6. Published' \subseteq Published
  <2>1. NoRow.status # "published"
    BY DEF NoRow
  <2> QED  BY <1>3, <1>4, <2>1, PresentRows, PublishedNext DEF TemplateInv, RowsKept
<1> QED  BY <1>2, <1>5, <1>6 DEF TemplateInv, OnePublished

\* A publication deprecates the versions it has read as published.
LEMMA PublishCommits ==
  ASSUME TemplateInv, NEW s \in TemplateSessions, CommitPublish(s)
  PROVE  TemplateInv'
<1> DEFINE v == txn[s].version  others == txn[s].others
<1>1. v \in Versions /\ others \subseteq Versions \ {v}
  BY TxnOperations DEF CommitPublish, TemplateInv, TxnInv
<1>2. /\ rows' = [u \in Versions |->
            IF u \in others THEN [rows[u] EXCEPT !.status = "deprecated"]
            ELSE IF u = v /\ txn[s].read # "published"
              THEN [rows[u] EXCEPT !.status = "published"] ELSE rows[u]]
      /\ publishedAtOnce' = (publishedAtOnce \/ Published \ {v} # others)
      /\ others \subseteq Present /\ v \in Present
      /\ txn' = [txn EXCEPT ![s] = NoWork]
      /\ UNCHANGED <<bound, txns, editedLate>>
  BY DEF CommitPublish, CommitWork, Writes, Deprecated
<1> HIDE DEF v, others
<1>3. /\ \A u \in others : rows[u] \in TemplateRow
      /\ rows[v] \in TemplateRow
  BY <1>1, <1>2, PresentRows DEF TemplateInv
<1>4. \A u \in others \union {v}, st \in TemplateStatus :
        /\ [rows[u] EXCEPT !.status = st] \in TemplateRow
        /\ [rows[u] EXCEPT !.status = st].status = st
        /\ [rows[u] EXCEPT !.status = st].schema = rows[u].schema
  BY <1>3, RowTypes DEF TemplateRow
<1>5. /\ \A u \in others : /\ rows'[u] \in TemplateRow /\ rows'[u].status = "deprecated"
                           /\ rows'[u].schema = rows[u].schema
      /\ \/ rows'[v] = rows[v]
         \/ /\ rows'[v] \in TemplateRow /\ rows'[v].status = "published"
            /\ rows'[v].schema = rows[v].schema
      /\ \A u \in Versions \ (others \union {v}) : rows'[u] = rows[u]
  BY <1>1, <1>2, <1>4 DEF TemplateStatus
<1>6. RowsKept
  <2>1. rows' \in [Versions -> TemplateRow \union {NoRow}]
    <3>1. \A u \in Versions : rows'[u] \in TemplateRow \union {NoRow}
      BY <1>5 DEF TemplateInv, TemplateTypeOK
    <3> QED  BY <1>2, <3>1
  <2>2. editedLate \subseteq editedLate' /\ editedLate' \subseteq Versions
    BY <1>2 DEF TemplateInv, TemplateTypeOK
  <2> QED  BY <1>5, <2>1, <2>2, PresentRows DEF RowsKept, TemplateInv
<1>7. publishedAtOnce' \in BOOLEAN
  BY <1>2
<1>8. TemplateTypeOK' /\ TxnInv' /\ FitsInv'
  BY <1>2, <1>6, <1>7, CommitKeepsFits
<1>9. ASSUME ~publishedAtOnce' PROVE Published' \subseteq {v}
  <2>1. Published \ {v} = others
    BY <1>2, <1>9
  <2>2. \A u \in Versions \ {v} : rows'[u].status # "published"
    BY <1>5, <2>1, PresentRows DEF TemplateInv
  <2> QED  BY <1>6, <2>2, PublishedNext DEF RowsKept
<1> QED  BY <1>8, <1>9 DEF TemplateInv, OnePublished

\* A deprecation changes a status, which is not draft afterwards.
LEMMA DeprecateCommits ==
  ASSUME TemplateInv, NEW s \in TemplateSessions, CommitDeprecate(s)
  PROVE  TemplateInv'
<1> DEFINE v == txn[s].version
<1>1. v \in Versions
  BY TxnOperations DEF CommitDeprecate, TemplateInv, TxnInv
<1>2. /\ \/ rows' = rows
         \/ rows' = [rows EXCEPT ![v].status = "deprecated"]
      /\ v \in Present
      /\ txn' = [txn EXCEPT ![s] = NoWork]
      /\ UNCHANGED <<bound, txns, editedLate, publishedAtOnce>>
  BY DEF CommitDeprecate, CommitWork, Writes
<1> HIDE DEF v
<1>3. rows[v] \in TemplateRow
  BY <1>1, <1>2, PresentRows DEF TemplateInv
<1> DEFINE row == [rows[v] EXCEPT !.status = "deprecated"]
<1>4. row \in TemplateRow /\ row.status = "deprecated" /\ row.schema = rows[v].schema
  BY <1>3, RowTypes DEF TemplateRow, TemplateStatus
<1>5. rows' = rows \/ rows' = [rows EXCEPT ![v] = row]
  BY <1>2
<1> HIDE DEF row
<1>6. /\ rows'[v] = rows[v] \/ rows'[v] = row
      /\ \A u \in Versions \ {v} : rows'[u] = rows[u]
  BY <1>1, <1>5 DEF TemplateInv, TemplateTypeOK
<1>7. RowsKept
  <2>1. rows' \in [Versions -> TemplateRow \union {NoRow}]
    BY <1>1, <1>4, <1>5 DEF TemplateInv, TemplateTypeOK
  <2>2. editedLate \subseteq editedLate' /\ editedLate' \subseteq Versions
    BY <1>2 DEF TemplateInv, TemplateTypeOK
  <2> QED  BY <1>4, <1>6, <2>1, <2>2, PresentRows DEF RowsKept, TemplateInv
<1>8. TemplateTypeOK' /\ TxnInv' /\ FitsInv'
  BY <1>2, <1>7, CommitKeepsFits DEF TemplateInv, TemplateTypeOK
<1>9. Published' \subseteq Published
  BY <1>4, <1>6, <1>7, PresentRows, PublishedNext DEF TemplateInv, RowsKept
<1> QED  BY <1>2, <1>8, <1>9 DEF TemplateInv, OnePublished

\* A new version is a draft.
LEMMA CreateVersion ==
  ASSUME TemplateInv, NEW v \in Versions, CreateTemplateVersion(v)
  PROVE  TemplateInv'
<1>1. PICK schema \in IF Present = {} THEN {Blank} ELSE {rows[u].schema : u \in Present} :
        rows' = [rows EXCEPT ![v] = [status |-> "draft", schema |-> schema]]
  BY DEF CreateTemplateVersion
<1>2. v \notin Present /\ UNCHANGED <<bound, txn, txns, editedLate, publishedAtOnce>>
  BY DEF CreateTemplateVersion
<1>3. schema \in Definitions \union {Blank}
  BY PresentRows, RowTypes DEF TemplateInv
<1> DEFINE row == [status |-> "draft", schema |-> schema]
<1>4. row \in TemplateRow /\ row.status = "draft"
  BY <1>3 DEF TemplateRow, TemplateStatus
<1>5. rows' = [rows EXCEPT ![v] = row]
  BY <1>1
<1> HIDE DEF row
<1>6. rows'[v] = row /\ \A u \in Versions \ {v} : rows'[u] = rows[u]
  BY <1>5 DEF TemplateInv, TemplateTypeOK
<1>7. RowsKept
  <2>1. rows' \in [Versions -> TemplateRow \union {NoRow}]
    BY <1>4, <1>5 DEF TemplateInv, TemplateTypeOK
  <2>2. editedLate \subseteq editedLate' /\ editedLate' \subseteq Versions
    BY <1>2 DEF TemplateInv, TemplateTypeOK
  <2> QED  BY <1>2, <1>6, <2>1, <2>2, PresentRows DEF RowsKept, TemplateInv
<1>8. TemplateTypeOK' /\ TxnInv' /\ FitsInv'
  BY <1>2, <1>7, CommitKeepsFits DEF TemplateInv, TemplateTypeOK
<1>9. Published' \subseteq Published
  BY <1>4, <1>6, <1>7, PresentRows, PublishedNext DEF TemplateInv, RowsKept
<1> QED  BY <1>2, <1>8, <1>9 DEF TemplateInv, OnePublished

\* The reading half of an operation changes nothing but its handler; a
\* submission has validated what it read.
LEMMA BeginTxn ==
  ASSUME TemplateInv, NEW s \in TemplateSessions, NEW w, TxnType(w), BeginWork(s, w),
         w.op = "submit" =>
           /\ bound[w.request] # NoRequest
           /\ w.released => Fits(bound[w.request].version, w.payload)
  PROVE  TemplateInv'
<1>1. /\ txn' = [txn EXCEPT ![s] = w]
      /\ txns < MaxTxns /\ txns' = txns + 1
      /\ rows' = rows /\ bound' = bound /\ editedLate' = editedLate
      /\ publishedAtOnce' = publishedAtOnce
  BY DEF BeginWork
<1>2. /\ DOMAIN txn' = TemplateSessions
      /\ \A r \in TemplateSessions : txn'[r] = IF r = s THEN w ELSE txn[r]
  BY <1>1 DEF TemplateInv, TxnInv
<1>3. TxnInv'
  BY <1>1, <1>2 DEF TemplateInv, TxnInv
<1>4. txns' \in 0 .. MaxTxns
  BY <1>1, TxnsAssumption DEF TemplateInv, TemplateTypeOK
<1>5. TemplateTypeOK'
  BY <1>1, <1>3, <1>4, TxnTypes DEF TxnInv, TemplateInv, TemplateTypeOK
<1>6. Present' = Present /\ Published' = Published
  BY <1>1 DEF Present, Published
<1>7. \A v, payload : Fits(v, payload)' <=> Fits(v, payload)
  BY <1>1, <1>6 DEF Fits
<1>8. FitsInv'
  BY <1>1, <1>2, <1>7 DEF TemplateInv, FitsInv
<1> QED  BY <1>1, <1>3, <1>5, <1>6, <1>8 DEF TemplateInv, OnePublished

\* Edits, deletions, publications and deprecations begin.
LEMMA BeginTemplateWork ==
  ASSUME TemplateInv, NEW s \in TemplateSessions, NEW v \in Present,
         \/ \E schema \in Definitions : BeginEdit(s, v, schema)
         \/ BeginDelete(s, v) \/ BeginPublish(s, v) \/ BeginDeprecate(s, v)
  PROVE  TemplateInv'
<1>1. v \in Versions
  BY DEF Present
<1>2. CASE \E schema \in Definitions : BeginEdit(s, v, schema)
  <2>1. PICK schema \in Definitions : BeginEdit(s, v, schema)
    BY <1>2
  <2> DEFINE w == [op |-> "edit", version |-> v, read |-> rows[v].status, schema |-> schema]
  <2>2. TxnType(w) /\ w.op # "submit"
    BY <1>1, <2>1 DEF BeginEdit, TxnType
  <2>3. BeginWork(s, w)
    BY <2>1 DEF BeginEdit
  <2> HIDE DEF w
  <2> QED  BY <2>2, <2>3, BeginTxn
<1>3. CASE BeginDelete(s, v)
  <2> DEFINE w == [op |-> "delete", version |-> v, read |-> rows[v].status]
  <2>1. TxnType(w) /\ w.op # "submit"
    BY <1>1, <1>3 DEF BeginDelete, TxnType
  <2>2. BeginWork(s, w)
    BY <1>3 DEF BeginDelete
  <2> HIDE DEF w
  <2> QED  BY <2>1, <2>2, BeginTxn
<1>4. CASE BeginPublish(s, v)
  <2> DEFINE w == [op |-> "publish", version |-> v, read |-> rows[v].status,
                   others |-> Published \ {v}]
  <2>1. TxnType(w) /\ w.op # "submit"
    BY <1>1 DEF TxnType, Published, Present
  <2>2. BeginWork(s, w)
    BY <1>4 DEF BeginPublish
  <2> HIDE DEF w
  <2> QED  BY <2>1, <2>2, BeginTxn
<1>5. CASE BeginDeprecate(s, v)
  <2> DEFINE w == [op |-> "deprecate", version |-> v, read |-> rows[v].status]
  <2>1. TxnType(w) /\ w.op # "submit"
    BY <1>1 DEF TxnType
  <2>2. BeginWork(s, w)
    BY <1>5 DEF BeginDeprecate
  <2> HIDE DEF w
  <2> QED  BY <2>1, <2>2, BeginTxn
<1> QED  BY <1>2, <1>3, <1>4, <1>5

\* A draft that is there, and its payload with the defaults filled in.
LEMMA RequestTypes ==
  ASSUME TemplateTypeOK
  PROVE  /\ \A q \in Requests : bound[q] # NoRequest =>
              /\ bound[q] \in RequestRow /\ bound[q].version \in Versions
              /\ bound[q].payload \subseteq Fields
         /\ \A v \in Present, payload \in SUBSET Fields :
              Normalized(rows[v].schema, payload) \subseteq Fields
<1>1. \A r \in RequestRow : r.version \in Versions /\ r.payload \subseteq Fields
  BY DEF RequestRow
<1>2. \A v \in Present : rows[v].schema.defaults \subseteq Fields
  BY PresentRows, RowTypes
<1> QED  BY <1>1, <1>2 DEF TemplateTypeOK, Normalized

\* A submission validates the normalized payload on the version's schema.
LEMMA SubmissionBegins ==
  ASSUME TemplateInv, NEW s \in TemplateSessions, NEW q \in Requests, BeginSubmit(s, q)
  PROVE  TemplateInv'
<1> DEFINE v == bound[q].version
           payload == Normalized(rows[v].schema, bound[q].payload)
           w == [op |-> "submit", request |-> q, read |-> bound[q].payload,
                 payload |-> payload, released |-> rows[v].status # "draft"]
<1>1. /\ bound[q].status = "draft" /\ v \in Present
      /\ Complete(rows[v].schema, payload) /\ BeginWork(s, w)
  BY DEF BeginSubmit
<1>2. bound[q] # NoRequest
  BY <1>1 DEF NoRequest
<1>3. bound[q].payload \in SUBSET Fields
  BY <1>2, RequestTypes DEF TemplateInv
<1>4. payload \subseteq Fields
  BY <1>1, <1>3, RequestTypes DEF TemplateInv
<1> HIDE DEF v, payload
<1>5. TxnType(w)
  BY <1>4 DEF TxnType
<1>6. w.released => Fits(v, payload)
  BY <1>1 DEF Fits
<1>7. w.request = q /\ w.payload = payload
  OBVIOUS
<1> HIDE DEF w
<1> QED  BY <1>1, <1>2, <1>5, <1>6, <1>7, BeginTxn DEF v

\* While the rows and the handlers stay, the requests alone have to fit.
LEMMA RequestChanges ==
  ASSUME TemplateInv, NEW q \in Requests, NEW r \in RequestRow,
         bound' = [bound EXCEPT ![q] = r],
         bound[q] # NoRequest => r.version = bound[q].version,
         rows' = rows, editedLate' = editedLate, txns' = txns,
         publishedAtOnce' = publishedAtOnce,
         DOMAIN txn' = TemplateSessions,
         \A s \in TemplateSessions : txn'[s] = txn[s] \/ txn'[s] = NoWork,
         (r.status = "submitted" /\ r.released /\ r.version \notin editedLate)
           => Fits(r.version, r.payload)
  PROVE  TemplateInv'
<1>1. NoWork.op = "idle" /\ TxnType(NoWork)
  BY DEF NoWork, TxnType
<1>2. r # NoRequest
  BY DEF RequestRow, NoRequest
<1>3. \A p \in Requests : bound'[p] = IF p = q THEN r ELSE bound[p]
  BY DEF TemplateInv, TemplateTypeOK
<1>4. \A s \in TemplateSessions : TxnType(txn'[s])
  BY <1>1 DEF TemplateInv, TxnInv
<1>5. \A s \in TemplateSessions : txn'[s].op = "submit" =>
        /\ txn'[s] = txn[s] /\ txn[s].request \in Requests
        /\ bound[txn[s].request] # NoRequest
        /\ bound'[txn[s].request] # NoRequest
        /\ bound'[txn[s].request].version = bound[txn[s].request].version
  BY <1>1, <1>2, <1>3, TxnOperations DEF TemplateInv, TxnInv
<1>6. TxnInv'
  BY <1>4, <1>5 DEF TxnInv
<1>7. TemplateTypeOK'
  <2>1. bound' \in [Requests -> RequestRow \union {NoRequest}]
    BY DEF TemplateInv, TemplateTypeOK
  <2> QED  BY <1>4, <2>1, TxnTypes DEF TemplateInv, TemplateTypeOK
<1>8. Present' = Present /\ Published' = Published
  BY DEF Present, Published
<1>9. \A v, payload : Fits(v, payload)' <=> Fits(v, payload)
  BY <1>8 DEF Fits
<1>10. FitsInv'
  BY <1>3, <1>5, <1>9 DEF TemplateInv, FitsInv
<1> QED  BY <1>6, <1>7, <1>8, <1>10 DEF TemplateInv, OnePublished

\* Drafts and amendments are not submitted.
LEMMA DraftChanges ==
  ASSUME TemplateInv, NEW q \in Requests,
         \/ \E v \in Versions, payload \in SUBSET Fields : CreateRequestDraft(q, v, payload)
         \/ \E payload \in SUBSET Fields : AmendRequest(q, payload)
  PROVE  TemplateInv'
<1>1. PICK v \in Versions, payload \in SUBSET Fields :
        /\ bound' = [bound EXCEPT ![q] = [status |-> "draft", version |-> v, payload |-> payload]]
        /\ bound[q] # NoRequest => v = bound[q].version
        /\ UNCHANGED <<rows, txn, txns, editedLate, publishedAtOnce>>
  <2>1. ASSUME NEW v \in Versions, NEW p \in SUBSET Fields, CreateRequestDraft(q, v, p)
        PROVE  /\ Normalized(rows[v].schema, p) \in SUBSET Fields
               /\ bound' = [bound EXCEPT ![q] = [status |-> "draft", version |-> v,
                                payload |-> Normalized(rows[v].schema, p)]]
               /\ bound[q] = NoRequest
               /\ UNCHANGED <<rows, txn, txns, editedLate, publishedAtOnce>>
    BY <2>1, RequestTypes DEF CreateRequestDraft, TemplateInv
  <2>2. ASSUME NEW p \in SUBSET Fields, AmendRequest(q, p)
        PROVE  /\ bound[q].version \in Versions
               /\ bound' = [bound EXCEPT ![q] = [status |-> "draft",
                                version |-> bound[q].version, payload |-> p]]
               /\ UNCHANGED <<rows, txn, txns, editedLate, publishedAtOnce>>
    BY <2>2, RequestTypes DEF AmendRequest, TemplateInv
  <2> QED  BY <2>1, <2>2
<1> DEFINE r == [status |-> "draft", version |-> v, payload |-> payload]
<1>2. r \in RequestRow /\ r.status = "draft" /\ r.version = v
  BY DEF RequestRow
<1>3. bound' = [bound EXCEPT ![q] = r]
  BY <1>1
<1> HIDE DEF r
<1>4. DOMAIN txn' = TemplateSessions /\ \A s \in TemplateSessions : txn'[s] = txn[s]
  BY <1>1 DEF TemplateInv, TxnInv
<1> QED  BY <1>1, <1>2, <1>3, <1>4, RequestChanges

\* A submission writes what was validated, or leaves what it had read.
LEMMA SubmitCommits ==
  ASSUME TemplateInv, NEW s \in TemplateSessions, CommitSubmit(s)
  PROVE  TemplateInv'
<1> DEFINE q == txn[s].request
<1>1. /\ q \in Requests /\ bound[q] # NoRequest
      /\ txn[s].payload \subseteq Fields /\ txn[s].released \in BOOLEAN
      /\ txn[s].released /\ bound[q].version \notin editedLate
           => Fits(bound[q].version, txn[s].payload)
  BY TxnOperations DEF CommitSubmit, TemplateInv, TxnInv, FitsInv
<1>2. bound[q].version \in Versions /\ bound[q].payload \subseteq Fields
  BY <1>1, RequestTypes DEF TemplateInv
<1> DEFINE p == IF txn[s].payload = txn[s].read THEN bound[q].payload ELSE txn[s].payload
           rel == txn[s].released /\ bound[q].payload = txn[s].read
           r == [status |-> "submitted", version |-> bound[q].version,
                 payload |-> p, released |-> rel]
<1>3. /\ bound' = [bound EXCEPT ![q] = r]
      /\ txn' = [txn EXCEPT ![s] = NoWork]
      /\ UNCHANGED <<rows, txns, editedLate, publishedAtOnce>>
  BY DEF CommitSubmit
<1>4. rel => p = txn[s].payload
  OBVIOUS
<1>5. p \in SUBSET Fields /\ rel \in BOOLEAN
  BY <1>1, <1>2
<1>6. rel => txn[s].released
  OBVIOUS
<1> HIDE DEF q, p, rel
<1>7. /\ r \in RequestRow /\ r.version = bound[q].version
      /\ r.payload = p /\ r.released = rel
  BY <1>2, <1>5 DEF RequestRow
<1> HIDE DEF r
<1>8. DOMAIN txn' = TemplateSessions
      /\ \A t \in TemplateSessions : txn'[t] = txn[t] \/ txn'[t] = NoWork
  BY <1>3 DEF TemplateInv, TxnInv
<1>9. (r.status = "submitted" /\ r.released /\ r.version \notin editedLate)
        => Fits(r.version, r.payload)
  BY <1>1, <1>4, <1>6, <1>7
<1> QED  BY <1>1, <1>3, <1>7, <1>8, <1>9, RequestChanges

\* An operation that is rolled back leaves the tables as they were.
LEMMA TemplateRollsBack ==
  ASSUME TemplateInv, NEW s \in TemplateSessions, RollBackTemplate(s)
  PROVE  TemplateInv'
<1>1. txn' = [txn EXCEPT ![s] = NoWork] /\ UNCHANGED <<rows, bound, txns, editedLate, publishedAtOnce>>
  BY DEF RollBackTemplate
<1>2. RowsKept
  BY <1>1, PresentRows DEF RowsKept, TemplateInv, TemplateTypeOK
<1>3. TemplateTypeOK' /\ TxnInv' /\ FitsInv'
  BY <1>1, <1>2, CommitKeepsFits DEF TemplateInv, TemplateTypeOK
<1>4. Published' = Published
  BY <1>1 DEF Published, Present
<1> QED  BY <1>1, <1>3, <1>4 DEF TemplateInv, OnePublished

LEMMA TemplateStarts == TemplateInit => TemplateInv
<1> SUFFICES ASSUME TemplateInit PROVE TemplateInv
  OBVIOUS
<1>1. TxnType(NoWork) /\ NoWork.op = "idle" /\ NoRequest.status = "none"
  BY DEF TxnType, NoWork, NoRequest
<1>2. TemplateTypeOK
  <2>1. \A t \in TemplateSessions : txn[t] = NoWork
    BY DEF TemplateInit
  <2>2. txns \in 0 .. MaxTxns
    BY TxnsAssumption DEF TemplateInit
  <2> QED  BY <2>1, <2>2 DEF TemplateInit, TemplateTypeOK
<1>3. TxnInv /\ FitsInv
  BY <1>1 DEF TemplateInit, TxnInv, FitsInv
<1>4. OnePublished
  BY DEF TemplateInit, OnePublished, Published, Present
<1> QED  BY <1>2, <1>3, <1>4 DEF TemplateInv

LEMMA TemplateSteps == TemplateInv /\ [TemplateNext]_templateVars => TemplateInv'
<1> SUFFICES ASSUME TemplateInv, [TemplateNext]_templateVars PROVE TemplateInv'
  OBVIOUS
<1>1. CASE UNCHANGED templateVars
  <2>1. UNCHANGED <<rows, bound, txn, txns, editedLate, publishedAtOnce>>
    BY <1>1 DEF templateVars
  <2> QED  BY <2>1 DEF TemplateInv, TemplateTypeOK, TxnInv, FitsInv, Fits, OnePublished,
                       Published, Present
<1>2. CASE \E v \in Versions : CreateTemplateVersion(v)
  BY <1>2, CreateVersion
<1>3. ASSUME NEW s \in TemplateSessions, NEW v \in Present,
             \/ \E schema \in Definitions : BeginEdit(s, v, schema)
             \/ BeginDelete(s, v) \/ BeginPublish(s, v) \/ BeginDeprecate(s, v)
      PROVE  TemplateInv'
  BY <1>3, BeginTemplateWork
<1>4. ASSUME NEW s \in TemplateSessions,
             \/ CommitEdit(s) \/ CommitDelete(s) \/ CommitPublish(s) \/ CommitDeprecate(s)
             \/ \E q \in Requests : BeginSubmit(s, q)
             \/ CommitSubmit(s)
             \/ RollBackTemplate(s)
      PROVE  TemplateInv'
  BY <1>4, EditCommits, DeleteCommits, PublishCommits, DeprecateCommits, SubmissionBegins,
     SubmitCommits, TemplateRollsBack
<1>5. ASSUME NEW q \in Requests,
             \/ \E v \in Versions, payload \in SUBSET Fields : CreateRequestDraft(q, v, payload)
             \/ \E payload \in SUBSET Fields : AmendRequest(q, payload)
      PROVE  TemplateInv'
  BY <1>5, DraftChanges
<1> QED  BY <1>1, <1>2, <1>3, <1>4, <1>5 DEF TemplateNext

LEMMA TemplateInvariant == TemplateSpec => []TemplateInv
BY TemplateStarts, TemplateSteps, PTL DEF TemplateSpec

\* The rows, the requests and the handlers keep their types, whatever the
\* template operations of the repository read and write.
THEOREM TemplateTypeCorrect == TemplateSpec => []TemplateTypeOK
<1>1. TemplateInv => TemplateTypeOK
  BY DEF TemplateInv
<1> QED  BY <1>1, TemplateInvariant, PTL

\* However many handlers publish, edit and delete versions of a template, two
\* of its versions are published at a time only after two publications have
\* run into one another.
THEOREM OneVersionPublished == TemplateSpec => []OnePublished
<1>1. TemplateInv => OnePublished
  BY DEF TemplateInv
<1> QED  BY <1>1, TemplateInvariant, PTL

\* For any schemas, versions and requests: what submit_request validated on a
\* version that had left draft stays valid, but for edits and deletions that
\* were begun on the draft and for payloads amended in between.
THEOREM SubmissionsStayValid == TemplateSpec => []SubmittedStaysValid
<1>1. TemplateInv => SubmittedStaysValid
  BY DEF TemplateInv, FitsInv, Fits, SubmittedStaysValid
<1> QED  BY <1>1, TemplateInvariant, PTL

-----------------------------------------------------------------------------
(* Templates: one handler at a time *)

\* What a handler has read of the rows is still so.
TemplatesCurrent ==
  /\ editedLate = {} /\ ~publishedAtOnce
  /\ \A s \in TemplateSessions :
       /\ txn[s].op \in {"edit", "delete"} => rows[txn[s].version].status = txn[s].read
       /\ txn[s].op = "publish" => txn[s].others = Published \ {txn[s].version}

LEMMA TemplatesStayCurrent ==
  ASSUME \A r, s \in TemplateSessions : r = s,
         TemplateInv, TemplatesCurrent, [TemplateNext]_templateVars
  PROVE  TemplatesCurrent'
<1>1. NoWork.op = "idle"
  BY DEF NoWork
<1>2. CASE UNCHANGED <<rows, txn, editedLate, publishedAtOnce>>
  BY <1>2 DEF TemplatesCurrent, Published, Present
<1>3. ASSUME NEW s \in TemplateSessions, txn' = [txn EXCEPT ![s] = NoWork],
             editedLate' = {}, ~publishedAtOnce'
      PROVE  TemplatesCurrent'
  <2>1. \A t \in TemplateSessions : txn'[t].op = "idle"
    BY <1>1, <1>3 DEF TemplateInv, TxnInv
  <2> QED  BY <1>3, <2>1 DEF TemplatesCurrent
<1>4. ASSUME NEW v \in Versions, CreateTemplateVersion(v) PROVE TemplatesCurrent'
  <2>1. PICK schema : rows' = [rows EXCEPT ![v] = [status |-> "draft", schema |-> schema]]
    BY <1>4 DEF CreateTemplateVersion
  <2>2. v \notin Present /\ UNCHANGED <<txn, editedLate, publishedAtOnce>>
    BY <1>4 DEF CreateTemplateVersion
  <2>3. \A u \in Versions : rows'[u] = IF u = v THEN [status |-> "draft", schema |-> schema] ELSE rows[u]
    BY <2>1 DEF TemplateInv, TemplateTypeOK
  <2>4. rows[v] = NoRow /\ NoRow.status = "none"
    BY <2>2 DEF Present, NoRow
  <2>5. Published' = Published
    <3>1. rows' \in [Versions -> TemplateRow \union {NoRow}]
      BY <1>4, CreateVersion DEF TemplateInv, TemplateTypeOK
    <3>2. \A u \in Versions : u \in Published' <=> u \in Published
      BY <2>3, <2>4, <3>1, PresentRows, PublishedNext DEF TemplateInv
    <3> QED  BY <3>2 DEF Published, Present
  <2>6. ASSUME NEW s \in TemplateSessions, txn[s].op \in {"edit", "delete"}
        PROVE  rows'[txn[s].version] = rows[txn[s].version]
    <3>1. txn[s].version \in Versions /\ txn[s].read = "draft"
      BY <2>6, TxnOperations DEF TemplateInv, TxnInv
    <3>2. txn[s].version # v
      BY <2>4, <2>6, <3>1 DEF TemplatesCurrent
    <3> QED  BY <2>3, <3>1, <3>2
  <2> QED  BY <2>2, <2>5, <2>6 DEF TemplatesCurrent
<1>5. ASSUME NEW s \in TemplateSessions, NEW w, BeginWork(s, w),
             w.op \in {"edit", "delete"} => rows[w.version].status = w.read,
             w.op = "publish" => w.others = Published \ {w.version}
      PROVE  TemplatesCurrent'
  <2>1. \A t \in TemplateSessions : txn'[t] = w
    BY <1>5 DEF BeginWork, TemplateInv, TxnInv
  <2>2. UNCHANGED <<rows, editedLate, publishedAtOnce>> /\ Published' = Published
    BY <1>5 DEF BeginWork, Published, Present
  <2> QED  BY <1>5, <2>1, <2>2 DEF TemplatesCurrent
<1>6. ASSUME NEW s \in TemplateSessions, NEW v \in Present,
             \/ \E schema \in Definitions : BeginEdit(s, v, schema)
             \/ BeginDelete(s, v) \/ BeginPublish(s, v) \/ BeginDeprecate(s, v)
      PROVE  TemplatesCurrent'
  <2>1. ASSUME NEW schema \in Definitions, BeginEdit(s, v, schema) PROVE TemplatesCurrent'
    BY <1>5, <2>1 DEF BeginEdit
  <2> QED  BY <1>5, <1>6, <2>1 DEF BeginDelete, BeginPublish, BeginDeprecate
<1>7. ASSUME NEW s \in TemplateSessions, NEW q \in Requests, BeginSubmit(s, q)
      PROVE  TemplatesCurrent'
  BY <1>5, <1>7 DEF BeginSubmit
<1>8. ASSUME NEW s \in TemplateSessions, CommitEdit(s) \/ CommitDelete(s)
      PROVE  TemplatesCurrent'
  BY <1>3, <1>8 DEF CommitEdit, CommitDelete, CommitWork, TemplatesCurrent
<1>9. ASSUME NEW s \in TemplateSessions, CommitPublish(s) PROVE TemplatesCurrent'
  BY <1>3, <1>9 DEF CommitPublish, CommitWork, TemplatesCurrent
<1>10. ASSUME NEW s \in TemplateSessions,
              CommitDeprecate(s) \/ CommitSubmit(s) \/ RollBackTemplate(s)
       PROVE  TemplatesCurrent'
  BY <1>3, <1>10 DEF CommitDeprecate, CommitSubmit, RollBackTemplate, CommitWork, TemplatesCurrent
<1>11. ASSUME NEW q \in Requests,
              \/ \E v \in Versions, payload \in SUBSET Fields : CreateRequestDraft(q, v, payload)
              \/ \E payload \in SUBSET Fields : AmendRequest(q, payload)
       PROVE  TemplatesCurrent'
  BY <1>2, <1>11 DEF CreateRequestDraft, AmendRequest
<1>12. CASE UNCHANGED templateVars
  BY <1>2, <1>12 DEF templateVars
<1> QED  BY <1>4, <1>6, <1>7, <1>8, <1>9, <1>10, <1>11, <1>12 DEF TemplateNext

\* The exceptions of OnePublished and SubmittedStaysValid take two handlers:
\* while one works at a time, no publication runs into another and nothing
\* that has left draft is edited or deleted.
THEOREM OneHandlerKeepsTemplates ==
  ASSUME \A r, s \in TemplateSessions : r = s
  PROVE  TemplateSpec => [](~publishedAtOnce /\ editedLate = {})
<1>1. TemplateInit => TemplatesCurrent
  <2>1. NoWork.op = "idle"
    BY DEF NoWork
  <2> QED  BY <2>1 DEF TemplateInit, TemplatesCurrent
<1>2. TemplateInv /\ TemplatesCurrent /\ [TemplateNext]_templateVars => TemplatesCurrent'
  BY TemplatesStayCurrent
<1>3. TemplatesCurrent => ~publishedAtOnce /\ editedLate = {}
  BY DEF TemplatesCurrent
<1> QED  BY <1>1, <1>2, <1>3, TemplateInvariant, PTL DEF TemplateSpec
=============================================================================
