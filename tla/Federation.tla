----------------------------- MODULE Federation -----------------------------
(***************************************************************************)
(* Projections of one governed entity into external systems:               *)
(* ProjectionService, ReconciliationService and the projection adapters    *)
(* that stand for the external side.                                       *)
(*                                                                         *)
(* A projection mapping keeps one JSON column, external_state: the         *)
(* visible status, the adapter's own record of the external system (its    *)
(* _adapter_shadow) and the basis of the last resolution.  Every operation *)
(* reads the row in its session, computes a whole new JSON value and       *)
(* writes the columns it changed when it commits, so that an operation     *)
(* that commits in between is overwritten.                                 *)
(***************************************************************************)
EXTENDS Naturals

CONSTANTS
  Projections,   \* mapping rows of one integration that may be created
  Adapters,      \* adapter types of the integrations
  Statuses,      \* statuses of the entity and of its external counterpart
  Syncers,       \* request handlers that work at the same time
  MaxOperations  \* bound: operations begun in all

VARIABLES
  canonical,    \* the governed entity's status
  mapping,      \* the committed projection rows, NoMapping before they exist
  operation,    \* what each handler has read and is about to write
  operations,
  observed,     \* history: the status each external system last reported
  placed,       \* history: the governed status a resolution put in its place
  raced         \* history: rows written from a copy that was out of date

federationVars == <<canonical, mapping, operation, operations, observed, placed, raced>>

-----------------------------------------------------------------------------
NoStatus == "none"
ASSUME StatusesAssumption == NoStatus \notin Statuses

NoMapping == [adapter |-> "none"]
Mapping ==
  [adapter: Adapters, visible: Statuses, shadow: Statuses,
   basis: {"none", "accept_internal", "accept_external", "merge", "retry_sync",
           "reprovision", "resume_session", "resume_runtime",
           "approve_runtime_checkpoint", "import_runtime_artifact"},
   status: {"pending", "synced", "conflict", "reconciled"}]

NoOperation == [op |-> "idle"]
Mapped == {m \in Projections : mapping[m] # NoMapping}

FederationTypeOK ==
  /\ canonical \in Statuses
  /\ mapping \in [Projections -> Mapping \union {NoMapping}]
  /\ \A s \in Syncers :
       \/ operation[s] = NoOperation
       \/ /\ operation[s].op = "row"
          /\ operation[s].m \in Mapped
          /\ {operation[s].read, operation[s].write} \subseteq Mapping
       \/ /\ operation[s].op = "pass"
          /\ operation[s].verdict \in [DOMAIN operation[s].read -> {"conflict", "synced"}]
  /\ observed \in [Projections -> Statuses \union {NoStatus}]
  /\ placed \in [Projections -> Statuses \union {NoStatus}]
  /\ raced \subseteq Mapped

FederationInit ==
  /\ canonical \in Statuses
  /\ mapping = [m \in Projections |-> NoMapping]
  /\ operation = [s \in Syncers |-> NoOperation]
  /\ operations = 0
  /\ observed = [m \in Projections |-> NoStatus]
  /\ placed = [m \in Projections |-> NoStatus]
  /\ raced = {}

-----------------------------------------------------------------------------
(* The adapters *)

Supported(adapter) ==
  {"accept_internal", "accept_external"} \union
  CASE adapter = "runtime_projection"  -> {"retry_sync"}
    [] adapter = "identity_projection" -> {"reprovision"}
    [] adapter = "agent_projection"    -> {"resume_session"}
    [] adapter = "sbcl_agent_projection" ->
         {"resume_runtime", "approve_runtime_checkpoint", "import_runtime_artifact"}
    [] OTHER -> {"merge"}

\* the resolutions that put the canonical fields into the visible ones: the
\* generic adapter's merge does not, nor any of the runtime actions, which
\* resolve_adapter_by_type sends to the generic adapter
CopiesCanonical(adapter, action) ==
  \/ action = "accept_internal"
  \/ adapter = "repository_projection" /\ action = "merge"
  \/ adapter = "identity_projection" /\ action = "reprovision"

\* the resolutions that put a new time, counter or log entry into the JSON
Restamps(adapter, action) ==
  \/ adapter = "repository_projection"
  \/ action \in {"accept_external", "retry_sync", "reprovision", "resume_session"}

Projected(adapter) ==
  [adapter |-> adapter, visible |-> canonical, shadow |-> canonical,
   basis |-> "none", status |-> "pending"]

\* query_external_state shows what the shadow holds
Synced(row) == [row EXCEPT !.visible = row.shadow, !.status = "synced"]

Observed(row, st) == [row EXCEPT !.visible = st, !.shadow = st]

Resolved_shadow(row, action) ==
  [row EXCEPT !.basis = action,
              !.visible = IF CopiesCanonical(row.adapter, action) THEN canonical ELSE @,
              !.shadow = IF CopiesCanonical(row.adapter, action) THEN canonical ELSE @,
              !.status = IF action = "retry_sync" THEN "pending" ELSE "reconciled"]

Resolved(row, action) ==
  [row EXCEPT !.basis = action,
              !.visible = IF CopiesCanonical(row.adapter, action) THEN canonical ELSE @,
              !.status = IF action = "retry_sync" THEN "pending" ELSE "reconciled"]

Conflict(row) ==
  /\ row.basis # "accept_external"
  /\ row.visible # canonical

-----------------------------------------------------------------------------
(* Operations on a row: the read and what is computed from it *)

ChangeEntity(st) ==
  /\ operations < MaxOperations
  /\ st # canonical
  /\ canonical' = st
  /\ operations' = operations + 1
  /\ UNCHANGED <<mapping, operation, observed, placed, raced>>

\* one transaction that only inserts: nothing can overtake it
ProjectEntity(m, adapter) ==
  /\ operations < MaxOperations
  /\ m \notin Mapped
  /\ mapping' = [mapping EXCEPT ![m] = Projected(adapter)]
  /\ observed' = [observed EXCEPT ![m] = canonical]
  /\ operations' = operations + 1
  /\ UNCHANGED <<canonical, operation, placed, raced>>

\* a handler reads row m and keeps what it will write; "rewrites" when the new
\* JSON differs from the old by a time stamp or a counter at least
BeginOperation(s, m, row, rewrites, reported, places) ==
  /\ operation[s] = NoOperation
  /\ operations < MaxOperations
  /\ operations' = operations + 1
  /\ operation' = [operation EXCEPT ![s] =
       [op |-> "row", m |-> m, read |-> mapping[m], write |-> row,
        rewrites |-> rewrites, reports |-> reported, places |-> places]]
  /\ UNCHANGED <<canonical, mapping, observed, placed, raced>>

SyncExternalState(s, m) ==
  BeginOperation(s, m, Synced(mapping[m]), TRUE, NoStatus, NoStatus)

UpdateExternalState(s, m, st) ==
  BeginOperation(s, m, Observed(mapping[m], st), FALSE, st, NoStatus)

ApplyResolution(s, m, action) ==
  /\ action \in Supported(mapping[m].adapter)
  /\ BeginOperation(s, m, Resolved(mapping[m], action),
           Restamps(mapping[m].adapter, action), NoStatus,
           IF CopiesCanonical(mapping[m].adapter, action) THEN canonical ELSE placed[m])

Json(row) == <<row.visible, row.shadow, row.basis>>

\* the columns a handler found itself to have changed are written, the JSON
\* column as a whole
Written(old, mine) ==
  LET json == IF mine.rewrites \/ Json(mine.write) # Json(mine.read) THEN mine.write ELSE old
      status == IF mine.write.status # mine.read.status THEN mine.write.status ELSE old.status
  IN  [json EXCEPT !.status = status]

CommitRow(s) ==
  /\ operation[s].op = "row"
  /\ LET mine == operation[s]  m == operation[s].m IN
       /\ mapping' = [mapping EXCEPT ![m] = Written(mapping[m], mine)]
       /\ raced' = IF Json(mapping[m]) # Json(mine.read) THEN raced \union {m} ELSE raced
       /\ observed' = [observed EXCEPT ![m] = IF mine.reports = NoStatus THEN @ ELSE mine.reports]
       /\ placed' = [placed EXCEPT ![m] = mine.places]
  /\ operation' = [operation EXCEPT ![s] = NoOperation]
  /\ UNCHANGED <<canonical, operations>>

\* reconcile_integration compares every row of the integration and commits
\* their statuses together
ReconcileIntegration(s) ==
  /\ operation[s] = NoOperation
  /\ operations < MaxOperations
  /\ Mapped # {}
  /\ operation' = [operation EXCEPT ![s] =
       [op |-> "pass",
        read |-> [m \in Mapped |-> mapping[m].status],
        verdict |-> [m \in Mapped |->
                       IF Conflict(mapping[m]) THEN "conflict" ELSE "synced"]]]
  /\ operations' = operations + 1
  /\ UNCHANGED <<canonical, mapping, observed, placed, raced>>

CommitPass(s) ==
  /\ operation[s].op = "pass"
  /\ LET mine == operation[s] IN
       mapping' = [m \in Projections |->
         IF m \in DOMAIN mine.verdict /\ mine.verdict[m] # mine.read[m]
           THEN [mapping[m] EXCEPT !.status = mine.verdict[m]] ELSE mapping[m]]
  /\ operation' = [operation EXCEPT ![s] = NoOperation]
  /\ UNCHANGED <<canonical, operations, observed, placed, raced>>

FederationNext ==
  \/ \E st \in Statuses : ChangeEntity(st)
  \/ \E m \in Projections, adapter \in Adapters : ProjectEntity(m, adapter)
  \/ \E s \in Syncers :
       \/ \E m \in Mapped :
            \/ SyncExternalState(s, m)
            \/ \E st \in Statuses : UpdateExternalState(s, m, st)
            \/ \E action \in Supported(mapping[m].adapter) : ApplyResolution(s, m, action)
       \/ CommitRow(s)
       \/ ReconcileIntegration(s)
       \/ CommitPass(s)

FederationSpec == FederationInit /\ [][FederationNext]_federationVars

-----------------------------------------------------------------------------
\* Through projections, observations, synchronizations and resolutions in any
\* order, what RGP holds of an external system is what that system reported
\* last, and the status it shows is that one, or the governed status that a
\* resolution has put in its place since the last synchronization (the
\* adapters keep a shadow that no resolution touches).  Rows two handlers
\* wrote at once are excepted: the whole JSON column is overwritten.
ExternalViewIsReported ==
  \A m \in Mapped \ raced :
    /\ mapping[m].shadow = observed[m]
    /\ mapping[m].visible = IF placed[m] = NoStatus THEN observed[m] ELSE placed[m]
=============================================================================
