----------------------------- MODULE Templates -----------------------------
(***************************************************************************)
(* The versions of one request template and the requests that are bound to *)
(* them: the template operations of GovernanceRepository, and of its       *)
(* request operations what they ask of a template.                         *)
(*                                                                         *)
(* A schema is the fields it declares, those it requires, those it has a   *)
(* default for and its conditional rules; a rule names the field it looks  *)
(* at and, in either of two ways, the fields it then requires.  A payload  *)
(* is the set of fields that have a value; the types of values are left    *)
(* out.  Every operation reads its rows in its session and commits the     *)
(* columns it changed; nothing is locked in between.                       *)
(***************************************************************************)
EXTENDS Naturals

CONSTANTS
  Versions,          \* version strings of the template
  Fields,            \* fields of its forms
  Definitions,       \* schemas an administrator may write
  Requests,          \* requests of the template that may be drafted
  TemplateSessions,  \* handlers that work at the same time
  MaxTxns            \* bound: operations on templates and submissions begun in all

\* a schema speaks of the fields of the template's form
ASSUME DefinitionsAssumption ==
  Definitions \subseteq
    [properties: SUBSET Fields, required: SUBSET Fields, defaults: SUBSET Fields,
     rules: SUBSET [when: Fields, field: Fields \union {"none"}, fields: SUBSET Fields]]
ASSUME TxnsAssumption == MaxTxns \in Nat

VARIABLES
  rows,            \* the row of each version, or NoRow
  bound,           \* the version, payload and status of each request
  txn,             \* what each handler has read and is about to write
  txns,
  editedLate,      \* history: versions edited or deleted after they left draft
  publishedAtOnce  \* history: publications that ran into another

templateVars == <<rows, bound, txn, txns, editedLate, publishedAtOnce>>

-----------------------------------------------------------------------------
NoRow == [status |-> "none"]
NoField == "none"
NoRequest == [status |-> "none"]
NoWork == [op |-> "idle"]
TemplateStatus == {"draft", "published", "deprecated"}
Blank == [properties |-> {}, required |-> {}, defaults |-> {}, rules |-> {}]
TemplateRow == [status: TemplateStatus, schema: Definitions \union {Blank}]
RequestRow ==
  [status: {"draft"}, version: Versions, payload: SUBSET Fields]
    \union [status: {"submitted"}, version: Versions, payload: SUBSET Fields, released: BOOLEAN]

Present == {v \in Versions : rows[v] # NoRow}
Published == {v \in Present : rows[v].status = "published"}

TemplateTypeOK ==
  /\ rows \in [Versions -> TemplateRow \union {NoRow}]
  /\ bound \in [Requests -> RequestRow \union {NoRequest}]
  /\ \A s \in TemplateSessions :
       \/ txn[s] = NoWork
       \/ /\ txn[s].op \in {"edit", "delete", "publish", "deprecate"}
          /\ txn[s].version \in Versions
       \/ txn[s].op = "submit" /\ txn[s].request \in Requests
  /\ txns \in 0 .. MaxTxns
  /\ editedLate \subseteq Versions
  /\ publishedAtOnce \in BOOLEAN

TemplateInit ==
  /\ rows = [v \in Versions |-> NoRow]
  /\ bound = [q \in Requests |-> NoRequest]
  /\ txn = [s \in TemplateSessions |-> NoWork]
  /\ txns = 0
  /\ editedLate = {}
  /\ publishedAtOnce = FALSE

-----------------------------------------------------------------------------
(* The template engine *)

\* validate_payload fills in the defaults before anything else
Normalized(schema, payload) == payload \union schema.defaults

\* a rule requires the field in its "field", if it has one, and validate_payload
\* knows of no other
RequiredOf(schema, payload) ==
  schema.required
    \union ({rule.field : rule \in {r \in schema.rules : r.when \in payload}} \ {NoField})

Complete(schema, payload) == RequiredOf(schema, payload) \subseteq payload

\* validate_definition reads "fields" where a rule has them, and "field" if not
Named(rule) == IF rule.fields = {} THEN {rule.field} \ {NoField} ELSE rule.fields

Accepted(schema) ==
  /\ schema.required \subseteq schema.properties
  /\ \A rule \in schema.rules :
       /\ rule.when \in schema.properties
       /\ Named(rule) # {} /\ Named(rule) \subseteq schema.properties

-----------------------------------------------------------------------------
(* Template versions *)

\* a new version starts as a draft, with the schema of another version if
\* there is one
CreateTemplateVersion(v) ==
  /\ v \notin Present
  /\ \E schema \in IF Present = {} THEN {Blank} ELSE {rows[u].schema : u \in Present} :
       rows' = [rows EXCEPT ![v] = [status |-> "draft", schema |-> schema]]
  /\ UNCHANGED <<bound, txn, txns, editedLate, publishedAtOnce>>

BeginWork(s, work) ==
  /\ txn[s] = NoWork
  /\ txns < MaxTxns
  /\ txns' = txns + 1
  /\ txn' = [txn EXCEPT ![s] = work]
  /\ UNCHANGED <<rows, bound, editedLate, publishedAtOnce>>

BeginEdit_released(s, v, schema) ==
  Accepted(schema) /\ BeginWork(s, [op |-> "edit", version |-> v, read |-> rows[v].status, schema |-> schema])

BeginEdit(s, v, schema) ==
  /\ rows[v].status = "draft"
  /\ Accepted(schema)
  /\ BeginWork(s, [op |-> "edit", version |-> v, read |-> rows[v].status, schema |-> schema])

BeginDelete(s, v) ==
  /\ rows[v].status = "draft"
  /\ BeginWork(s, [op |-> "delete", version |-> v, read |-> rows[v].status])

BeginPublish(s, v) ==
  /\ v \in Present
  /\ BeginWork(s, [op |-> "publish", version |-> v, read |-> rows[v].status,
               others |-> Published \ {v}])

BeginDeprecate(s, v) ==
  /\ v \in Present
  /\ BeginWork(s, [op |-> "deprecate", version |-> v, read |-> rows[v].status])

\* an UPDATE or DELETE that meets no row raises, and the session ends
Writes(s) == IF txn[s].op = "publish"
               THEN txn[s].others \union {txn[s].version}
               ELSE {txn[s].version}

CommitWork(s) == Writes(s) \subseteq Present /\ txn' = [txn EXCEPT ![s] = NoWork]

CommitEdit(s) ==
  /\ txn[s].op = "edit"
  /\ CommitWork(s)
  /\ LET v == txn[s].version IN
       /\ rows' = [rows EXCEPT ![v].schema = txn[s].schema]
       /\ editedLate' = IF rows[v].status = txn[s].read THEN editedLate ELSE editedLate \union {v}
  /\ UNCHANGED <<bound, txns, publishedAtOnce>>

CommitDelete(s) ==
  /\ txn[s].op = "delete"
  /\ CommitWork(s)
  /\ LET v == txn[s].version IN
       /\ rows' = [rows EXCEPT ![v] = NoRow]
       /\ editedLate' = IF rows[v].status = txn[s].read THEN editedLate ELSE editedLate \union {v}
  /\ UNCHANGED <<bound, txns, publishedAtOnce>>

Deprecated_none(s) == {}

\* the versions read as published are deprecated with it; a status that is
\* already what is asked for is not written
Deprecated(s) == txn[s].others

CommitPublish(s) ==
  /\ txn[s].op = "publish"
  /\ CommitWork(s)
  /\ LET v == txn[s].version IN
       /\ rows' = [u \in Versions |->
            IF u \in Deprecated(s) THEN [rows[u] EXCEPT !.status = "deprecated"]
            ELSE IF u = v /\ txn[s].read # "published"
              THEN [rows[u] EXCEPT !.status = "published"] ELSE rows[u]]
       /\ publishedAtOnce' = (publishedAtOnce \/ Published \ {v} # txn[s].others)
  /\ UNCHANGED <<bound, txns, editedLate>>

CommitDeprecate(s) ==
  /\ txn[s].op = "deprecate"
  /\ CommitWork(s)
  /\ rows' = IF txn[s].read = "deprecated" THEN rows
               ELSE [rows EXCEPT ![txn[s].version].status = "deprecated"]
  /\ UNCHANGED <<bound, txns, editedLate, publishedAtOnce>>

-----------------------------------------------------------------------------
(* Requests: any version that exists will do, published or not *)

CreateRequestDraft(q, v, payload) ==
  /\ bound[q] = NoRequest
  /\ v \in Present
  /\ bound' = [bound EXCEPT ![q] =
       [status |-> "draft", version |-> v, payload |-> Normalized(rows[v].schema, payload)]]
  /\ UNCHANGED <<rows, txn, txns, editedLate, publishedAtOnce>>

\* the payload of an amendment is stored as it comes
AmendRequest(q, payload) ==
  /\ bound[q] # NoRequest
  /\ bound' = [bound EXCEPT ![q] =
       [status |-> "draft", version |-> @.version, payload |-> payload]]
  /\ UNCHANGED <<rows, txn, txns, editedLate, publishedAtOnce>>

BeginSubmit(s, q) ==
  /\ bound[q].status = "draft"
  /\ bound[q].version \in Present
  /\ LET row == rows[bound[q].version]
         payload == Normalized(row.schema, bound[q].payload)
     IN /\ Complete(row.schema, payload)
        /\ BeginWork(s, [op |-> "submit", request |-> q, read |-> bound[q].payload,
                     payload |-> payload, released |-> row.status # "draft"])

\* a payload that the defaults have not changed is not written again, and
\* the status is: it was draft when it was read
CommitSubmit(s) ==
  /\ txn[s].op = "submit"
  /\ LET q == txn[s].request IN
       bound' = [bound EXCEPT ![q] =
         [status |-> "submitted", version |-> @.version,
          payload |-> IF txn[s].payload = txn[s].read THEN @.payload ELSE txn[s].payload,
          released |-> txn[s].released /\ @.payload = txn[s].read]]
  /\ txn' = [txn EXCEPT ![s] = NoWork]
  /\ UNCHANGED <<rows, txns, editedLate, publishedAtOnce>>

\* the operation raises and is rolled back
RollBackTemplate(s) ==
  /\ txn[s] # NoWork
  /\ txn' = [txn EXCEPT ![s] = NoWork]
  /\ UNCHANGED <<rows, bound, txns, editedLate, publishedAtOnce>>

TemplateNext ==
  \/ \E v \in Versions : CreateTemplateVersion(v)
  \/ \E s \in TemplateSessions :
       \/ \E v \in Present :
            \/ \E schema \in Definitions : BeginEdit(s, v, schema)
            \/ BeginDelete(s, v) \/ BeginPublish(s, v) \/ BeginDeprecate(s, v)
       \/ CommitEdit(s) \/ CommitDelete(s) \/ CommitPublish(s) \/ CommitDeprecate(s)
       \/ \E q \in Requests : BeginSubmit(s, q)
       \/ CommitSubmit(s)
       \/ RollBackTemplate(s)
  \/ \E q \in Requests :
       \/ \E v \in Versions, payload \in SUBSET Fields : CreateRequestDraft(q, v, payload)
       \/ \E payload \in SUBSET Fields : AmendRequest(q, payload)

TemplateSpec == TemplateInit /\ [][TemplateNext]_templateVars

-----------------------------------------------------------------------------
\* At most one version of a template is published at a time.  Only two
\* publications at once can leave two: each deprecates the versions it has
\* read as published.
OnePublished == publishedAtOnce \/ \A u, v \in Published : u = v

\* A request submitted on a version that had left draft keeps a payload that
\* its template accepts, and the template: only drafts are edited or deleted.
\* Excepted are versions that an edit or a deletion begun on the draft
\* reached after it was published, and payloads amended during the
\* submission; a request submitted on a draft version has no such guarantee.
SubmittedStaysValid ==
  \A q \in Requests :
    (bound[q].status = "submitted" /\ bound[q].released
       /\ bound[q].version \notin editedLate)
    => /\ bound[q].version \in Present
       /\ Complete(rows[bound[q].version].schema, bound[q].payload)
=============================================================================
