----------------------------- MODULE MCServices -----------------------------
(***************************************************************************)
(* The components that work on rows of their own, for one run of TLC.  A   *)
(* behaviour is one of a single component, the focus, chosen at the start; *)
(* the others stay in their initial states.  They share no rows, so that   *)
(* nothing is lost by not interleaving them.                               *)
(***************************************************************************)
EXTENDS Idempotency, EventLog, Federation, WorkflowEngine, ContentWork,
        Knowledge, Collaboration, DualStore, Templates, RuntimeRun

VARIABLE focus

-----------------------------------------------------------------------------
\* one schema with a required field and a rule that is accepted and not
\* enforced, one that has its field by default and asks for another because of
\* it, and one that is not accepted
MCDefinitions ==
  LET fields == {"f1", "f2"}  rule == [when |-> "f1", field |-> "f2", fields |-> {}] IN
    {[properties |-> fields, required |-> {"f1"}, defaults |-> {},
      rules |-> {[rule EXCEPT !.field = "none", !.fields = {"f2"}]}],
     [properties |-> fields, required |-> {}, defaults |-> {"f1"}, rules |-> {rule}],
     [properties |-> {"f1"}, required |-> {}, defaults |-> {}, rules |-> {rule}]}

Components == {"idempotency", "eventLog", "federation", "workflow", "content",
               "knowledge", "collaboration", "dualStore", "templates", "runtime"}

Init ==
  /\ focus \in Components
  /\ IdempotencyInit /\ EventLogInit /\ FederationInit /\ WorkflowInit /\ ContentInit
  /\ KnowledgeInit /\ CollaborationInit /\ DualInit /\ TemplateInit /\ RuntimeInit
  \* of the entity's first status, and the reports, any one will do for the other components
  /\ focus # "federation" => canonical = CHOOSE st \in Statuses : TRUE
  /\ focus # "runtime" => \A e \in DOMAIN reports : reports[e] = "running"

Still(component, vars) == IF focus = component THEN TRUE ELSE UNCHANGED vars

Next ==
  /\ \/ focus = "idempotency" /\ IdempotencyNext
     \/ focus = "eventLog" /\ EventLogNext
     \/ focus = "federation" /\ FederationNext
     \/ focus = "workflow" /\ WorkflowNext
     \/ focus = "content" /\ ContentNext
     \/ focus = "knowledge" /\ KnowledgeNext
     \/ focus = "collaboration" /\ CollaborationNext
     \/ focus = "dualStore" /\ DualNext
     \/ focus = "templates" /\ TemplateNext
     \/ focus = "runtime" /\ RuntimeNext
  /\ UNCHANGED focus
  /\ Still("idempotency", idempotencyVars)
  /\ Still("eventLog", eventLogVars)
  /\ Still("federation", federationVars)
  /\ Still("workflow", workflowVars)
  /\ Still("content", contentVars)
  /\ Still("knowledge", knowledgeVars)
  /\ Still("collaboration", collaborationVars)
  /\ Still("dualStore", dualVars)
  /\ Still("templates", templateVars)
  /\ Still("runtime", runtimeVars)

serviceVars == <<focus, idempotencyVars, eventLogVars, federationVars, workflowVars, contentVars,
                 knowledgeVars, collaborationVars, dualVars, templateVars, runtimeVars>>

Spec == Init /\ [][Next]_serviceVars

-----------------------------------------------------------------------------
\* The variables of each component keep their types (the rows and sessions of
\* the services named above).
TypeOK ==
  /\ IdempotencyTypeOK /\ EventLogTypeOK /\ FederationTypeOK /\ WorkflowTypeOK
  /\ ContentTypeOK /\ KnowledgeTypeOK /\ CollaborationTypeOK /\ DualTypeOK
  /\ TemplateTypeOK /\ RuntimeTypeOK
=============================================================================
