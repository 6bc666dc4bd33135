--------------------------- MODULE ServicesProofs ---------------------------
(***************************************************************************)
(* Proofs about the composition of the services, MCServices: what it does  *)
(* is what each of its components does, so that everything proved about a  *)
(* component holds of it.                                                  *)
(***************************************************************************)
EXTENDS MCServices, DeliveryProofs, ExecutionProofs, ContentProofs

-----------------------------------------------------------------------------
\* A step of the composition is a step of the focused component, and leaves
\* every other component as it is.
LEMMA ComponentSteps ==
  ASSUME [Next]_serviceVars
  PROVE  /\ [IdempotencyNext]_idempotencyVars
         /\ [EventLogNext]_eventLogVars
         /\ [FederationNext]_federationVars
         /\ [WorkflowNext]_workflowVars
         /\ [ContentNext]_contentVars
         /\ [KnowledgeNext]_knowledgeVars
         /\ [CollaborationNext]_collaborationVars
         /\ [DualNext]_dualVars
         /\ [TemplateNext]_templateVars
         /\ [RuntimeNext]_runtimeVars
<1>1. CASE UNCHANGED serviceVars
  BY <1>1 DEF serviceVars
<1>2. CASE Next
  <2>1. [IdempotencyNext]_idempotencyVars
    BY <1>2 DEF Next, Still
  <2>2. [EventLogNext]_eventLogVars
    BY <1>2 DEF Next, Still
  <2>3. [FederationNext]_federationVars
    BY <1>2 DEF Next, Still
  <2>4. [WorkflowNext]_workflowVars
    BY <1>2 DEF Next, Still
  <2>5. [ContentNext]_contentVars
    BY <1>2 DEF Next, Still
  <2>6. [KnowledgeNext]_knowledgeVars
    BY <1>2 DEF Next, Still
  <2>7. [CollaborationNext]_collaborationVars
    BY <1>2 DEF Next, Still
  <2>8. [DualNext]_dualVars
    BY <1>2 DEF Next, Still
  <2>9. [TemplateNext]_templateVars
    BY <1>2 DEF Next, Still
  <2>10. [RuntimeNext]_runtimeVars
    BY <1>2 DEF Next, Still
  <2> QED  BY <2>1, <2>2, <2>3, <2>4, <2>5, <2>6, <2>7, <2>8, <2>9, <2>10
<1> QED  BY <1>1, <1>2

\* A behaviour of the composition is one of each component.
THEOREM ComponentBehaviours ==
  Spec => /\ IdempotencySpec
          /\ EventLogSpec
          /\ FederationSpec
          /\ WorkflowSpec
          /\ ContentSpec
          /\ KnowledgeSpec
          /\ CollaborationSpec
          /\ DualSpec
          /\ TemplateSpec
          /\ RuntimeSpec
<1>1. Init => IdempotencyInit /\ EventLogInit /\ FederationInit /\ WorkflowInit
             /\ ContentInit /\ KnowledgeInit /\ CollaborationInit
             /\ DualInit /\ TemplateInit /\ RuntimeInit
  BY DEF Init
<1> QED  BY <1>1, ComponentSteps, PTL DEF Spec, IdempotencySpec, EventLogSpec, FederationSpec, WorkflowSpec, ContentSpec, KnowledgeSpec, CollaborationSpec, DualSpec, TemplateSpec, RuntimeSpec

\* The variables of all services keep their types, whichever of them runs.
THEOREM ServicesTypeCorrect == Spec => []TypeOK
<1>1. /\ IdempotencyTypeOK /\ EventLogTypeOK /\ FederationTypeOK /\ WorkflowTypeOK
      /\ ContentTypeOK /\ KnowledgeTypeOK /\ CollaborationTypeOK /\ DualTypeOK
      /\ TemplateTypeOK /\ RuntimeTypeOK
      => TypeOK
  BY DEF TypeOK
<1> QED  BY <1>1, ComponentBehaviours, IdempotencyTypeCorrect, EventLogTypeCorrect,
            FederationTypeCorrect, WorkflowTypeCorrect, ContentTypeCorrect,
            KnowledgeTypeCorrect, CollaborationTypeCorrect, DualTypeCorrect,
            TemplateTypeCorrect, RuntimeTypeCorrect, PTL

\* What is proved of the components holds of their composition: every
\* invariant that is checked of it, for every value of the constants.
THEOREM ServicesKeepPromises ==
  Spec => [](/\ SequentialCallsAgree /\ PublishedWasSent /\ ReplaySkipsOnlyLate
             /\ StepsInOrder /\ EffectsCountOnce /\ EndedNotReopened
             /\ ExternalViewIsReported /\ LastEventTellsState /\ VersionsHaveSnapshots
             /\ ModesChain /\ PendingItemHasWork /\ OnePublished /\ SubmittedStaysValid)
BY ComponentBehaviours, SequentialAgreement, PublishedSent, ReplayMissesOnlyLate,
   StepsStayInOrder, EffectsCounted, EndedStays, ViewIsReported, EventsTellState,
   SnapshotsOfVersions, ModesFormChain, PendingItemsHaveWork, OneVersionPublished,
   SubmissionsStayValid, PTL
=============================================================================
