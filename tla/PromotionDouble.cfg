SPECIFICATION Spec
CONSTANTS
  ann = ann
  bob = bob
  Sessions = {s1, s2}
  Approvers <- OneApprover
  Reviewers = {ann}
  ManualStates = {}
  MaxDeployments = 2
INVARIANT OneActiveExecution
CHECK_DEADLOCK FALSE
