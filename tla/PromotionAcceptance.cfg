SPECIFICATION Spec
CONSTANTS
  ann = ann
  bob = bob
  Sessions = {s1}
  Approvers <- OneApprover
  Reviewers = {ann}
  ManualStates = {}
  MaxDeployments = 1
PROPERTY AcceptedOnCurrentResults
CHECK_DEADLOCK FALSE
