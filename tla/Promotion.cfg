SPECIFICATION Spec
CONSTANTS
  ann = ann
  bob = bob
  Sessions = {s1, s2}
  Approvers <- OneApprover
  Reviewers = {ann, bob}
  ManualStates = {"passed"}
  MaxDeployments = 1
INVARIANTS
  TypeOK
  ApprovalsWereAuthorized
  DeploymentsJustified
  RecordsAreDeployments
SYMMETRY SymmetricSessions
CHECK_DEADLOCK FALSE
