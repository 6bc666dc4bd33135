SPECIFICATION Spec
CONSTANTS
  Gates <- NoGates
  Stages = 2
  AssignableIn <- Nowhere
  MaxResume = 0
  ExplicitTargets = {}
INVARIANTS
  ApprovedReviewNotStale
  PhaseHasItsRows
  OnlyAfterSubmission
CHECK_DEADLOCK FALSE
