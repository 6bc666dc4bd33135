SPECIFICATION Spec
CONSTANTS
  Gates <- MCGates
  Stages = 0
  AssignableIn <- AnywhereButAwaitingInput
  MaxResume = 1
  ExplicitTargets = {}
INVARIANTS
  TypeOK
  ApprovedReviewNotStale
  StartAfterEnqueue
  PhaseHasItsRows
  OnlyAfterSubmission
  PackageEvidenceSound
PROPERTY ClosedStaysClosed
\* A superseded or completed request without run, review and sessions stops.
CHECK_DEADLOCK FALSE
