SPECIFICATION Spec
CONSTANTS
  Gates <- NoGates
  Stages = 0
  AssignableIn <- Nowhere
  MaxResume = 0
  ExplicitTargets = {}
PROPERTY PromotedOnlyWhenReady
CHECK_DEADLOCK FALSE
