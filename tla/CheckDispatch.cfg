SPECIFICATION FairSpec
CONSTANTS
  Sessions = {s1, s2}
  MaxTries = 3
  MaxContent = 2
  MaxCrashes = 1
INVARIANTS
  TypeOK
  OneThreadPerRun
  ResultsCoverEnqueue
PROPERTIES
  AttendedRunFinishes
  QueuedRunFinishes
  ImplementsCheckRuns
\* All sessions may have ended.
CHECK_DEADLOCK FALSE
