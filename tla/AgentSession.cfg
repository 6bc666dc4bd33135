SPECIFICATION FairSpec
CONSTANTS
  Callers = {c1, c2}
  MaxThreads = 2
  MaxTurns = 3
  MaxCrashes = 1
INVARIANTS
  TypeOK
  OneTurnAtATime
  LastMessageAnswered
  
PROPERTIES
  CompletedNotHandedBack
  StreamingEnds
