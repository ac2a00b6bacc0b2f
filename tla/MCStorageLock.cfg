SPECIFICATION FairSpec
CONSTANTS
  Workers = {w1, w2}
  Duration = 1
  BlockOffset = 0
  MaxTime = 2
  MaxBlock = 1
INVARIANTS
  CompareExclusive
  MutexesCleaned
  
PROPERTIES
  
  CompareAndSetReturns
