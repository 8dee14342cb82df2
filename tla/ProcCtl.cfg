SPECIFICATION Spec
CONSTANTS
  NumTasks = 3
  NumNodes = 2
  NumThreads = 2
  MaxFaults = 1
  MaxSeq = 60
 
INVARIANT StoppedAsAsked
INVARIANT CleanSessions
 
CHECK_DEADLOCK FALSE
