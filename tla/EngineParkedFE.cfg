\* The front end dies while the only thread is parked at the launch breakpoint.
SPECIFICATION FairSpec
CONSTANTS
  Master = m
  Slaves = {}
  AttachMode = FALSE
  ApiMode = TRUE
  Coloc = FALSE
  ContOnAttach = FALSE
  FailDetect = TRUE
  StatShowsT = FALSE
  GraceSuffices = TRUE
  Forks = FALSE
  EngineSignals = FALSE
  MaxSigPolls = 2
  MaxSignals = 0
  Requests = {"detach", "kill", "shutdownbe", "cont_launch_bp"}
  MaxRequests = 0
  MpirSteps <- MCSteps
  MaxHits <- LaunchHits
PROPERTIES
  FEFailureCleanedUp
\* The engine ends, and RM_job with it.
CHECK_DEADLOCK FALSE
