\* Two threads, every request of the front end, daemon failures and the death of
\* the front end, in any order, on a kernel that reports ptrace stops as "t".
SPECIFICATION FairSpec
CONSTANTS
  Master = m
  Slaves = {s}
  AttachMode = FALSE
  ApiMode = TRUE
  Coloc = FALSE
  ContOnAttach = FALSE
  FailDetect = TRUE
  StatShowsT = FALSE
  GraceSuffices = TRUE
  Forks = FALSE
  EngineSignals = FALSE
  MaxSigPolls = 2
  MaxSignals = 0
  Requests = {"detach", "kill", "shutdownbe", "cont_launch_bp"}
  MaxRequests = 2
  MpirSteps <- MCSteps
  MaxHits <- LaunchHits
INVARIANTS
  HeldIffParked
  AnsweredMeansReleased
  
  TrapsRemovedOnRequest
PROPERTIES
  FirstRequestWins
  RequestServed
\* The engine ends, and RM_job with it.
CHECK_DEADLOCK FALSE
