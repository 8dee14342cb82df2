\* Attach to a single-threaded RM_job that reaches both breakpoints; the front
\* end may also send an ill-formed message.
SPECIFICATION Spec
CONSTANTS
  Master = m
  Slaves = {}
  AttachMode = TRUE
  ApiMode = TRUE
  Coloc = FALSE
  ContOnAttach = FALSE
  FailDetect = TRUE
  StatShowsT = FALSE
  GraceSuffices = TRUE
  Forks = FALSE
  EngineSignals = FALSE
  MaxSigPolls = 2
  MaxSignals = 0
  Requests = {"detach", "cont_launch_bp", "bad"}
  MaxRequests = 2
  MpirSteps <- AnySteps
  MaxHits <- BothHits
PROPERTIES
  LaunchBpNeverMissed
\* The engine ends, and RM_job with it.
CHECK_DEADLOCK FALSE
