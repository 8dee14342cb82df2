\* Everything that goes wrong at once: SIGSTOPs that take longer than the grace
\* period, signals to RM_job and to the engine, forks, a dying front end.
SPECIFICATION Spec
CONSTANTS
  Master = m
  Slaves = {s}
  AttachMode = FALSE
  ApiMode = TRUE
  Coloc = FALSE
  ContOnAttach = FALSE
  FailDetect = TRUE
  StatShowsT = TRUE
  GraceSuffices = FALSE
  Forks = TRUE
  EngineSignals = TRUE
  MaxSigPolls = 2
  MaxSignals = 1
  Requests = {"kill", "cont_launch_bp"}
  MaxRequests = 1
  MpirSteps <- MCSteps
  MaxHits <- OneHit
INVARIANTS
  TypeOK
  TerminalIsLast
  KillsAreAsked
\* The engine ends, and RM_job with it.
CHECK_DEADLOCK FALSE
