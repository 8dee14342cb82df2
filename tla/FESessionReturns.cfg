\* Two descriptors and every function of the API, attaching for the launching of
\* the other runs; the engine may crash and deadlines expire.
SPECIFICATION FairSpec
CONSTANTS
  MaxSession = 2
  MaxEngines = 1
  MaxCalls = 4
  Ops = {"create","attach","detach","kill","shutdown","mw","recv","getProctable","getResourceHandle","getRMInfo","getStatus"}
  Timeouts = TRUE
  Spurious = FALSE
  ShortWrites = FALSE
  MwMayFail = FALSE
  Crashes = TRUE
INVARIANT MutualExclusion
 
PROPERTY CallReturns
\* The number of calls is bounded.
CHECK_DEADLOCK FALSE
