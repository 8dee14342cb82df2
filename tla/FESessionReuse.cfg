\* Two sessions, one after the other, in one descriptor, with every failure but an
\* expired deadline.
SPECIFICATION Spec
CONSTANTS
  MaxSession = 1
  MaxEngines = 2
  MaxCalls = 6
  Ops = {"create","launch","detach","kill","shutdown","mw"}
  Timeouts = FALSE
  Spurious = TRUE
  ShortWrites = TRUE
  MwMayFail = TRUE
  Crashes = TRUE
INVARIANT TypeOK
INVARIANT AnswerIsEngines
 
 
\* The number of calls is bounded.
CHECK_DEADLOCK FALSE
