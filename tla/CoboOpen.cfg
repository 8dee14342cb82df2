\* A job of four daemons on hosts of its own, and a job of two that shares a host
\* with another, with one or two ports; one timeout.
SPECIFICATION Spec
CONSTANTS
  NAlone = 4
  NShared = 2
  NOther = 1
  MaxPorts = 2
  MaxConns = 5
  MaxFaults = 1
  SameSession = FALSE
INVARIANT NotAbandoned
 
INVARIANT OpenMeansComplete
PROPERTY OpensOrReports
\* Daemons whose parent has failed wait for one in accept.
CHECK_DEADLOCK FALSE
