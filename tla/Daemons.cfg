\* Three daemons, back ends or middleware; one call after the handshake; two faults.
SPECIFICATION Spec
CONSTANTS
  N = 3
  MaxUsr = 1
  MaxFaults = 2
  Asked = {"launch_dontstop", "attach_stop"}
  BigEndian = FALSE
INVARIANT ReleasedTogether
INVARIANT AgreedJob
INVARIANT ReadyMeansAll
INVARIANT SameReturn
PROPERTY AllEnd
