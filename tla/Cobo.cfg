CONSTANTS
  N = 4
  Ops = {"barrier", "bcast", "gather", "scatter", "allgather", "allgather_str"}
  MaxOps = 2
  MaxDeaths = 1
  Room = 2
SPECIFICATION Spec
INVARIANT CleanClose
PROPERTY Implements
PROPERTY AllEnd
