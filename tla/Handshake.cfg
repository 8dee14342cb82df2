CONSTANTS
  Sessions = {s1, s2}
  Keys = {k1, k2}
  Uids = {u1, u2}
  Timeouts = 3
SPECIFICATION Spec
INVARIANT MutualSuccess
INVARIANT InStep
PROPERTY BothReturn
