SPECIFICATION Spec
CONSTANT MaxProcs = 40
INVARIANT TreeAgrees
INVARIANT RanksInOrder
INVARIANT FitsArrays
PROPERTY LoopEnds
