CONSTANTS
  Plugins = {"p1", "p2"}
  Rpls = {"r1", "r2"}
  Thunks = {"malloc"}
  ThunkAt = 20
  Fixed <- MCFixed
  Imports <- MCImports
  Slots = 2
  Heap = {8, 10}
  Places = {11, 18, 30}
  Reach = 6
  ShortReach = 2
SPECIFICATION Spec
CHECK_DEADLOCK FALSE
INVARIANT ImportsReached
INVARIANT FixedStay
INVARIANT PoolSuffices
INVARIANT HandlesFresh
