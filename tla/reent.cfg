CONSTANTS
  Loader = main
  Threads = {main, t1}
  Plugins = {p1, p2}
  NoPlugin = NoPlugin
  Nodes = {n1, n2, n3}
  NoNode = NoNode
  MaxRestores = 1
SPECIFICATION Spec
SYMMETRY Symmetry
INVARIANT PointersLive
INVARIANT NothingLeaks
INVARIANT UnloadedLeavesNothing
INVARIANT OwnCallbackCalled
PROPERTY CleanedOnce
