CONSTANTS
  top = top
  nested = nested
  Users = {p1}
  Paths <- DeepPaths
  Above <- DeepAbove
  Handles = {h1, h2}
  NoRoot = NoRoot
  Closed = Closed
  NoFile = NoFile
  Garbled = Garbled
  NoItems = NoItems
  Legacy = Legacy
  Kinds = {"binary", "empty", "number"}
  Interfaces = {"new", "old"}
  IoFaults = {"read", "refuse", "tear"}
SPECIFICATION Spec
SYMMETRY Symmetry
INVARIANT TypeOK
INVARIANT OneRoot
INVARIANT UpgradeKeepsItems
PROPERTY KeepsStorageContract
