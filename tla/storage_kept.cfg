CONSTANTS
  top = top
  nested = nested
  Users = {p1}
  Paths <- FlatPaths
  Above <- FlatAbove
  Handles = {h1, h2}
  NoRoot = NoRoot
  Closed = Closed
  NoFile = NoFile
  Garbled = Garbled
  NoItems = NoItems
  Legacy = Legacy
  Kinds = {"text"}
  Interfaces = {"new"}
  IoFaults = {}
SPECIFICATION Spec
SYMMETRY Symmetry
PROPERTY UnchangedNotSaved
